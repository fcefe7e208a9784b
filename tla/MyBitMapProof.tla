---------------------------- MODULE MyBitMapProof ----------------------------
(***************************************************************************)
(* Proofs about MyBitMap for every number of bits and every size of words: *)
(* the levels summarize the words of the map, and the lowest bit is found. *)
(***************************************************************************)
EXTENDS MyBitMap, DataLemmas

-----------------------------------------------------------------------------
(* Numbers.                                                                 *)

LEMMA DivDiv ==
  ASSUME NEW x \in Nat, NEW a \in Nat \ {0}, NEW b \in Nat \ {0}
  PROVE  /\ a * b \in Nat \ {0}
         /\ (x \div a) \div b = x \div (a * b)
<1> DEFINE q == x \div a
           r == x % a
           p == q \div b
           t == q % b
           c == a * b
           u == a * t + r
<1>1. q \in Nat /\ r \in 0 .. (a - 1) /\ x = a * q + r
  BY QuotientIs
<1>2. p \in Nat /\ t \in 0 .. (b - 1) /\ q = b * p + t
  <2> HIDE DEF q
  <2> QED BY <1>1, QuotientIs
<1>3. c \in Nat \ {0}
  <2>1. \A y \in Nat \ {0} : \A z \in Nat \ {0} : y * z \in Nat \ {0}
    OBVIOUS
  <2> QED BY <2>1
<1> HIDE DEF q, r, p, t
<1>4. x = c * p + u
  <2>1. x = a * (b * p + t) + r
    BY <1>1, <1>2
  <2>2. a * (b * p + t) = (a * b) * p + a * t
    BY <1>2
  <2>3. (a * b) * p \in Nat /\ a * t \in Nat /\ r \in Nat
    BY <1>1, <1>2
  <2> QED BY <2>1, <2>2, <2>3
<1>5. u \in 0 .. (c - 1)
  <2>1. PICK e \in Nat : b = t + 1 + e
    <3>1. b - (t + 1) \in Nat /\ b = t + 1 + (b - (t + 1))
      BY <1>2
    <3> QED BY <3>1
  <2>2. c = a * t + a + a * e
    BY <1>2, <2>1
  <2>3. a * t \in Nat /\ a * e \in Nat
    BY <1>2, <2>1
  <2> QED BY <1>1, <2>2, <2>3
<1> HIDE DEF c, u
<1> DEFINE v == x \div c
           w == x % c
<1>6. v \in Nat /\ w \in 0 .. (c - 1) /\ x = c * v + w
  BY <1>3, QuotientIs
<1> HIDE DEF v, w
<1>7. ~ (c * p + u < c * v + w) /\ ~ (c * v + w < c * p + u)
  <2>1. c * p + u \in Nat /\ c * v + w \in Nat /\ c * p + u = c * v + w
    BY <1>4, <1>6
  <2> QED BY <2>1
<1>8. ~ (p < v) /\ ~ (v < p)
  BY ONLY <1>2, <1>3, <1>5, <1>6, <1>7, QuotientOnly
<1>9. p = v
  BY <1>2, <1>6, <1>8
<1> QED BY <1>3, <1>9 DEF p, v, c, q

Digit == 0 .. (LeafBit - 1)

\* Where a bit is: the words it lies behind, and its place in its own.
LEMMA BitPlaces ==
  /\ LeafBit \in Nat /\ LeafBit >= 2 /\ 0 \in Digit /\ 1 \in Digit
  /\ \A x \in Nat : /\ x \div LeafBit \in Nat /\ x % LeafBit \in Digit
                    /\ (x \div LeafBit) * LeafBit + (x % LeafBit) = x
  /\ \A w \in Nat : \A j \in Digit :
       /\ w * LeafBit + j \in Nat
       /\ (w * LeafBit + j) \div LeafBit = w /\ (w * LeafBit + j) % LeafBit = j
  /\ \A w \in Nat : \A n \in Nat : \A j \in Digit : w * LeafBit + j < n * LeafBit <=> w < n
  /\ \A w \in Nat : \A v \in Nat : \A j \in Digit : \A k \in Digit :
       w * LeafBit + j < v * LeafBit + k <=> w < v \/ (w = v /\ j < k)
<1>1. LeafBit \in Nat \ {0} /\ LeafBit >= 2
  BY BitMapAssumption
<1>2. 0 \in Digit /\ 1 \in Digit /\ Digit \subseteq Nat
  BY <1>1 DEF Digit
<1>3. \A w \in Nat : w * LeafBit = LeafBit * w /\ LeafBit * w \in Nat
  BY <1>1
<1>4. ASSUME NEW x \in Nat
      PROVE  /\ x \div LeafBit \in Nat /\ x % LeafBit \in Digit
             /\ x = LeafBit * (x \div LeafBit) + (x % LeafBit)
  <2>1. x \div LeafBit \in Nat /\ x % LeafBit \in 0 .. (LeafBit - 1)
        /\ x = LeafBit * (x \div LeafBit) + (x % LeafBit)
    BY ONLY <1>1, x \in Nat, QuotientIs
  <2> QED BY ONLY <2>1 DEF Digit
<1>5. ASSUME NEW w \in Nat, NEW v \in Nat, NEW j \in Digit, NEW k \in Digit
      PROVE  LeafBit * w + j < LeafBit * v + k <=> w < v \/ (w = v /\ j < k)
  BY ONLY <1>1, <1>5, QuotientOnly DEF Digit
<1>6. ASSUME NEW w \in Nat, NEW j \in Digit
      PROVE  /\ LeafBit * w + j \in Nat
             /\ (LeafBit * w + j) \div LeafBit = w /\ (LeafBit * w + j) % LeafBit = j
  <2> DEFINE x == LeafBit * w + j
             v == x \div LeafBit
             k == x % LeafBit
  <2>1. x \in Nat
    BY <1>2, <1>3
  <2> HIDE DEF x
  <2>2. v \in Nat /\ k \in Digit /\ x = LeafBit * v + k
    BY ONLY <2>1, <1>4
  <2> HIDE DEF v, k
  <2>3. ~ (LeafBit * w + j < LeafBit * v + k) /\ ~ (LeafBit * v + k < LeafBit * w + j)
    <3>1. LeafBit * w + j = LeafBit * v + k /\ LeafBit * v + k \in Nat
      BY <2>1, <2>2 DEF x
    <3> QED BY <3>1
  <2>4. ~ (w < v \/ (w = v /\ j < k)) /\ ~ (v < w \/ (v = w /\ k < j))
    BY <1>5, <2>2, <2>3
  <2>5. w = v /\ j = k
    BY <1>2, <2>2, <2>4
  <2> QED BY <2>1, <2>5 DEF x, v, k
<1>7. ASSUME NEW w \in Nat, NEW n \in Nat, NEW j \in Digit
      PROVE  w * LeafBit + j < n * LeafBit <=> w < n
  <2>1. LeafBit * w + j < LeafBit * n + 0 <=> w < n \/ (w = n /\ j < 0)
    BY <1>2, <1>5
  <2>2. ~ (j < 0)
    BY <1>2
  <2> QED BY <1>3, <2>1, <2>2
<1>8. ASSUME NEW x \in Nat
      PROVE  /\ x \div LeafBit \in Nat /\ x % LeafBit \in Digit
             /\ (x \div LeafBit) * LeafBit + (x % LeafBit) = x
  <2> DEFINE v == x \div LeafBit
             k == x % LeafBit
  <2>1. v \in Nat /\ k \in Digit /\ x = LeafBit * v + k
    BY ONLY <1>4, x \in Nat
  <2> HIDE DEF v, k
  <2>2. v * LeafBit + k = x
    BY <2>1, <1>3
  <2> QED BY <2>1, <2>2 DEF v, k
<1>9. ASSUME NEW w \in Nat, NEW j \in Digit
      PROVE  /\ w * LeafBit + j \in Nat
             /\ (w * LeafBit + j) \div LeafBit = w /\ (w * LeafBit + j) % LeafBit = j
  <2>1. w * LeafBit = LeafBit * w
    BY <1>3
  <2> QED BY ONLY <2>1, <1>6, w \in Nat, j \in Digit, Zenon
<1>10. ASSUME NEW w \in Nat, NEW v \in Nat, NEW j \in Digit, NEW k \in Digit
       PROVE  w * LeafBit + j < v * LeafBit + k <=> w < v \/ (w = v /\ j < k)
  <2>1. w * LeafBit = LeafBit * w /\ v * LeafBit = LeafBit * v
    BY <1>3
  <2> QED BY ONLY <2>1, <1>5, w \in Nat, j \in Digit, v \in Nat, k \in Digit, Zenon
<1> QED BY ONLY <1>1, <1>2, <1>7, <1>8, <1>9, <1>10, Zenon

-----------------------------------------------------------------------------
(* The levels of the tree.                                                  *)

LEMMA CapsAre ==
  /\ Bits \in Nat \ {0} /\ Size \in Nat \ {0} /\ Bits = Size * LeafBit
  /\ \A l \in 0 .. Bits : LevelCap[l] \in Nat
  /\ LevelCap[0] = Size
  /\ \A l \in 1 .. Bits : LevelCap[l] = LevelCap[l - 1] \div LeafBit
<1> DEFINE S    == Nat
           G    == [l \in 0 .. Bits |-> S]
           step == [l \in 1 .. Bits |-> [s \in S |-> s \div LeafBit]]
<1>1. Bits \in Nat \ {0} /\ 0 \in 0 .. Bits
  BY BitMapAssumption
<1>2. Size \in Nat /\ (Bits % LeafBit) = 0 /\ Bits = Size * LeafBit + (Bits % LeafBit)
  <2>1. Bits \in Nat /\ (Bits % LeafBit) = 0
    BY <1>1, BitMapAssumption
  <2>2. Bits \div LeafBit \in Nat /\ (Bits \div LeafBit) * LeafBit + (Bits % LeafBit) = Bits
    BY ONLY <2>1, BitPlaces
  <2> QED BY <2>1, <2>2 DEF Size
<1>3. Size \in Nat \ {0} /\ Bits = Size * LeafBit
  <2>1. LeafBit \in Nat
    BY BitPlaces
  <2>2. Size = 0 => Size * LeafBit = 0
    BY <2>1
  <2>3. Size * LeafBit \in Nat
    BY <1>2, <2>1
  <2> QED BY <1>1, <1>2, <2>2, <2>3
<1>4. \A s \in Nat : s \div LeafBit \in Nat
  BY BitPlaces
<1>5. Stays(Bits, S, G, Size, step)
  <2>1. ASSUME NEW l \in 1 .. Bits, NEW s \in G[l - 1] PROVE step[l][s] \in G[l]
    <3>1. l \in 0 .. Bits /\ l - 1 \in 0 .. Bits
      BY <1>1
    <3> QED BY <1>4, <3>1
  <2> QED BY <1>1, <1>3, <2>1 DEF Stays
<1>6. PICK f \in [0 .. Bits -> S] :
        \A l \in 0 .. Bits : f[l] = (IF l = 0 THEN Size ELSE step[l][f[l - 1]]) /\ f[l] \in G[l]
  <2> HIDE DEF G, step, S
  <2> QED BY ONLY <1>5, Stages
<1>7. LevelCap = [l \in 0 .. Bits |-> IF l = 0 THEN Size ELSE LevelCap[l - 1] \div LeafBit]
  <2>1. f = [l \in 0 .. Bits |-> IF l = 0 THEN Size ELSE f[l - 1] \div LeafBit]
    <3>1. ASSUME NEW l \in 0 .. Bits, l # 0 PROVE step[l][f[l - 1]] = f[l - 1] \div LeafBit
      <4>1. l \in 1 .. Bits /\ l - 1 \in 0 .. Bits
        BY <1>1, <3>1
      <4> QED BY <4>1
    <3> HIDE DEF step
    <3> QED BY <3>1, <1>6
  <2> QED BY <2>1 DEF LevelCap
<1>8. LevelCap[0] = Size
  BY <1>1, <1>7
<1>9. ASSUME NEW l \in 1 .. Bits PROVE LevelCap[l] = LevelCap[l - 1] \div LeafBit
  <2>1. l \in 0 .. Bits /\ l # 0
    BY <1>1
  <2> QED BY <2>1, <1>7
<1> DEFINE T == {l \in 0 .. Bits : LevelCap[l] \in Nat}
<1>10. \A l \in 0 .. Bits : l \in T
  <2>1. 0 \in T
    BY <1>1, <1>3, <1>8
  <2>2. ASSUME NEW l \in 1 .. Bits, l - 1 \in T PROVE l \in T
    <3>1. l \in 0 .. Bits
      BY <1>1
    <3> QED BY <1>4, <1>9, <2>2, <3>1
  <2> HIDE DEF T
  <2>3. Bits \in Nat
    BY <1>1
  <2> QED BY ONLY <2>1, <2>2, <2>3, Throughout
<1> QED BY <1>1, <1>3, <1>8, <1>9, <1>10

\* The lowest level that fits a word.
LEMMA RootIs ==
  /\ RootLevel \in 0 .. Bits /\ LevelCap[RootLevel] <= LeafBit
<1> DEFINE R == {l \in 0 .. Bits : LevelCap[l] <= LeafBit}
           T == {l \in 0 .. Bits : LevelCap[l] <= LeafBit \/ LevelCap[l] + l <= Bits}
<1>1. /\ Bits \in Nat \ {0} /\ Size \in Nat \ {0} /\ Bits = Size * LeafBit
      /\ \A l \in 0 .. Bits : LevelCap[l] \in Nat
      /\ LevelCap[0] = Size
      /\ \A l \in 1 .. Bits : LevelCap[l] = LevelCap[l - 1] \div LeafBit
  BY CapsAre
<1>2. LeafBit \in Nat /\ LeafBit >= 2
  BY BitPlaces
<1>3. \A x \in Nat : x \div LeafBit \in Nat /\ (x \div LeafBit <= x) /\ (x > 0 => x \div LeafBit < x)
  BY <1>2
<1>4. 0 \in T
  <2>1. Size <= Bits
    <3>1. Size * 1 <= Size * LeafBit
      BY <1>1, <1>2
    <3> QED BY <1>1, <3>1
  <2> QED BY <1>1, <2>1
<1>5. ASSUME NEW l \in 1 .. Bits, l - 1 \in T PROVE l \in T
  <2>1. l \in 0 .. Bits /\ l - 1 \in 0 .. Bits
    BY <1>1
  <2>2. LevelCap[l - 1] \in Nat /\ LevelCap[l] = LevelCap[l - 1] \div LeafBit /\ LevelCap[l] \in Nat
    BY <1>1, <2>1
  <2>3. LevelCap[l] <= LevelCap[l - 1] /\ (LevelCap[l - 1] > 0 => LevelCap[l] < LevelCap[l - 1])
    BY <1>3, <2>2
  <2> QED BY <1>1, <1>2, <1>5, <2>1, <2>2, <2>3
<1>6. \A l \in 0 .. Bits : l \in T
  <2> HIDE DEF T
  <2>1. Bits \in Nat
    BY <1>1
  <2> QED BY ONLY <1>4, <1>5, <2>1, Throughout
<1>7. Bits \in R
  <2>1. Bits \in T /\ LevelCap[Bits] \in Nat
    BY <1>1, <1>6
  <2> QED BY <1>1, <1>2, <2>1
<1>8. R \subseteq Nat
  OBVIOUS
<1>9. Min(R) \in R
  <2> HIDE DEF R
  <2> QED BY <1>7, <1>8, LeastNat
<1> QED BY <1>9 DEF RootLevel

\* The words below level l, the root's for l above the root.
Count(l) == IF l = RootLevel + 1 THEN 1 ELSE LevelCap[l]

LEMMA LevelsAre ==
  /\ RootLevel \in Nat
  /\ \A l \in 0 .. (RootLevel + 1) : Count(l) \in Nat \ {0}
  /\ Count(0) = Size /\ Bits = Count(0) * LeafBit /\ Count(RootLevel) <= LeafBit
  /\ \A l \in 0 .. RootLevel : Count(l) = LevelCap[l]
  /\ \A l \in 1 .. RootLevel : /\ Count(l - 1) = Count(l) * LeafBit
                               /\ LevelCap[l - 1] \div LeafBit = LevelCap[l]
  /\ \A l \in 0 .. RootLevel : Offset[l] \in Nat
  /\ Offset[0] = 0 /\ RootIndex = Offset[RootLevel]
  /\ \A l \in 1 .. RootLevel : Offset[l] = Offset[l - 1] + Count(l)
<1>1. /\ Bits \in Nat \ {0} /\ Size \in Nat \ {0} /\ Bits = Size * LeafBit
      /\ \A l \in 0 .. Bits : LevelCap[l] \in Nat
      /\ LevelCap[0] = Size
      /\ \A l \in 1 .. Bits : LevelCap[l] = LevelCap[l - 1] \div LeafBit
  BY CapsAre
<1>2. RootLevel \in 0 .. Bits /\ LevelCap[RootLevel] <= LeafBit
  BY RootIs
<1>3. RootLevel \in Nat /\ 0 .. RootLevel \subseteq 0 .. Bits /\ RootLevel # RootLevel + 1
  BY <1>1, <1>2
<1>4. \A l \in 0 .. RootLevel : Count(l) = LevelCap[l]
  BY <1>3 DEF Count
<1>5. ASSUME NEW l \in 1 .. RootLevel
      PROVE  /\ LevelCap[l - 1] = LevelCap[l] * LeafBit
             /\ LevelCap[l] = LevelCap[l - 1] \div LeafBit
             /\ l - 1 \in 0 .. RootLevel /\ l \in 0 .. RootLevel
  <2>1. /\ l - 1 \in 0 .. (RootLevel - 1) /\ l - 1 \in 0 .. RootLevel /\ l \in 0 .. RootLevel
        /\ l \in 1 .. Bits /\ l - 1 \in 0 .. Bits
    BY <1>1, <1>2, <1>3
  <2>2. LevelCap[l - 1] \in Nat /\ (LevelCap[l - 1] % LeafBit) = 0
    BY <1>1, <2>1, BitMapAssumption
  <2>3. /\ LevelCap[l - 1] \div LeafBit \in Nat
        /\ (LevelCap[l - 1] \div LeafBit) * LeafBit + (LevelCap[l - 1] % LeafBit) = LevelCap[l - 1]
    BY ONLY <2>2, BitPlaces
  <2>4. LevelCap[l] = LevelCap[l - 1] \div LeafBit
    BY <1>1, <2>1
  <2>5. LevelCap[l] \in Nat /\ LevelCap[l] * LeafBit + 0 = LevelCap[l - 1]
    BY <2>2, <2>3, <2>4
  <2>6. LevelCap[l] * LeafBit \in Nat
    <3>1. LeafBit \in Nat
      BY BitPlaces
    <3> QED BY ONLY <2>5, <3>1
  <2> QED BY <2>1, <2>4, <2>5, <2>6
<1> DEFINE T == {l \in 0 .. RootLevel : LevelCap[l] \in Nat \ {0}}
<1>6. \A l \in 0 .. RootLevel : l \in T
  <2>1. 0 \in T
    BY <1>1, <1>3
  <2>2. ASSUME NEW l \in 1 .. RootLevel, l - 1 \in T PROVE l \in T
    <3>1. LevelCap[l] \in Nat /\ LevelCap[l - 1] # 0 /\ LevelCap[l - 1] = LevelCap[l] * LeafBit
      BY <1>1, <1>3, <1>5, <2>2
    <3>2. 0 * LeafBit = 0
      BY BitPlaces
    <3>3. LevelCap[l] # 0
      BY ONLY <3>1, <3>2, Zenon
    <3> QED BY <1>5, <3>1, <3>3
  <2> HIDE DEF T
  <2> QED BY ONLY <1>3, <2>1, <2>2, Throughout
<1>7. \A l \in 0 .. RootLevel : LevelCap[l] \in Nat \ {0}
  BY <1>6
<1>8. \A l \in 0 .. (RootLevel + 1) : Count(l) \in Nat \ {0}
  <2>1. \A l \in 0 .. (RootLevel + 1) : l \in 0 .. RootLevel \/ l = RootLevel + 1
    BY <1>3
  <2> QED BY <1>7, <2>1 DEF Count
<1> DEFINE S    == Nat
           G    == [l \in 0 .. RootLevel |-> S]
           step == [l \in 1 .. RootLevel |-> [s \in S |-> s + (LevelCap[l - 1] \div LeafBit)]]
<1>9. Stays(RootLevel, S, G, 0, step)
  <2>1. ASSUME NEW l \in 1 .. RootLevel, NEW s \in G[l - 1] PROVE step[l][s] \in G[l]
    <3>1. LevelCap[l - 1] \div LeafBit \in Nat /\ l \in 0 .. RootLevel /\ l - 1 \in 0 .. RootLevel
      BY <1>5, <1>7
    <3> QED BY <3>1
  <2>2. 0 \in G[0] /\ \A l \in 0 .. RootLevel : G[l] \subseteq S
    BY <1>3
  <2> HIDE DEF G, step
  <2> QED BY <1>3, <2>1, <2>2 DEF Stays
<1>10. PICK f \in [0 .. RootLevel -> S] :
        \A l \in 0 .. RootLevel : f[l] = (IF l = 0 THEN 0 ELSE step[l][f[l - 1]]) /\ f[l] \in G[l]
  <2> HIDE DEF G, step, S
  <2> QED BY ONLY <1>9, Stages
<1>11. Offset = [l \in 0 .. RootLevel |-> IF l = 0 THEN 0 ELSE Offset[l - 1] + (LevelCap[l - 1] \div LeafBit)]
  <2>1. f = [l \in 0 .. RootLevel |-> IF l = 0 THEN 0 ELSE f[l - 1] + (LevelCap[l - 1] \div LeafBit)]
    <3>1. ASSUME NEW l \in 0 .. RootLevel, l # 0
          PROVE  step[l][f[l - 1]] = f[l - 1] + (LevelCap[l - 1] \div LeafBit)
      <4>1. l \in 1 .. RootLevel /\ l - 1 \in 0 .. RootLevel
        BY <1>3, <3>1
      <4> QED BY <4>1
    <3> HIDE DEF step
    <3> QED BY <3>1, <1>10
  <2> QED BY <2>1 DEF Offset
<1>12. ASSUME NEW l \in 1 .. RootLevel PROVE Offset[l] = Offset[l - 1] + Count(l)
  <2>1. l \in 0 .. RootLevel /\ l # 0
    BY <1>5
  <2>2. Offset[l] = Offset[l - 1] + (LevelCap[l - 1] \div LeafBit)
    BY <2>1, <1>11
  <2> QED BY <1>4, <1>5, <2>1, <2>2
<1>13. 0 \in 0 .. RootLevel /\ Offset[0] = 0
  BY <1>3, <1>11
<1> DEFINE U == {l \in 0 .. RootLevel : Offset[l] \in Nat}
<1>14. \A l \in 0 .. RootLevel : l \in U
  <2>1. 0 \in U
    BY <1>13
  <2>2. ASSUME NEW l \in 1 .. RootLevel, l - 1 \in U PROVE l \in U
    <3>1. Count(l) \in Nat /\ l \in 0 .. RootLevel
      BY <1>4, <1>5, <1>7
    <3> QED BY <1>12, <2>2, <3>1
  <2> HIDE DEF U
  <2> QED BY ONLY <1>3, <2>1, <2>2, Throughout
<1>15. Count(0) = Size /\ Count(RootLevel) <= LeafBit /\ Bits = Count(0) * LeafBit
  BY <1>1, <1>2, <1>3, <1>4, <1>13
<1>16. \A l \in 1 .. RootLevel : Count(l - 1) = Count(l) * LeafBit /\ LevelCap[l - 1] \div LeafBit = LevelCap[l]
  BY <1>4, <1>5
<1> QED BY <1>3, <1>4, <1>8, <1>12, <1>13, <1>14, <1>15, <1>16 DEF RootIndex

\* Levels lie behind one another in inner.
LEMMA PlacesApart ==
  /\ \A l \in 0 .. RootLevel : \A w \in 0 .. (Count(l + 1) - 1) : Offset[l] + w \in 0 .. RootIndex
  /\ \A l, k \in 0 .. RootLevel : \A w \in 0 .. (Count(l + 1) - 1) : l < k => Offset[l] + w < Offset[k]
  /\ \A l, k \in 0 .. RootLevel : \A w \in 0 .. (Count(l + 1) - 1) : \A v \in 0 .. (Count(k + 1) - 1) :
       Offset[l] + w = Offset[k] + v => l = k /\ w = v
<1>1. /\ RootLevel \in Nat
      /\ \A l \in 0 .. (RootLevel + 1) : Count(l) \in Nat \ {0}
      /\ \A l \in 0 .. RootLevel : Offset[l] \in Nat
      /\ Offset[0] = 0 /\ RootIndex = Offset[RootLevel]
      /\ \A l \in 1 .. RootLevel : Offset[l] = Offset[l - 1] + Count(l)
  BY LevelsAre
<1>2. \A l \in 0 .. RootLevel : l + 1 \in 0 .. (RootLevel + 1) /\ Count(l + 1) \in Nat \ {0}
  BY <1>1
<1>3. ASSUME NEW l \in 0 .. RootLevel
      PROVE  \A k \in 0 .. RootLevel : l < k => Offset[l] + Count(l + 1) <= Offset[k]
  <2> DEFINE T == {k \in 0 .. RootLevel : l < k => Offset[l] + Count(l + 1) <= Offset[k]}
  <2>1. 0 \in T
    BY <1>1
  <2>2. ASSUME NEW k \in 1 .. RootLevel, k - 1 \in T PROVE k \in T
    <3>1. /\ k \in 0 .. RootLevel /\ k - 1 \in 0 .. RootLevel /\ Offset[k] = Offset[k - 1] + Count(k)
          /\ Offset[k - 1] \in Nat /\ Offset[k] \in Nat /\ Count(k) \in Nat /\ Offset[l] \in Nat
          /\ Count(l + 1) \in Nat
      BY <1>1, <1>2
    <3>2. CASE l < k - 1
      BY <2>2, <3>1, <3>2
    <3>3. CASE l = k - 1
      <4>1. l + 1 = k
        BY <3>1, <3>3
      <4> QED BY <3>1, <3>3, <4>1
    <3>4. l < k => l < k - 1 \/ l = k - 1
      BY <3>1
    <3> QED BY <3>1, <3>2, <3>3, <3>4
  <2>3. \A k \in 0 .. RootLevel : k \in T
    <3> HIDE DEF T
    <3> QED BY ONLY <1>1, <2>1, <2>2, Throughout
  <2> QED BY <2>3
<1>4. \A l, k \in 0 .. RootLevel : \A w \in 0 .. (Count(l + 1) - 1) : l < k => Offset[l] + w < Offset[k]
  BY <1>1, <1>2, <1>3
<1>5. \A l \in 0 .. RootLevel : \A w \in 0 .. (Count(l + 1) - 1) : Offset[l] + w \in 0 .. RootIndex
  <2> TAKE l \in 0 .. RootLevel
  <2> TAKE w \in 0 .. (Count(l + 1) - 1)
  <2>1. CASE l < RootLevel
    BY <1>1, <1>2, <1>4, <2>1
  <2>2. CASE l = RootLevel
    <3>1. Count(l + 1) = 1
      BY <2>2 DEF Count
    <3> QED BY <1>1, <2>2, <3>1
  <2> QED BY <1>1, <2>1, <2>2
<1>6. \A l, k \in 0 .. RootLevel : \A w \in 0 .. (Count(l + 1) - 1) : \A v \in 0 .. (Count(k + 1) - 1) :
       Offset[l] + w = Offset[k] + v => l = k /\ w = v
  <2> TAKE l, k \in 0 .. RootLevel
  <2> TAKE w \in 0 .. (Count(l + 1) - 1)
  <2> TAKE v \in 0 .. (Count(k + 1) - 1)
  <2>1. Offset[l] \in Nat /\ Offset[k] \in Nat /\ w \in Nat /\ v \in Nat
    BY <1>1, <1>2
  <2>2. CASE l < k
    <3>1. Offset[l] + w < Offset[k]
      BY <1>4, <2>2
    <3> QED BY <2>1, <3>1
  <2>3. CASE k < l
    <3>1. Offset[k] + v < Offset[l]
      BY <1>4, <2>3
    <3> QED BY <2>1, <3>1
  <2>4. CASE l = k
    BY <2>1, <2>4
  <2> QED BY <1>1, <2>2, <2>3, <2>4
<1> QED BY <1>4, <1>5, <1>6

-----------------------------------------------------------------------------
(* What the levels say of one another.                                      *)

\* Each bit of a level is in a word of it, and each bit of a word below the root
\* is one of its level.
LEMMA BitsOfLevels ==
  /\ \A l \in 0 .. RootLevel : \A b \in 0 .. (Count(l) - 1) :
       b \in Nat /\ b \div LeafBit \in 0 .. (Count(l + 1) - 1) /\ b % LeafBit \in Digit
  /\ \A l \in 0 .. RootLevel : \A w \in 0 .. (Count(l + 1) - 1) : \A j \in Digit :
       w \in Nat /\ (l = RootLevel => w = 0) /\ (l < RootLevel => w * LeafBit + j \in 0 .. (Count(l) - 1))
<1>1. /\ RootLevel \in Nat
      /\ \A l \in 0 .. (RootLevel + 1) : Count(l) \in Nat \ {0}
      /\ Count(RootLevel) <= LeafBit
      /\ \A l \in 1 .. RootLevel : Count(l - 1) = Count(l) * LeafBit
  BY LevelsAre
<1>2. /\ LeafBit \in Nat /\ LeafBit >= 2
      /\ \A x \in Nat : /\ x \div LeafBit \in Nat /\ x % LeafBit \in Digit
                        /\ (x \div LeafBit) * LeafBit + (x % LeafBit) = x
      /\ \A w \in Nat : \A j \in Digit : w * LeafBit + j \in Nat
      /\ \A w \in Nat : \A n \in Nat : \A j \in Digit : w * LeafBit + j < n * LeafBit <=> w < n
  BY BitPlaces
<1>3. ASSUME NEW l \in 0 .. RootLevel, l < RootLevel
      PROVE  Count(l) = Count(l + 1) * LeafBit /\ Count(l + 1) \in Nat \ {0} /\ Count(l) \in Nat
  <2>1. l + 1 \in 1 .. RootLevel /\ (l + 1) - 1 = l /\ l + 1 \in 0 .. (RootLevel + 1) /\ l \in 0 .. (RootLevel + 1)
    BY <1>1, <1>3
  <2> QED BY <1>1, <2>1
<1>4. Count(RootLevel + 1) = 1
  BY DEF Count
<1>5. ASSUME NEW l \in 0 .. RootLevel, NEW b \in 0 .. (Count(l) - 1)
      PROVE  b \in Nat /\ b \div LeafBit \in 0 .. (Count(l + 1) - 1) /\ b % LeafBit \in Digit
  <2>1. b \in Nat /\ b < Count(l) /\ Count(l) \in Nat
    <3>1. l \in 0 .. (RootLevel + 1)
      BY <1>1
    <3> QED BY <1>1, <3>1
  <2> DEFINE w == b \div LeafBit
             j == b % LeafBit
  <2>2. w \in Nat /\ j \in Digit /\ w * LeafBit + j = b
    BY ONLY <1>2, <2>1
  <2> HIDE DEF w, j
  <2>3. w \in 0 .. (Count(l + 1) - 1)
    <3>1. CASE l < RootLevel
      <4>1. w * LeafBit + j < Count(l + 1) * LeafBit
        BY <1>3, <2>1, <2>2, <3>1
      <4>2. w < Count(l + 1) /\ Count(l + 1) \in Nat
        BY <1>2, <1>3, <2>2, <3>1, <4>1
      <4> QED BY <2>2, <4>2
    <3>2. CASE l = RootLevel
      <4>1. w * LeafBit + j < 1 * LeafBit
        BY <1>1, <1>2, <2>1, <2>2, <3>2
      <4>2. w < 1
        BY ONLY <1>2, <2>2, <4>1, 1 \in Nat
      <4> QED BY <1>4, <2>2, <3>2, <4>2
    <3> QED BY <1>1, <3>1, <3>2
  <2> QED BY <2>1, <2>2, <2>3 DEF w, j
<1>6. ASSUME NEW l \in 0 .. RootLevel, NEW w \in 0 .. (Count(l + 1) - 1), NEW j \in Digit
      PROVE  w \in Nat /\ (l = RootLevel => w = 0) /\ (l < RootLevel => w * LeafBit + j \in 0 .. (Count(l) - 1))
  <2>1. w \in Nat /\ w < Count(l + 1) /\ Count(l + 1) \in Nat
    <3>1. l + 1 \in 0 .. (RootLevel + 1)
      BY <1>1
    <3> QED BY <1>1, <3>1
  <2>2. l = RootLevel => w = 0
    BY <1>4, <2>1
  <2>3. CASE l < RootLevel
    <3>1. w * LeafBit + j < Count(l + 1) * LeafBit /\ w * LeafBit + j \in Nat
      BY ONLY <1>2, <2>1, j \in Digit
    <3>2. Count(l) = Count(l + 1) * LeafBit /\ Count(l) \in Nat
      BY <1>3, <2>3
    <3> QED BY <2>1, <2>2, <3>1, <3>2
  <2> QED BY <2>1, <2>2, <2>3
<1> QED BY ONLY <1>5, <1>6

Leaves == [0 .. (Size - 1) -> SUBSET Digit]
Inners == [0 .. RootIndex -> SUBSET Digit]

\* The b-th word below level l, and the bit of level l for it.
Below(d, in, l, b) == IF l = 0 THEN d[b] ELSE in[Offset[l - 1] + b]
Bit(in, l, b) == b % LeafBit \in in[Offset[l] + b \div LeafBit]
Right(d, in, l, b) == Bit(in, l, b) <=> Below(d, in, l, b) # {}

\* Every bit is right, but that for word B below level L may not be.
RightBut(d, in, L, B) ==
  /\ in \in Inners /\ in[RootIndex] \subseteq 0 .. (Count(RootLevel) - 1)
  /\ \A l \in 0 .. RootLevel : \A b \in 0 .. (Count(l) - 1) : l # L \/ b # B => Right(d, in, l, b)

\* What the loop of updateInner has when it comes to level l.
Coming == [inner : Inners, offset : Nat, index : Nat, cap : Nat, on : BOOLEAN]
AtLevel(d, l, s) ==
  /\ RightBut(d, s.inner, l, s.index)
  /\ l <= RootLevel => /\ s.offset = Offset[l] /\ s.cap = LevelCap[l] \div LeafBit
                       /\ s.index \in 0 .. (Count(l) - 1)
                       /\ s.on = (Below(d, s.inner, l, s.index) # {})

LEMMA UpStep ==
  ASSUME NEW d, NEW l \in 0 .. RootLevel, NEW s \in Coming, AtLevel(d, l, s)
  PROVE  LevelUpdated(s) \in Coming /\ AtLevel(d, l + 1, LevelUpdated(s))
<1> DEFINE i == s.index
           w == i \div LeafBit
           j == i % LeafBit
           p == Offset[l] + w
           in == s.inner
           up == WithBit(s.inner, s.offset, s.index, s.on)
           r == LevelUpdated(s)
<1>1. /\ RootLevel \in Nat /\ l \in Nat /\ l <= RootLevel
      /\ \A k \in 0 .. (RootLevel + 1) : Count(k) \in Nat \ {0}
      /\ Count(RootLevel) <= LeafBit
      /\ \A k \in 0 .. RootLevel : Offset[k] \in Nat /\ Count(k) = LevelCap[k]
      /\ RootIndex = Offset[RootLevel]
      /\ \A k \in 1 .. RootLevel : Offset[k] = Offset[k - 1] + Count(k)
      /\ \A k \in 1 .. RootLevel : LevelCap[k - 1] \div LeafBit = LevelCap[k]
  BY LevelsAre
<1>2. /\ in \in Inners /\ in[RootIndex] \subseteq 0 .. (Count(RootLevel) - 1)
      /\ \A k \in 0 .. RootLevel : \A b \in 0 .. (Count(k) - 1) : k # l \/ b # i => Right(d, in, k, b)
      /\ s.offset = Offset[l] /\ s.cap = LevelCap[l] \div LeafBit
      /\ i \in 0 .. (Count(l) - 1)
      /\ s.on = (Below(d, in, l, i) # {}) /\ s.on \in BOOLEAN
  BY <1>1 DEF AtLevel, RightBut, Coming
<1>3. i \in Nat /\ w \in 0 .. (Count(l + 1) - 1) /\ w \in Nat /\ j \in Digit /\ p \in 0 .. RootIndex
  <2>1. i \in Nat /\ w \in 0 .. (Count(l + 1) - 1) /\ j \in Digit
    BY <1>2, BitsOfLevels
  <2>2. p \in 0 .. RootIndex
    BY <2>1, PlacesApart
  <2>3. w \in Nat
    BY <2>1
  <2> QED BY <2>1, <2>2, <2>3
<1>4. up = [in EXCEPT ![p] = IF s.on THEN @ \cup {j} ELSE @ \ {j}]
  BY <1>2 DEF WithBit
<1>5. /\ up \in Inners
      /\ \A q \in 0 .. RootIndex : q # p => up[q] = in[q]
      /\ \A k \in Digit : k # j => (k \in up[p] <=> k \in in[p])
      /\ j \in up[p] <=> s.on
  <2>1. in[p] \in SUBSET Digit /\ (in[p] \cup {j}) \in SUBSET Digit /\ (in[p] \ {j}) \in SUBSET Digit
    BY <1>2, <1>3 DEF Inners
  <2> HIDE DEF in, p, j, up
  <2> QED BY <1>2, <1>3, <1>4, <2>1 DEF Inners
<1>6. r = [inner |-> up, offset |-> s.offset + s.cap, index |-> w, cap |-> s.cap \div LeafBit,
           on |-> up[p] # {}]
  BY <1>2 DEF LevelUpdated
<1> HIDE DEF up, r
<1>7. up[RootIndex] \subseteq 0 .. (Count(RootLevel) - 1)
  <2>1. CASE l = RootLevel
    <3>1. w = 0 /\ p = RootIndex
      <4>1. w = 0
        BY <1>3, <2>1, BitsOfLevels
      <4> QED BY <1>1, <2>1, <4>1
    <3>2. j \in 0 .. (Count(RootLevel) - 1)
      <4>1. w * LeafBit + j = i
        BY <1>3, BitPlaces
      <4>2. LeafBit \in Nat /\ i \in 0 .. (Count(RootLevel) - 1) /\ j \in Nat
        <5>1. LeafBit \in Nat
          BY BitPlaces
        <5> QED BY <1>2, <1>3, <2>1, <5>1 DEF Digit
      <4>3. 0 * LeafBit = 0
        BY <4>2
      <4> HIDE DEF w, j, i
      <4> QED BY <3>1, <4>1, <4>2, <4>3
    <3> HIDE DEF w, j, i, p
    <3>3. up[p] \in SUBSET Digit
      BY <1>3, <1>5 DEF Inners
    <3> QED BY <1>2, <1>3, <1>5, <3>1, <3>2, <3>3
  <2>2. CASE l # RootLevel
    <3>1. l < RootLevel /\ RootLevel \in 0 .. RootLevel
      BY <1>1, <2>2
    <3>2. p < RootIndex /\ RootIndex \in 0 .. RootIndex
      BY <1>1, <1>3, <3>1, PlacesApart
    <3> HIDE DEF p
    <3> QED BY <1>2, <1>3, <1>5, <3>2
  <2> QED BY <2>1, <2>2
<1>8. ASSUME NEW k \in 0 .. RootLevel, NEW b \in 0 .. (Count(k) - 1), k # l \/ b # i
      PROVE  Bit(up, k, b) <=> Bit(in, k, b)
  <2> DEFINE v == b \div LeafBit
             m == b % LeafBit
  <2>1. b \in Nat /\ v \in 0 .. (Count(k + 1) - 1) /\ m \in Digit /\ v \in Nat
    <3>1. b \in Nat /\ v \in 0 .. (Count(k + 1) - 1) /\ m \in Digit
      BY BitsOfLevels
    <3> QED BY <3>1
  <2>2. Offset[k] + v \in 0 .. RootIndex
    BY <2>1, PlacesApart
  <2>3. CASE Offset[k] + v = p
    <3>1. k = l /\ v = w
      BY <1>3, <2>1, <2>3, PlacesApart
    <3>2. m # j
      <4>1. v * LeafBit + m = b /\ w * LeafBit + j = i
        BY <1>3, <2>1, BitPlaces
      <4> HIDE DEF v, m, w, j
      <4> QED BY <1>8, <3>1, <4>1
    <3> HIDE DEF v, m, p, j
    <3> QED BY <1>5, <2>1, <2>3, <3>2 DEF Bit, v, m
  <2>4. CASE Offset[k] + v # p
    <3> HIDE DEF p
    <3> QED BY <1>5, <2>2, <2>4 DEF Bit
  <2> QED BY <2>3, <2>4
<1>9. ASSUME NEW k \in 0 .. RootLevel, NEW b \in 0 .. (Count(k) - 1), k # l + 1 \/ b # w
      PROVE  Below(d, up, k, b) = Below(d, in, k, b)
  <2>1. CASE k = 0
    BY <2>1 DEF Below
  <2>2. CASE k # 0
    <3>1. k - 1 \in 0 .. RootLevel /\ (k - 1) + 1 = k
      BY <1>1, <2>2
    <3>2. Offset[k - 1] + b \in 0 .. RootIndex
      BY <3>1, PlacesApart
    <3>3. Offset[k - 1] + b # p
      <4>1. Offset[k - 1] + b = p => k - 1 = l /\ b = w
        <5>1. b \in 0 .. (Count((k - 1) + 1) - 1)
          BY <3>1
        <5> HIDE DEF w
        <5> QED BY ONLY <1>3, <3>1, <5>1, l \in 0 .. RootLevel, PlacesApart DEF p
      <4> QED BY <1>1, <1>9, <3>1, <4>1
    <3> HIDE DEF p
    <3> QED BY <1>5, <2>2, <3>2, <3>3 DEF Below
  <2> QED BY <2>1, <2>2
<1>10. l \in 0 .. RootLevel /\ i \in 0 .. (Count(l) - 1) /\ Right(d, up, l, i)
  <2>1. Below(d, up, l, i) = Below(d, in, l, i)
    <3>1. l # l + 1
      BY <1>1
    <3> QED BY <1>2, <1>9, <3>1
  <2>2. Bit(up, l, i) <=> s.on
    BY <1>5 DEF Bit
  <2> QED BY <1>2, <2>1, <2>2 DEF Right
<1>11. RightBut(d, up, l + 1, w)
  <2>1. ASSUME NEW k \in 0 .. RootLevel, NEW b \in 0 .. (Count(k) - 1), k # l + 1 \/ b # w
        PROVE  Right(d, up, k, b)
    <3>1. CASE k = l /\ b = i
      BY <1>10, <3>1
    <3>2. CASE k # l \/ b # i
      <4>1. Right(d, in, k, b)
        BY <1>2, <3>2
      <4> QED BY <1>8, <1>9, <2>1, <3>2, <4>1 DEF Right
    <3> QED BY <3>1, <3>2
  <2> QED BY <1>5, <1>7, <2>1 DEF RightBut
<1>12. /\ s.offset \in Nat /\ s.cap \in Nat /\ s.cap \div LeafBit \in Nat
  <2>1. Offset[l] \in Nat /\ LevelCap[l] \in Nat
    <3>1. l \in 0 .. (RootLevel + 1)
      BY <1>1
    <3> QED BY <1>1, <3>1
  <2>2. \A x \in Nat : x \div LeafBit \in Nat
    BY BitPlaces
  <2>3. LevelCap[l] \div LeafBit \in Nat
    BY <2>1, <2>2
  <2> QED BY <1>2, <2>1, <2>2, <2>3
<1>13. r \in Coming
  <2> HIDE DEF w, p
  <2> QED BY <1>3, <1>5, <1>6, <1>12 DEF Coming
<1>14. ASSUME l + 1 <= RootLevel
       PROVE  /\ r.offset = Offset[l + 1] /\ r.cap = LevelCap[l + 1] \div LeafBit
              /\ r.index \in 0 .. (Count(l + 1) - 1)
              /\ r.on = (Below(d, r.inner, l + 1, r.index) # {})
  <2>1. l + 1 \in 1 .. RootLevel /\ (l + 1) - 1 = l /\ l + 1 \in 0 .. RootLevel /\ l + 1 # 0
    BY <1>1, <1>14
  <2>2. LevelCap[l] \div LeafBit = LevelCap[l + 1] /\ Offset[l + 1] = Offset[l] + Count(l + 1)
        /\ Count(l + 1) = LevelCap[l + 1]
    BY <1>1, <2>1
  <2>3. r.offset = Offset[l + 1] /\ r.cap = LevelCap[l + 1] \div LeafBit
    BY <1>2, <1>6, <2>2
  <2>4. r.inner = up /\ r.index = w /\ r.on = (up[p] # {})
    BY <1>6
  <2>5. Below(d, up, l + 1, w) = up[p]
    BY <2>1 DEF Below
  <2> QED BY <1>3, <2>3, <2>4, <2>5
<1>15. r.inner = up /\ r.index = w
  BY <1>6
<1>16. AtLevel(d, l + 1, r)
  BY <1>11, <1>14, <1>15 DEF AtLevel
<1> QED BY <1>13, <1>16 DEF r

\* updateInner puts right what a changed word left wrong.
LEMMA UpdateInnerIs ==
  ASSUME NEW d, NEW in, NEW i \in 0 .. (Count(0) - 1), NEW on \in BOOLEAN,
         RightBut(d, in, 0, i), on <=> d[i] # {}
  PROVE  LET out == UpdateInner(in, i, on)
         IN  /\ out \in Inners /\ out[RootIndex] \subseteq 0 .. (Count(RootLevel) - 1)
             /\ \A l \in 0 .. RootLevel : \A b \in 0 .. (Count(l) - 1) : Right(d, out, l, b)
<1> DEFINE N     == RootLevel + 1
           first == [inner |-> in, offset |-> 0, index |-> i, cap |-> Size \div LeafBit, on |-> on]
           G     == [l \in 0 .. N |-> {s \in Coming : AtLevel(d, l, s)}]
           step  == [l \in 1 .. N |-> [s \in Coming |-> LevelUpdated(s)]]
<1>1. /\ RootLevel \in Nat /\ N \in Nat /\ 0 \in 0 .. N /\ 0 \in 0 .. RootLevel
      /\ \A k \in 0 .. (RootLevel + 1) : Count(k) \in Nat \ {0}
      /\ Count(0) = Size /\ LevelCap[0] = Size /\ Offset[0] = 0
  BY LevelsAre
<1>2. first \in Coming /\ AtLevel(d, 0, first)
  <2>1. Size \div LeafBit \in Nat
    <3>1. Size \in Nat
      BY <1>1
    <3> QED BY <3>1, BitPlaces
  <2>2. i \in Nat
    BY <1>1
  <2>3. first \in Coming
    BY <2>1, <2>2 DEF Coming, RightBut
  <2>4. Below(d, in, 0, i) = d[i]
    BY DEF Below
  <2>5. /\ first.inner = in /\ first.index = i /\ first.offset = 0 /\ first.cap = Size \div LeafBit
        /\ first.on = on
    OBVIOUS
  <2> HIDE DEF first
  <2>6. first.on = (Below(d, first.inner, 0, first.index) # {})
    BY <2>4, <2>5
  <2> QED BY <1>1, <2>3, <2>5, <2>6 DEF AtLevel
<1>3. ASSUME NEW l \in 1 .. N, NEW s \in Coming, AtLevel(d, l - 1, s)
      PROVE  LevelUpdated(s) \in Coming /\ AtLevel(d, l, LevelUpdated(s))
  <2>1. l - 1 \in 0 .. RootLevel /\ (l - 1) + 1 = l
    BY <1>1
  <2>2. LevelUpdated(s) \in Coming /\ AtLevel(d, (l - 1) + 1, LevelUpdated(s))
    BY ONLY <2>1, <1>3, s \in Coming, UpStep
  <2> QED BY <2>1, <2>2
<1> HIDE DEF first
<1>4. Stays(N, Coming, G, first, step)
  <2>1. ASSUME NEW l \in 1 .. N, NEW s \in G[l - 1] PROVE step[l][s] \in G[l]
    <3>1. l \in 0 .. N /\ l - 1 \in 0 .. N
      BY <1>1
    <3>2. s \in Coming /\ AtLevel(d, l - 1, s)
      BY <3>1
    <3>3. step[l][s] = LevelUpdated(s)
      BY <3>2
    <3> QED BY <1>3, <3>1, <3>2, <3>3
  <2>2. first \in G[0] /\ \A l \in 0 .. N : G[l] \subseteq Coming
    BY <1>1, <1>2
  <2> HIDE DEF G, step, N
  <2> QED BY <1>1, <2>1, <2>2 DEF Stays
<1>5. PICK f \in [0 .. N -> Coming] :
        \A l \in 0 .. N : f[l] = (IF l = 0 THEN first ELSE step[l][f[l - 1]]) /\ f[l] \in G[l]
  <2> HIDE DEF G, step, N
  <2> QED BY ONLY <1>4, Stages
<1> DEFINE up[l \in 0 .. (RootLevel + 1)] ==
             IF l = 0 THEN [inner |-> in, offset |-> 0, index |-> i, cap |-> Size \div LeafBit, on |-> on]
             ELSE LevelUpdated(up[l - 1])
<1>6. up = [l \in 0 .. N |-> IF l = 0 THEN first ELSE LevelUpdated(up[l - 1])]
  <2>1. f = [l \in 0 .. N |-> IF l = 0 THEN first ELSE LevelUpdated(f[l - 1])]
    <3>1. ASSUME NEW l \in 0 .. N, l # 0 PROVE step[l][f[l - 1]] = LevelUpdated(f[l - 1])
      <4>1. l \in 1 .. N /\ l - 1 \in 0 .. N
        BY <1>1, <3>1
      <4> QED BY <4>1
    <3> HIDE DEF step
    <3> QED BY <3>1, <1>5
  <2> QED BY <2>1 DEF first
<1>7. UpdateInner(in, i, on) = up[RootLevel + 1].inner
  BY DEF UpdateInner
<1> HIDE DEF up
<1> DEFINE T == {l \in 0 .. N : up[l] \in Coming /\ AtLevel(d, l, up[l])}
<1>8. \A l \in 0 .. N : l \in T
  <2>1. 0 \in T
    BY <1>1, <1>2, <1>6
  <2>2. ASSUME NEW l \in 1 .. N, l - 1 \in T PROVE l \in T
    <3>1. l \in 0 .. N /\ l # 0
      BY <1>1
    <3>2. up[l] = LevelUpdated(up[l - 1])
      BY <3>1, <1>6
    <3> QED BY <1>3, <2>2, <3>1, <3>2
  <2> HIDE DEF T, N
  <2> QED BY ONLY <1>1, <2>1, <2>2, Throughout
<1>9. up[N] \in Coming /\ AtLevel(d, N, up[N])
  BY <1>1, <1>8
<1>10. RightBut(d, up[N].inner, N, up[N].index)
  BY <1>9 DEF AtLevel
<1>11. \A l \in 0 .. RootLevel : l # N
  BY <1>1
<1> QED BY <1>7, <1>10, <1>11 DEF RightBut

\* init makes every level say what the one below has.
LEMMA FilledIs ==
  ASSUME NEW d \in Leaves
  PROVE  LET out == FilledInner(d)
         IN  /\ out \in Inners /\ out[RootIndex] \subseteq 0 .. (Count(RootLevel) - 1)
             /\ \A l \in 0 .. RootLevel : \A b \in 0 .. (Count(l) - 1) : Right(d, out, l, b)
<1> DEFINE next(in, l) ==
             [k \in 0 .. RootIndex |->
               IF l = 0 THEN Summary(d, 0, Size, k)
               ELSE IF k < Offset[l] THEN in[k]
               ELSE Summary(in, Offset[l - 1], LevelCap[l], k - Offset[l])]
           P(l, in) ==
             /\ \A k \in 0 .. l : \A b \in 0 .. (Count(k) - 1) : Right(d, in, k, b)
             /\ l = RootLevel => in[RootIndex] \subseteq 0 .. (Count(RootLevel) - 1)
           first == next(0, 0)
           G     == [l \in 0 .. RootLevel |-> {s \in Inners : P(l, s)}]
           step  == [l \in 1 .. RootLevel |-> [s \in Inners |-> next(s, l)]]
<1>1. /\ RootLevel \in Nat /\ 0 \in 0 .. RootLevel
      /\ \A k \in 0 .. (RootLevel + 1) : Count(k) \in Nat \ {0}
      /\ Count(0) = Size /\ LevelCap[0] = Size /\ Offset[0] = 0 /\ RootIndex = Offset[RootLevel]
      /\ \A k \in 0 .. RootLevel : Offset[k] \in Nat /\ Count(k) = LevelCap[k]
      /\ \A k \in 1 .. RootLevel : Offset[k] = Offset[k - 1] + Count(k)
  BY LevelsAre
<1>2. /\ LeafBit \in Nat /\ LeafBit >= 2
      /\ \A x \in Nat : /\ x \div LeafBit \in Nat /\ x % LeafBit \in Digit
                        /\ (x \div LeafBit) * LeafBit + (x % LeafBit) = x
  BY BitPlaces
<1>3. \A lower, start, count, i : Summary(lower, start, count, i) \in SUBSET Digit
  BY DEF Summary, Digit
\* A level k whose words are summaries of lower.
<1>4. ASSUME NEW in, NEW lower, NEW start \in Nat, NEW k \in 0 .. RootLevel,
             \A w \in 0 .. (Count(k + 1) - 1) : in[Offset[k] + w] = Summary(lower, start, Count(k), w),
             \A b \in 0 .. (Count(k) - 1) : Below(d, in, k, b) = lower[start + b]
      PROVE  /\ \A b \in 0 .. (Count(k) - 1) : Right(d, in, k, b)
             /\ k = RootLevel => in[RootIndex] \subseteq 0 .. (Count(RootLevel) - 1)
  <2>1. ASSUME NEW b \in 0 .. (Count(k) - 1) PROVE Right(d, in, k, b)
    <3> DEFINE w == b \div LeafBit
               j == b % LeafBit
    <3>1. b \in Nat /\ w \in 0 .. (Count(k + 1) - 1) /\ j \in Digit
      BY BitsOfLevels
    <3>2. w * LeafBit + j = b
      BY <1>2, <3>1
    <3>3. in[Offset[k] + w] = Summary(lower, start, Count(k), w)
      BY <1>4, <3>1
    <3>4. Bit(in, k, b) <=> j \in in[Offset[k] + w]
      BY DEF Bit
    <3> HIDE DEF w, j
    <3>5. (start + w * LeafBit) + j = start + b /\ w * LeafBit + j < Count(k)
      <4>1. w \in Nat /\ w * LeafBit \in Nat /\ j \in Nat
        BY <1>2, <3>1 DEF Digit
      <4>2. b < Count(k)
        <5>1. k \in 0 .. (RootLevel + 1)
          BY <1>1
        <5> QED BY <1>1, <5>1
      <4> QED BY <3>2, <4>1, <4>2
    <3>6. j \in Summary(lower, start, Count(k), w) <=> lower[start + b] # {}
      BY <3>1, <3>5 DEF Summary, Digit
    <3> QED BY <1>4, <3>3, <3>4, <3>6 DEF Right
  <2>2. ASSUME k = RootLevel PROVE in[RootIndex] \subseteq 0 .. (Count(RootLevel) - 1)
    <3>1. Count(k + 1) = 1
      BY <2>2 DEF Count
    <3>2. in[Offset[k] + 0] = Summary(lower, start, Count(k), 0)
      BY <1>4, <3>1
    <3>3. in[RootIndex] = Summary(lower, start, Count(RootLevel), 0)
      BY <1>1, <2>2, <3>2
    <3>4. 0 * LeafBit = 0 /\ \A j \in Digit : j \in Nat /\ 0 + j = j
      BY <1>2 DEF Digit
    <3>5. Count(RootLevel) \in Nat
      BY <1>1
    <3> QED BY <3>3, <3>4, <3>5 DEF Summary, Digit
  <2> QED BY <2>1, <2>2
<1>5. first \in Inners /\ P(0, first)
  <2>1. first \in Inners
    BY <1>3 DEF Inners
  <2>2. \A w \in 0 .. (Count(0 + 1) - 1) : first[Offset[0] + w] = Summary(d, 0, Count(0), w)
    <3> TAKE w \in 0 .. (Count(0 + 1) - 1)
    <3>1. Offset[0] + w \in 0 .. RootIndex
      BY <1>1, PlacesApart
    <3>2. w \in Nat
      BY <1>1
    <3>3. Offset[0] + w = w
      BY <1>1, <3>2
    <3> QED BY <1>1, <3>1, <3>3
  <2> HIDE DEF first
  <2>3. \A b \in 0 .. (Count(0) - 1) : Below(d, first, 0, b) = d[0 + b]
    <3>1. \A b \in 0 .. (Count(0) - 1) : 0 + b = b
      BY <1>1
    <3> QED BY <3>1 DEF Below
  <2>4. /\ \A b \in 0 .. (Count(0) - 1) : Right(d, first, 0, b)
        /\ 0 = RootLevel => first[RootIndex] \subseteq 0 .. (Count(RootLevel) - 1)
    <3> DEFINE z == 0
    <3>1. /\ z \in Nat /\ z \in 0 .. RootLevel
          /\ \A w \in 0 .. (Count(z + 1) - 1) : first[Offset[z] + w] = Summary(d, z, Count(z), w)
          /\ \A b \in 0 .. (Count(z) - 1) : Below(d, first, z, b) = d[z + b]
      BY <1>1, <2>2, <2>3
    <3> HIDE DEF z
    <3>2. /\ \A b \in 0 .. (Count(z) - 1) : Right(d, first, z, b)
          /\ z = RootLevel => first[RootIndex] \subseteq 0 .. (Count(RootLevel) - 1)
      BY ONLY <1>4, <3>1, Zenon
    <3> QED BY <3>2 DEF z
  <2>5. 0 .. 0 = {0}
    OBVIOUS
  <2> QED BY <2>1, <2>4, <2>5
<1>6. ASSUME NEW l \in 1 .. RootLevel, NEW s \in Inners, P(l - 1, s) PROVE next(s, l) \in Inners /\ P(l, next(s, l))
  <2> DEFINE in == next(s, l)
  <2>1. /\ l \in 0 .. RootLevel /\ l - 1 \in 0 .. RootLevel /\ l # 0 /\ (l - 1) + 1 = l /\ l - 1 < l
        /\ l - 1 \in Nat
    BY <1>1
  <2>2. in \in Inners
    BY <1>3, <2>1 DEF Inners
  <2>3. /\ \A k \in 0 .. RootIndex : k < Offset[l] => in[k] = s[k]
        /\ \A k \in 0 .. RootIndex : ~ (k < Offset[l]) =>
              in[k] = Summary(s, Offset[l - 1], LevelCap[l], k - Offset[l])
    BY <2>1
  <2> HIDE DEF in
  <2>4. ASSUME NEW w \in 0 .. (Count(l + 1) - 1)
        PROVE  in[Offset[l] + w] = Summary(s, Offset[l - 1], Count(l), w)
    <3>1. Offset[l] + w \in 0 .. RootIndex
      BY <2>1, PlacesApart
    <3>2. w \in Nat
      <4>1. l + 1 \in 0 .. (RootLevel + 1)
        BY <1>1
      <4> QED BY <1>1, <4>1
    <3>3. ~ (Offset[l] + w < Offset[l]) /\ (Offset[l] + w) - Offset[l] = w /\ LevelCap[l] = Count(l)
      BY <1>1, <2>1, <3>2
    <3>4. in[Offset[l] + w] = Summary(s, Offset[l - 1], LevelCap[l], (Offset[l] + w) - Offset[l])
      BY ONLY <2>3, <3>1, <3>3
    <3> QED BY <3>3, <3>4
  <2>5. ASSUME NEW k \in 0 .. l, NEW b \in 0 .. (Count(k) - 1)
        PROVE  Below(d, in, k, b) = Below(d, s, k, b)
    <3>1. CASE k = 0
      BY <3>1 DEF Below
    <3>2. CASE k # 0
      <4>1. k - 1 \in 0 .. RootLevel /\ (k - 1) + 1 = k /\ k - 1 < l
        BY <1>1, <3>2
      <4>2. b \in 0 .. (Count((k - 1) + 1) - 1)
        BY <4>1
      <4>3. Offset[k - 1] + b \in 0 .. RootIndex /\ Offset[k - 1] + b < Offset[l]
        BY ONLY <2>1, <4>1, <4>2, PlacesApart
      <4> QED BY <2>3, <3>2, <4>3 DEF Below
    <3> QED BY <3>1, <3>2
  <2>6. \A b \in 0 .. (Count(l) - 1) : Below(d, in, l, b) = s[Offset[l - 1] + b]
    <3>1. l \in 0 .. l
      BY <2>1
    <3> QED BY <2>1, <2>5, <3>1 DEF Below
  <2>7. /\ \A b \in 0 .. (Count(l) - 1) : Right(d, in, l, b)
        /\ l = RootLevel => in[RootIndex] \subseteq 0 .. (Count(RootLevel) - 1)
    <3>1. Offset[l - 1] \in Nat
      BY <1>1, <2>1
    <3> QED BY ONLY <1>4, l \in 0 .. RootLevel, <2>4, <2>6, <3>1, Zenon
  <2>8. ASSUME NEW k \in 0 .. l, k # l, NEW b \in 0 .. (Count(k) - 1) PROVE Right(d, in, k, b)
    <3>1. k \in 0 .. (l - 1) /\ k \in 0 .. RootLevel /\ k < l
      BY <1>1, <2>1, <2>8
    <3>2. Right(d, s, k, b)
      BY <1>6, <3>1
    <3>3. Offset[k] + b \div LeafBit \in 0 .. RootIndex /\ Offset[k] + b \div LeafBit < Offset[l]
      <4>1. b \div LeafBit \in 0 .. (Count(k + 1) - 1)
        BY <3>1, BitsOfLevels
      <4> QED BY ONLY <2>1, <3>1, <4>1, PlacesApart
    <3>4. Bit(in, k, b) <=> Bit(s, k, b)
      BY <2>3, <3>3 DEF Bit
    <3> QED BY <2>5, <3>2, <3>4 DEF Right
  <2>9. \A k \in 0 .. l : \A b \in 0 .. (Count(k) - 1) : Right(d, in, k, b)
    BY <2>7, <2>8
  <2>10. in \in Inners /\ P(l, in)
    BY <2>2, <2>7, <2>9
  <2> QED BY <2>10 DEF in
<1> HIDE DEF P, next, first
<1>7. Stays(RootLevel, Inners, G, first, step)
  <2>1. ASSUME NEW l \in 1 .. RootLevel, NEW s \in G[l - 1] PROVE step[l][s] \in G[l]
    <3>1. l \in 0 .. RootLevel /\ l - 1 \in 0 .. RootLevel
      BY <1>1
    <3>2. s \in Inners /\ P(l - 1, s)
      BY <3>1
    <3>3. step[l][s] = next(s, l)
      BY <3>2
    <3> QED BY <1>6, <3>1, <3>2, <3>3
  <2>2. first \in G[0] /\ \A l \in 0 .. RootLevel : G[l] \subseteq Inners
    BY <1>1, <1>5
  <2> HIDE DEF G, step
  <2> QED BY <1>1, <2>1, <2>2 DEF Stays
<1>8. PICK f \in [0 .. RootLevel -> Inners] :
        \A l \in 0 .. RootLevel : f[l] = (IF l = 0 THEN first ELSE step[l][f[l - 1]]) /\ f[l] \in G[l]
  <2> HIDE DEF G, step
  <2> QED BY ONLY <1>7, Stages
<1> DEFINE filled[l \in 0 .. RootLevel] ==
             [k \in 0 .. RootIndex |->
               IF l = 0 THEN Summary(d, 0, Size, k)
               ELSE IF k < Offset[l] THEN filled[l - 1][k]
               ELSE Summary(filled[l - 1], Offset[l - 1], LevelCap[l], k - Offset[l])]
<1>9. filled = [l \in 0 .. RootLevel |->
             [k \in 0 .. RootIndex |->
               IF l = 0 THEN Summary(d, 0, Size, k)
               ELSE IF k < Offset[l] THEN filled[l - 1][k]
               ELSE Summary(filled[l - 1], Offset[l - 1], LevelCap[l], k - Offset[l])]]
  <2>1. f = [l \in 0 .. RootLevel |->
             [k \in 0 .. RootIndex |->
               IF l = 0 THEN Summary(d, 0, Size, k)
               ELSE IF k < Offset[l] THEN f[l - 1][k]
               ELSE Summary(f[l - 1], Offset[l - 1], LevelCap[l], k - Offset[l])]]
    <3>1. ASSUME NEW l \in 0 .. RootLevel PROVE f[l] = next(f[l - 1], l)
      <4>1. CASE l = 0
        BY <4>1, <1>8 DEF next, first
      <4>2. CASE l # 0
        <5>1. l \in 1 .. RootLevel /\ l - 1 \in 0 .. RootLevel
          BY <1>1, <4>2
        <5>2. step[l][f[l - 1]] = next(f[l - 1], l)
          BY <5>1
        <5> HIDE DEF step
        <5> QED BY <1>8, <4>2, <5>2
      <4> QED BY <4>1, <4>2
    <3>2. f = [l \in 0 .. RootLevel |-> next(f[l - 1], l)]
      BY <1>8, <3>1
    <3> QED BY <3>2 DEF next
  <2> QED BY <2>1
<1>10. FilledInner(d) = filled[RootLevel]
  BY DEF FilledInner
<1> HIDE DEF filled
<1>11. ASSUME NEW l \in 0 .. RootLevel PROVE filled[l] = IF l = 0 THEN first ELSE next(filled[l - 1], l)
  <2>1. filled[l] = next(filled[l - 1], l)
    BY <1>9 DEF next
  <2>2. CASE l = 0
    BY <2>1, <2>2 DEF next, first
  <2> QED BY <2>1, <2>2
<1> DEFINE T == {l \in 0 .. RootLevel : filled[l] \in Inners /\ P(l, filled[l])}
<1>12. \A l \in 0 .. RootLevel : l \in T
  <2>1. 0 \in T
    BY <1>1, <1>5, <1>11
  <2>2. ASSUME NEW l \in 1 .. RootLevel, l - 1 \in T PROVE l \in T
    <3>1. l \in 0 .. RootLevel /\ l # 0
      BY <1>1
    <3>2. filled[l] = next(filled[l - 1], l)
      BY <3>1, <1>11
    <3> QED BY <1>6, <2>2, <3>1, <3>2
  <2> HIDE DEF T
  <2> QED BY ONLY <1>1, <2>1, <2>2, Throughout
<1>13. filled[RootLevel] \in Inners /\ P(RootLevel, filled[RootLevel])
  BY <1>1, <1>12
<1> QED BY <1>10, <1>13 DEF P

-----------------------------------------------------------------------------
(* The inductive invariant.                                                 *)

\* The table of initConst, or the zeros it begins with.
TableRight(t) ==
  /\ t \in [0 .. (HashMod - 1) -> Nat] /\ t[0] = 0
  /\ t = [x \in 0 .. (HashMod - 1) |-> 0] \/ \A i \in Digit : t[HashOf[i]] = i

MapInv ==
  /\ data \in Leaves
  /\ inner \in Inners /\ inner[RootIndex] \subseteq 0 .. (Count(RootLevel) - 1)
  /\ \A l \in 0 .. RootLevel : \A b \in 0 .. (Count(l) - 1) : Right(data, inner, l, b)
  /\ bits \subseteq Position
  /\ \A i \in Position : i \in bits <=> i % LeafBit \in data[i \div LeafBit]
  /\ TableRight(h)

LEMMA HashesAre ==
  /\ HashMod \in Nat \ {0} /\ 0 \in 0 .. (HashMod - 1)
  /\ \A i \in Digit : HashOf[i] \in 0 .. (HashMod - 1) /\ HashOf[i] # 0
  /\ \A i, j \in Digit : HashOf[i] = HashOf[j] => i = j
<1> DEFINE N    == LeafBit - 1
           S    == 0 .. (HashMod - 1)
           G    == [l \in 0 .. N |-> S]
           step == [l \in 1 .. N |-> [s \in S |-> (2 * s) % HashMod]]
<1>1. LeafBit \in Nat /\ LeafBit >= 2 /\ N \in Nat /\ HashMod \in Nat \ {0} /\ 0 \in 0 .. N /\ 0 \in S
  BY BitMapAssumption
<1>2. \A x \in Nat : x % HashMod \in S
  BY <1>1
<1>3. 1 % HashMod \in S /\ \A s \in S : (2 * s) % HashMod \in S
  <2>1. 1 \in Nat /\ \A s \in S : 2 * s \in Nat
    BY <1>1
  <2> HIDE DEF S
  <2> QED BY <1>2, <2>1
<1> HIDE DEF S
<1>4. Stays(N, S, G, 1 % HashMod, step)
  <2>1. ASSUME NEW l \in 1 .. N, NEW s \in G[l - 1] PROVE step[l][s] \in G[l]
    <3>1. l \in 0 .. N /\ l - 1 \in 0 .. N
      BY <1>1
    <3> QED BY <1>3, <3>1
  <2>2. 1 % HashMod \in G[0] /\ \A l \in 0 .. N : G[l] \subseteq S
    BY <1>1, <1>3
  <2> HIDE DEF G, step, N
  <2> QED BY <1>1, <2>1, <2>2 DEF Stays
<1>5. PICK f \in [0 .. N -> S] :
        \A l \in 0 .. N : f[l] = (IF l = 0 THEN 1 % HashMod ELSE step[l][f[l - 1]]) /\ f[l] \in G[l]
  <2> HIDE DEF G, step, N
  <2> QED BY ONLY <1>4, Stages
<1>6. HashOf = [i \in 0 .. N |-> IF i = 0 THEN 1 % HashMod ELSE (2 * HashOf[i - 1]) % HashMod]
  <2>1. f = [i \in 0 .. N |-> IF i = 0 THEN 1 % HashMod ELSE (2 * f[i - 1]) % HashMod]
    <3>1. ASSUME NEW l \in 0 .. N, l # 0 PROVE step[l][f[l - 1]] = (2 * f[l - 1]) % HashMod
      <4>1. l \in 1 .. N /\ l - 1 \in 0 .. N
        BY <1>1, <3>1
      <4> QED BY <4>1
    <3> HIDE DEF step, N
    <3> QED BY <3>1, <1>5
  <2> QED BY <2>1 DEF HashOf
<1> DEFINE T == {i \in 0 .. N : HashOf[i] \in S}
<1>7. \A i \in 0 .. N : i \in T
  <2>1. 0 \in T
    <3> HIDE DEF N
    <3> QED BY <1>1, <1>3, <1>6
  <2>2. ASSUME NEW i \in 1 .. N, i - 1 \in T PROVE i \in T
    <3>1. i \in 0 .. N /\ i # 0
      BY <1>1
    <3> HIDE DEF N
    <3>2. HashOf[i] = (2 * HashOf[i - 1]) % HashMod
      BY <3>1, <1>6
    <3> QED BY <1>3, <2>2, <3>1, <3>2
  <2> HIDE DEF T, N
  <2> QED BY ONLY <1>1, <2>1, <2>2, Throughout
<1>8. \A i \in Digit : HashOf[i] \in S
  BY <1>7 DEF Digit
<1>9. \A i, j \in Digit : HashOf[i] # 0 /\ (HashOf[i] = HashOf[j] => i = j)
  BY BitMapAssumption DEF Digit
<1>10. 0 \in Digit
  BY <1>1 DEF Digit
<1> QED BY <1>1, <1>8, <1>9, <1>10 DEF S

LEMMA InitConstIs ==
  ASSUME TableRight(h), InitConst PROVE TableRight(h')
<1> DEFINE Tables == [0 .. (HashMod - 1) -> Nat]
           next(t, i) == [t EXCEPT ![HashOf[i - 1]] = i - 1]
           P(l, t) == t[0] = 0 /\ \A i \in 0 .. (l - 1) : t[HashOf[i]] = i
           G    == [l \in 0 .. LeafBit |-> {t \in Tables : P(l, t)}]
           step == [l \in 1 .. LeafBit |-> [t \in Tables |-> next(t, l)]]
<1>1. LeafBit \in Nat /\ 0 \in 0 .. LeafBit
  BY BitPlaces
<1>2. h \in Tables /\ P(0, h)
  BY DEF TableRight
<1>3. ASSUME NEW l \in 1 .. LeafBit, NEW t \in Tables, P(l - 1, t) PROVE next(t, l) \in Tables /\ P(l, next(t, l))
  <2>1. l - 1 \in Digit /\ l - 1 \in Nat
    BY <1>1 DEF Digit
  <2>2. HashOf[l - 1] \in 0 .. (HashMod - 1) /\ HashOf[l - 1] # 0 /\ 0 \in 0 .. (HashMod - 1)
    BY <2>1, HashesAre
  <2>3. next(t, l) \in Tables
    BY <2>1, <2>2
  <2>4. next(t, l)[0] = 0
    BY <1>3, <2>2
  <2>5. ASSUME NEW i \in 0 .. (l - 1) PROVE next(t, l)[HashOf[i]] = i
    <3>1. i \in Digit
      BY <1>1 DEF Digit
    <3>2. CASE i = l - 1
      BY <2>2, <3>2
    <3>3. CASE i # l - 1
      <4>1. HashOf[i] # HashOf[l - 1] /\ HashOf[i] \in 0 .. (HashMod - 1)
        BY <2>1, <3>1, <3>3, HashesAre
      <4>2. i \in 0 .. ((l - 1) - 1)
        BY <2>1, <3>3
      <4> QED BY <1>3, <4>1, <4>2
    <3> QED BY <3>2, <3>3
  <2> QED BY <2>3, <2>4, <2>5
<1> HIDE DEF P, next, Tables
<1>4. Stays(LeafBit, Tables, G, h, step)
  <2>1. ASSUME NEW l \in 1 .. LeafBit, NEW s \in G[l - 1] PROVE step[l][s] \in G[l]
    <3>1. l \in 0 .. LeafBit /\ l - 1 \in 0 .. LeafBit
      BY <1>1
    <3>2. s \in Tables /\ P(l - 1, s)
      BY <3>1
    <3>3. step[l][s] = next(s, l)
      BY <3>2
    <3> QED BY <1>3, <3>1, <3>2, <3>3
  <2>2. h \in G[0] /\ \A l \in 0 .. LeafBit : G[l] \subseteq Tables
    BY <1>1, <1>2
  <2> HIDE DEF G, step
  <2> QED BY <1>1, <2>1, <2>2 DEF Stays
<1>5. PICK f \in [0 .. LeafBit -> Tables] :
        \A l \in 0 .. LeafBit : f[l] = (IF l = 0 THEN h ELSE step[l][f[l - 1]]) /\ f[l] \in G[l]
  <2> HIDE DEF G, step
  <2> QED BY ONLY <1>4, Stages
<1> DEFINE table[i \in 0 .. LeafBit] == IF i = 0 THEN h ELSE [table[i - 1] EXCEPT ![HashOf[i - 1]] = i - 1]
<1>6. table = [i \in 0 .. LeafBit |-> IF i = 0 THEN h ELSE [table[i - 1] EXCEPT ![HashOf[i - 1]] = i - 1]]
  <2>1. f = [i \in 0 .. LeafBit |-> IF i = 0 THEN h ELSE [f[i - 1] EXCEPT ![HashOf[i - 1]] = i - 1]]
    <3>1. ASSUME NEW l \in 0 .. LeafBit, l # 0
          PROVE  step[l][f[l - 1]] = [f[l - 1] EXCEPT ![HashOf[l - 1]] = l - 1]
      <4>1. l \in 1 .. LeafBit /\ l - 1 \in 0 .. LeafBit
        BY <1>1, <3>1
      <4> QED BY <4>1 DEF next
    <3> HIDE DEF step
    <3> QED BY <3>1, <1>5
  <2> QED BY <2>1
<1>7. h' = table[LeafBit]
  BY DEF InitConst
<1> HIDE DEF table
<1> DEFINE T == {l \in 0 .. LeafBit : table[l] \in Tables /\ P(l, table[l])}
<1>8. \A l \in 0 .. LeafBit : l \in T
  <2>1. 0 \in T
    BY <1>1, <1>2, <1>6
  <2>2. ASSUME NEW l \in 1 .. LeafBit, l - 1 \in T PROVE l \in T
    <3>1. l \in 0 .. LeafBit /\ l # 0
      BY <1>1
    <3>2. table[l] = next(table[l - 1], l)
      BY <3>1, <1>6 DEF next
    <3> QED BY <1>3, <2>2, <3>1, <3>2
  <2> HIDE DEF T
  <2> QED BY ONLY <1>1, <2>1, <2>2, Throughout
<1>9. h' \in Tables /\ P(LeafBit, h')
  BY <1>1, <1>7, <1>8
<1> QED BY <1>9 DEF P, Tables, TableRight, Digit

\* A position is a word and a place in it.
LEMMA Positions ==
  /\ \A i \in Position : i \in Nat /\ i \div LeafBit \in 0 .. (Size - 1) /\ i % LeafBit \in Digit
  /\ \A w \in 0 .. (Size - 1) : \A j \in Digit : w * LeafBit + j \in Position
<1>1. Size \in Nat /\ Bits = Size * LeafBit /\ Bits \in Nat
  BY CapsAre
<1>2. /\ \A x \in Nat : /\ x \div LeafBit \in Nat /\ x % LeafBit \in Digit
                        /\ (x \div LeafBit) * LeafBit + (x % LeafBit) = x
      /\ \A w \in Nat : \A j \in Digit : w * LeafBit + j \in Nat
      /\ \A w \in Nat : \A n \in Nat : \A j \in Digit : w * LeafBit + j < n * LeafBit <=> w < n
  BY BitPlaces
<1>3. ASSUME NEW i \in Position PROVE i \in Nat /\ i \div LeafBit \in 0 .. (Size - 1) /\ i % LeafBit \in Digit
  <2> DEFINE w == i \div LeafBit
             j == i % LeafBit
  <2>1. i \in Nat /\ i < Size * LeafBit
    BY <1>1 DEF Position
  <2>2. w \in Nat /\ j \in Digit /\ w * LeafBit + j = i
    BY ONLY <1>2, <2>1
  <2> HIDE DEF w, j
  <2>3. w < Size
    <3>1. w * LeafBit + j < Size * LeafBit
      BY <2>1, <2>2
    <3> QED BY ONLY <1>1, <1>2, <2>2, <3>1
  <2> QED BY <1>1, <2>1, <2>2, <2>3 DEF w, j
<1>4. ASSUME NEW w \in 0 .. (Size - 1), NEW j \in Digit PROVE w * LeafBit + j \in Position
  <2>1. w \in Nat /\ w < Size
    BY <1>1
  <2>2. w * LeafBit + j \in Nat /\ w * LeafBit + j < Size * LeafBit
    BY ONLY <1>1, <1>2, <2>1, j \in Digit
  <2> QED BY <1>1, <2>2 DEF Position
<1> QED BY <1>3, <1>4

LEMMA MapInitial == MapInit => MapInv
<1> SUFFICES ASSUME MapInit PROVE MapInv
  OBVIOUS
<1>1. PICK S \in {{}, Position} :
        bits = S /\ data = [w \in 0 .. (Size - 1) |-> IF S = {} THEN {} ELSE 0 .. (LeafBit - 1)]
  BY DEF MapInit
<1>2. data \in Leaves
  BY <1>1 DEF Leaves, Digit
<1>3. /\ inner \in Inners /\ inner[RootIndex] \subseteq 0 .. (Count(RootLevel) - 1)
      /\ \A l \in 0 .. RootLevel : \A b \in 0 .. (Count(l) - 1) : Right(data, inner, l, b)
  <2>1. inner = FilledInner(data)
    BY DEF MapInit
  <2> QED BY <1>2, <2>1, FilledIs
<1>4. Bits \in Nat \ {0} /\ 0 \in Position
  <2>1. Bits \in Nat \ {0}
    BY BitMapAssumption
  <2> QED BY <2>1 DEF Position
<1>5. bits \subseteq Position /\ \A i \in Position : i \in bits <=> i % LeafBit \in data[i \div LeafBit]
  <2>1. ASSUME NEW i \in Position PROVE i \div LeafBit \in 0 .. (Size - 1) /\ i % LeafBit \in Digit
    BY Positions
  <2>2. CASE S = {}
    BY <1>1, <2>1, <2>2
  <2>3. CASE S # {}
    <3>1. S = Position
      BY <2>3
    <3> QED BY <1>1, <2>1, <2>3, <3>1 DEF Digit
  <2> QED BY <2>2, <2>3
<1>6. TableRight(h)
  <2>1. HashMod \in Nat \ {0} /\ h = [x \in 0 .. (HashMod - 1) |-> 0]
    BY HashesAre DEF MapInit
  <2> QED BY <2>1 DEF TableRight
<1> QED BY <1>2, <1>3, <1>5, <1>6 DEF MapInv

LEMMA SetBitKeeps ==
  ASSUME MapInv, NEW i \in Position, NEW on \in BOOLEAN, SetBit(i, on) PROVE MapInv'
<1> DEFINE w == i \div LeafBit
           j == i % LeafBit
<1>1. /\ data \in Leaves
      /\ inner \in Inners /\ inner[RootIndex] \subseteq 0 .. (Count(RootLevel) - 1)
      /\ \A l \in 0 .. RootLevel : \A b \in 0 .. (Count(l) - 1) : Right(data, inner, l, b)
      /\ bits \subseteq Position
      /\ \A k \in Position : k \in bits <=> k % LeafBit \in data[k \div LeafBit]
      /\ TableRight(h)
  BY DEF MapInv
<1>2. i \in Nat /\ w \in 0 .. (Size - 1) /\ j \in Digit /\ w \in Nat
  BY Positions
<1>3. data' = [data EXCEPT ![w] = IF on THEN @ \cup {j} ELSE @ \ {j}]
  <2>1. 0 + w = w
    BY <1>2
  <2> HIDE DEF w
  <2> QED BY <2>1 DEF SetBit, WithBit, w
<1>4. inner' = UpdateInner(inner, w, data'[w] # {}) /\ bits' = (IF on THEN bits \cup {i} ELSE bits \ {i}) /\ h' = h
  BY DEF SetBit
<1>5. data' \in Leaves
  <2>1. data[w] \in SUBSET Digit /\ (data[w] \cup {j}) \in SUBSET Digit /\ (data[w] \ {j}) \in SUBSET Digit
    BY <1>1, <1>2 DEF Leaves
  <2> HIDE DEF w, j
  <2> QED BY <1>1, <1>2, <1>3, <2>1 DEF Leaves
<1>6. /\ \A v \in 0 .. (Size - 1) : v # w => data'[v] = data[v]
      /\ \A k \in Digit : k # j => (k \in data'[w] <=> k \in data[w])
      /\ j \in data'[w] <=> on
  <2> HIDE DEF w, j
  <2> QED BY <1>1, <1>2, <1>3 DEF Leaves
<1>7. bits' \subseteq Position /\ \A k \in Position : k \in bits' <=> k % LeafBit \in data'[k \div LeafBit]
  <2>1. ASSUME NEW k \in Position PROVE k \in bits' <=> k % LeafBit \in data'[k \div LeafBit]
    <3>1. k \in Nat /\ k \div LeafBit \in 0 .. (Size - 1) /\ k % LeafBit \in Digit
      BY Positions
    <3>2. CASE k = i
      BY <1>4, <1>6, <3>2
    <3>3. CASE k # i
      <4>1. k \in bits' <=> k \in bits
        BY <1>4, <3>3
      <4>2. k \div LeafBit = w => k % LeafBit # j
        <5>1. (k \div LeafBit) * LeafBit + (k % LeafBit) = k /\ w * LeafBit + j = i
          BY <1>2, <3>1, BitPlaces
        <5> QED BY ONLY <3>3, <5>1
      <4>3. k % LeafBit \in data'[k \div LeafBit] <=> k % LeafBit \in data[k \div LeafBit]
        <5> HIDE DEF w, j
        <5> QED BY <1>6, <3>1, <4>2
      <4> QED BY <1>1, <4>1, <4>3
    <3> QED BY <3>2, <3>3
  <2> QED BY <1>1, <1>4, <2>1
<1>8. /\ inner' \in Inners /\ inner'[RootIndex] \subseteq 0 .. (Count(RootLevel) - 1)
      /\ \A l \in 0 .. RootLevel : \A b \in 0 .. (Count(l) - 1) : Right(data', inner', l, b)
  <2> DEFINE has == data'[w] # {}
             d == data'
  <2>1. w \in 0 .. (Count(0) - 1) /\ Count(0) = Size
    BY <1>2, LevelsAre
  <2>2. RightBut(d, inner, 0, w)
    <3>1. ASSUME NEW l \in 0 .. RootLevel, NEW b \in 0 .. (Count(l) - 1), l # 0 \/ b # w
          PROVE  Right(d, inner, l, b)
      <4>1. Below(d, inner, l, b) = Below(data, inner, l, b)
        BY <1>6, <2>1, <3>1 DEF Below
      <4> QED BY <1>1, <4>1 DEF Right
    <3> QED BY <1>1, <3>1 DEF RightBut
  <2>3. has \in BOOLEAN /\ (has <=> d[w] # {}) /\ inner' = UpdateInner(inner, w, has)
    BY <1>4
  <2> HIDE DEF w, has, d
  <2>4. LET out == UpdateInner(inner, w, has)
        IN  /\ out \in Inners /\ out[RootIndex] \subseteq 0 .. (Count(RootLevel) - 1)
            /\ \A l \in 0 .. RootLevel : \A b \in 0 .. (Count(l) - 1) : Right(d, out, l, b)
    BY ONLY <2>1, <2>2, <2>3, UpdateInnerIs
  <2> QED BY <2>3, <2>4 DEF d
<1> QED BY <1>1, <1>4, <1>5, <1>7, <1>8 DEF MapInv

THEOREM MapInductive == MapSpec => []MapInv
<1>1. ASSUME MapInv, [MapNext]_mapVars PROVE MapInv'
  <2>1. CASE InitConst
    <3>1. TableRight(h)'
      <4>1. TableRight(h')
        BY <1>1, <2>1, InitConstIs DEF MapInv
      <4> QED BY <4>1
    <3> QED BY <1>1, <2>1, <3>1 DEF InitConst, MapInv, Right, Bit, Below
  <2>2. ASSUME NEW i \in Position, NEW on \in BOOLEAN, SetBit(i, on) PROVE MapInv'
    BY <1>1, <2>2, SetBitKeeps
  <2>3. CASE UNCHANGED mapVars
    BY <1>1, <2>3 DEF mapVars, MapInv, Right, Bit, Below, TableRight
  <2> QED BY <1>1, <2>1, <2>2, <2>3 DEF MapNext
<1> QED BY <1>1, MapInitial, PTL DEF MapSpec

-----------------------------------------------------------------------------
(* What the bits of all levels mean.                                        *)

LEMMA ReachIs ==
  /\ \A l \in 0 .. RootLevel : Reach[l] \in Nat \ {0}
  /\ Reach[0] = LeafBit
  /\ \A l \in 1 .. RootLevel : Reach[l] = Reach[l - 1] * LeafBit
<1> DEFINE S    == Nat \ {0}
           G    == [l \in 0 .. RootLevel |-> S]
           step == [l \in 1 .. RootLevel |-> [s \in S |-> s * LeafBit]]
<1>1. LeafBit \in S /\ RootLevel \in Nat /\ 0 \in 0 .. RootLevel
  BY BitPlaces, LevelsAre
<1>2. \A s \in S : s * LeafBit \in S
  <2>1. \A y \in Nat \ {0} : \A z \in Nat \ {0} : y * z \in Nat \ {0}
    OBVIOUS
  <2> QED BY <1>1, <2>1
<1> HIDE DEF S
<1>3. Stays(RootLevel, S, G, LeafBit, step)
  <2>1. ASSUME NEW l \in 1 .. RootLevel, NEW s \in G[l - 1] PROVE step[l][s] \in G[l]
    <3>1. l \in 0 .. RootLevel /\ l - 1 \in 0 .. RootLevel
      BY <1>1
    <3> QED BY <1>2, <3>1
  <2>2. LeafBit \in G[0] /\ \A l \in 0 .. RootLevel : G[l] \subseteq S
    BY <1>1
  <2> HIDE DEF G, step
  <2> QED BY <1>1, <2>1, <2>2 DEF Stays
<1>4. PICK f \in [0 .. RootLevel -> S] :
        \A l \in 0 .. RootLevel : f[l] = (IF l = 0 THEN LeafBit ELSE step[l][f[l - 1]]) /\ f[l] \in G[l]
  <2> HIDE DEF G, step
  <2> QED BY ONLY <1>3, Stages
<1>5. Reach = [l \in 0 .. RootLevel |-> IF l = 0 THEN LeafBit ELSE Reach[l - 1] * LeafBit]
  <2>1. f = [l \in 0 .. RootLevel |-> IF l = 0 THEN LeafBit ELSE f[l - 1] * LeafBit]
    <3>1. ASSUME NEW l \in 0 .. RootLevel, l # 0 PROVE step[l][f[l - 1]] = f[l - 1] * LeafBit
      <4>1. l \in 1 .. RootLevel /\ l - 1 \in 0 .. RootLevel
        BY <1>1, <3>1
      <4> QED BY <4>1
    <3> HIDE DEF step
    <3> QED BY <3>1, <1>4
  <2> QED BY <2>1 DEF Reach
<1>6. ASSUME NEW l \in 1 .. RootLevel PROVE Reach[l] = Reach[l - 1] * LeafBit
  <2>1. l \in 0 .. RootLevel /\ l # 0
    BY <1>1
  <2> QED BY <1>5, <2>1
<1>7. Reach[0] = LeafBit
  BY <1>1, <1>5
<1> DEFINE T == {l \in 0 .. RootLevel : Reach[l] \in S}
<1>8. \A l \in 0 .. RootLevel : l \in T
  <2>1. 0 \in T
    BY <1>1, <1>7
  <2>2. ASSUME NEW l \in 1 .. RootLevel, l - 1 \in T PROVE l \in T
    <3>1. l \in 0 .. RootLevel
      BY <1>1
    <3> QED BY <1>2, <1>6, <2>2, <3>1
  <2> HIDE DEF T
  <2> QED BY ONLY <1>1, <2>1, <2>2, Throughout
<1> QED BY <1>6, <1>7, <1>8 DEF S

\* The words of a level are what the bits of the level below it say.
LEMMA WordsAre ==
  ASSUME MapInv
  PROVE  \A l \in 0 .. RootLevel : \A w \in 0 .. (Count(l + 1) - 1) :
           /\ Below(data, inner, l + 1, w) = inner[Offset[l] + w]
           /\ inner[Offset[l] + w] \subseteq Digit
           /\ \A j \in inner[Offset[l] + w] :
                w * LeafBit + j \in 0 .. (Count(l) - 1) /\ Below(data, inner, l, w * LeafBit + j) # {}
           /\ \A j \in Digit : w * LeafBit + j \in 0 .. (Count(l) - 1) /\ Below(data, inner, l, w * LeafBit + j) # {} =>
                j \in inner[Offset[l] + w]
<1>1. /\ RootLevel \in Nat /\ RootIndex = Offset[RootLevel]
      /\ \A k \in 0 .. RootLevel : Offset[k] \in Nat
      /\ \A k \in 0 .. (RootLevel + 1) : Count(k) \in Nat \ {0}
  BY LevelsAre
<1>2. /\ inner \in Inners /\ inner[RootIndex] \subseteq 0 .. (Count(RootLevel) - 1)
      /\ \A l \in 0 .. RootLevel : \A b \in 0 .. (Count(l) - 1) : Right(data, inner, l, b)
  BY DEF MapInv
<1> SUFFICES ASSUME NEW l \in 0 .. RootLevel, NEW w \in 0 .. (Count(l + 1) - 1)
             PROVE  /\ Below(data, inner, l + 1, w) = inner[Offset[l] + w]
                    /\ inner[Offset[l] + w] \subseteq Digit
                    /\ \A j \in inner[Offset[l] + w] :
                         w * LeafBit + j \in 0 .. (Count(l) - 1) /\ Below(data, inner, l, w * LeafBit + j) # {}
                    /\ \A j \in Digit : w * LeafBit + j \in 0 .. (Count(l) - 1) /\ Below(data, inner, l, w * LeafBit + j) # {} =>
                         j \in inner[Offset[l] + w]
  OBVIOUS
<1>3. Below(data, inner, l + 1, w) = inner[Offset[l] + w]
  <2>1. l + 1 # 0 /\ (l + 1) - 1 = l
    BY <1>1
  <2> QED BY <2>1 DEF Below
<1>4. inner[Offset[l] + w] \subseteq Digit
  <2>1. Offset[l] + w \in 0 .. RootIndex
    BY PlacesApart
  <2> QED BY <1>2, <2>1 DEF Inners
<1>5. w \in Nat
  <2>1. l + 1 \in 0 .. (RootLevel + 1)
    BY <1>1
  <2> QED BY <1>1, <2>1
<1>6. ASSUME NEW j \in Digit, w * LeafBit + j \in 0 .. (Count(l) - 1)
      PROVE  j \in inner[Offset[l] + w] <=> Below(data, inner, l, w * LeafBit + j) # {}
  <2> DEFINE b == w * LeafBit + j
  <2>1. b \div LeafBit = w /\ b % LeafBit = j
    BY <1>5, BitPlaces
  <2>2. b \in 0 .. (Count(l) - 1)
    BY <1>6
  <2> HIDE DEF b
  <2>3. Right(data, inner, l, b)
    BY <1>2, <2>2
  <2>4. j \in inner[Offset[l] + w] <=> Below(data, inner, l, b) # {}
    BY <2>1, <2>3 DEF Right, Bit
  <2> QED BY <2>4 DEF b
<1>7. ASSUME NEW j \in inner[Offset[l] + w] PROVE w * LeafBit + j \in 0 .. (Count(l) - 1)
  <2>1. j \in Digit
    BY <1>4
  <2>2. CASE l < RootLevel
    BY <2>1, <2>2, BitsOfLevels
  <2>3. CASE l = RootLevel
    <3>1. w = 0
      BY <2>1, <2>3, BitsOfLevels
    <3>2. LeafBit \in Nat /\ 0 * LeafBit = 0
      BY BitPlaces
    <3>3. Offset[l] + w = RootIndex
      BY <1>1, <2>3, <3>1
    <3>4. j \in 0 .. (Count(RootLevel) - 1)
      BY <1>2, <3>3
    <3>5. 0 * LeafBit + j = j
      BY <3>2, <3>4
    <3> QED BY <2>3, <3>1, <3>4, <3>5
  <2> QED BY <1>1, <2>2, <2>3
<1> QED BY <1>3, <1>4, <1>6, <1>7

\* By induction from the words of the map up.
LEMMA BelowMeans ==
  ASSUME MapInv
  PROVE  \A l \in 0 .. RootLevel : \A b \in 0 .. (Count(l) - 1) :
           Below(data, inner, l, b) # {} <=> \E i \in bits : i \div Reach[l] = b
<1> DEFINE T == {l \in 0 .. RootLevel : \A b \in 0 .. (Count(l) - 1) :
                   Below(data, inner, l, b) # {} <=> \E i \in bits : i \div Reach[l] = b}
<1>1. /\ RootLevel \in Nat
      /\ \A k \in 0 .. (RootLevel + 1) : Count(k) \in Nat \ {0}
      /\ Count(0) = Size
      /\ \A k \in 1 .. RootLevel : Count(k - 1) = Count(k) * LeafBit
  BY LevelsAre
<1>2. /\ \A l \in 0 .. RootLevel : Reach[l] \in Nat \ {0}
      /\ Reach[0] = LeafBit
      /\ \A l \in 1 .. RootLevel : Reach[l] = Reach[l - 1] * LeafBit
  BY ReachIs
<1>3. /\ data \in Leaves
      /\ bits \subseteq Position
      /\ \A i \in Position : i \in bits <=> i % LeafBit \in data[i \div LeafBit]
  BY DEF MapInv
<1>4. 0 \in T
  <2>1. ASSUME NEW b \in 0 .. (Count(0) - 1)
        PROVE  Below(data, inner, 0, b) # {} <=> \E i \in bits : i \div Reach[0] = b
    <3>1. Below(data, inner, 0, b) = data[b] /\ b \in 0 .. (Size - 1) /\ b \in Nat
      BY <1>1 DEF Below
    <3>2. ASSUME NEW j \in data[b] PROVE \E i \in bits : i \div Reach[0] = b
      <4> DEFINE i == b * LeafBit + j
      <4>1. j \in Digit
        BY <1>3, <3>1 DEF Leaves
      <4>2. i \in Position
        BY ONLY <3>1, <4>1, Positions
      <4>3. i \div LeafBit = b /\ i % LeafBit = j
        BY <3>1, <4>1, BitPlaces
      <4> HIDE DEF i
      <4>4. i \in bits
        BY <1>3, <4>2, <4>3
      <4> QED BY <1>2, <4>3, <4>4
    <3>3. ASSUME NEW i \in bits, i \div Reach[0] = b PROVE data[b] # {}
      BY <1>2, <1>3, <3>3
    <3> QED BY <3>1, <3>2, <3>3
  <2> QED BY <1>1, <2>1
<1>5. ASSUME NEW l \in 1 .. RootLevel, l - 1 \in T PROVE l \in T
  <2>1. /\ l - 1 \in 0 .. RootLevel /\ (l - 1) + 1 = l /\ l \in 0 .. RootLevel
    BY <1>1
  <2>2. \A c \in 0 .. (Count(l - 1) - 1) :
          Below(data, inner, l - 1, c) # {} <=> \E i \in bits : i \div Reach[l - 1] = c
    BY <1>5
  <2>3. Count(l - 1) = Count(l) * LeafBit /\ Count(l) \in Nat /\ Count(l - 1) \in Nat
    <3>1. l \in 0 .. (RootLevel + 1) /\ l - 1 \in 0 .. (RootLevel + 1)
      BY <1>1
    <3> QED BY <1>1, <3>1
  <2>4. ASSUME NEW i \in bits
        PROVE  /\ i \div Reach[l - 1] \in Nat
               /\ (i \div Reach[l - 1]) \div LeafBit = i \div Reach[l]
    <3>1. i \in Nat /\ Reach[l - 1] \in Nat \ {0} /\ LeafBit \in Nat \ {0} /\ Reach[l] = Reach[l - 1] * LeafBit
      <4>1. i \in Nat
        BY <1>3, Positions
      <4>2. LeafBit \in Nat \ {0}
        BY BitPlaces
      <4> QED BY <1>2, <2>1, <4>1, <4>2
    <3>2. (i \div Reach[l - 1]) \div LeafBit = i \div (Reach[l - 1] * LeafBit)
      BY ONLY <3>1, DivDiv
    <3>3. i \div Reach[l - 1] \in Nat
      BY ONLY <3>1, QuotientIs
    <3> QED BY <3>1, <3>2, <3>3
  <2>5. ASSUME NEW b \in 0 .. (Count(l) - 1)
        PROVE  Below(data, inner, l, b) # {} <=> \E i \in bits : i \div Reach[l] = b
    <3> DEFINE W == inner[Offset[l - 1] + b]
    <3>1. b \in 0 .. (Count((l - 1) + 1) - 1) /\ b \in Nat /\ b < Count(l)
      BY <2>1, <2>3
    <3>2. /\ Below(data, inner, (l - 1) + 1, b) = W
          /\ \A j \in W : /\ b * LeafBit + j \in 0 .. (Count(l - 1) - 1)
                          /\ Below(data, inner, l - 1, b * LeafBit + j) # {}
                          /\ j \in Digit
          /\ \A j \in Digit : b * LeafBit + j \in 0 .. (Count(l - 1) - 1)
               /\ Below(data, inner, l - 1, b * LeafBit + j) # {} => j \in W
      BY <2>1, <3>1, WordsAre
    <3> HIDE DEF W
    <3>3. Below(data, inner, l, b) = W
      BY <2>1, <3>2
    <3>4. ASSUME NEW j \in W PROVE \E i \in bits : i \div Reach[l] = b
      <4> DEFINE c == b * LeafBit + j
      <4>1. c \in 0 .. (Count(l - 1) - 1) /\ Below(data, inner, l - 1, c) # {} /\ j \in Digit
        BY <3>2
      <4>2. c \div LeafBit = b
        BY <3>1, <4>1, BitPlaces
      <4> HIDE DEF c
      <4>3. PICK i \in bits : i \div Reach[l - 1] = c
        BY <2>2, <4>1
      <4> QED BY <2>4, <4>2, <4>3
    <3>5. ASSUME NEW i \in bits, i \div Reach[l] = b PROVE W # {}
      <4> DEFINE c == i \div Reach[l - 1]
                 j == c % LeafBit
      <4>1. c \in Nat /\ c \div LeafBit = b
        BY <2>4, <3>5
      <4> HIDE DEF c
      <4>2. j \in Digit /\ (c \div LeafBit) * LeafBit + j = c
        BY <4>1, BitPlaces
      <4> HIDE DEF j
      <4>3. b * LeafBit + j = c
        BY <4>1, <4>2
      <4>4. b * LeafBit + j < Count(l) * LeafBit
        BY <2>3, <3>1, <4>2, BitPlaces
      <4>5. c \in 0 .. (Count(l - 1) - 1)
        BY <2>3, <4>1, <4>3, <4>4
      <4>6. Below(data, inner, l - 1, c) # {}
        BY <2>2, <4>5 DEF c
      <4> QED BY <3>2, <4>2, <4>3, <4>5, <4>6
    <3> QED BY <3>3, <3>4, <3>5
  <2> QED BY <2>1, <2>5
<1>6. \A l \in 0 .. RootLevel : l \in T
  <2> HIDE DEF T
  <2> QED BY ONLY <1>1, <1>4, <1>5, Throughout
<1> QED BY <1>6

\* Every bit of every level says whether there is a bit of the map below it, whatever
\* is set and cleared (MyBitMap.h:70-135 and 175-186).
THEOREM LevelsSummarize == MapSpec => []InnerSummarizes
<1>1. ASSUME MapInv PROVE InnerSummarizes
  <2>1. ASSUME NEW l \in 0 .. RootLevel, NEW b \in 0 .. (LevelCap[l] - 1)
        PROVE  b % LeafBit \in inner[Offset[l] + b \div LeafBit] <=> \E i \in bits : i \div Reach[l] = b
    <3>1. b \in 0 .. (Count(l) - 1)
      BY LevelsAre
    <3>2. Right(data, inner, l, b)
      BY <1>1, <3>1 DEF MapInv
    <3>3. Below(data, inner, l, b) # {} <=> \E i \in bits : i \div Reach[l] = b
      BY <1>1, <3>1, BelowMeans
    <3> QED BY <3>2, <3>3 DEF Right, Bit
  <2> QED BY <2>1 DEF InnerSummarizes
<1> QED BY <1>1, MapInductive, PTL

-----------------------------------------------------------------------------
(* The way down.                                                            *)

LEMMA LowBitIs ==
  ASSUME MapInv, HasTable, NEW word, word \subseteq Digit
  PROVE  /\ word = {} => LowBit(word) = 0
         /\ word # {} => LowBit(word) \in word /\ \A j \in word : LowBit(word) <= j
<1>1. h[0] = 0 /\ \A i \in Digit : h[HashOf[i]] = i
  BY DEF MapInv, TableRight, HasTable
<1>2. CASE word = {}
  BY <1>1, <1>2 DEF LowBit
<1>3. CASE word # {}
  <2>1. word \subseteq Nat
    BY DEF Digit
  <2>2. Min(word) \in word /\ \A j \in word : Min(word) <= j
    BY ONLY <1>3, <2>1, LeastNat
  <2>3. LowBit(word) = Min(word)
    BY <1>1, <1>3, <2>2 DEF LowBit
  <2> QED BY <1>3, <2>2, <2>3
<1> QED BY <1>2, <1>3

\* p is the first word below level l that has a bit, 0 if there is none.
Found(l, p) ==
  /\ p \in 0 .. (Count(l) - 1)
  /\ bits = {} => p = 0 /\ \A b \in 0 .. (Count(l) - 1) : Below(data, inner, l, b) = {}
  /\ bits # {} => /\ Below(data, inner, l, p) # {}
                  /\ \A b \in 0 .. (p - 1) : Below(data, inner, l, b) = {}

LEMMA RootFound ==
  ASSUME MapInv PROVE Found(RootLevel + 1, 0)
<1>1. /\ RootLevel \in Nat /\ RootLevel + 1 \in Nat
      /\ \A k \in 0 .. (RootLevel + 1) : Count(k) \in Nat \ {0}
      /\ Count(0) = Size
  BY LevelsAre
<1>2. Count(RootLevel + 1) = 1
  BY DEF Count
<1>3. ASSUME bits = {}, NEW b \in 0 .. (Count(RootLevel + 1) - 1) PROVE Below(data, inner, RootLevel + 1, b) = {}
  <2>1. RootLevel \in 0 .. RootLevel
    BY <1>1
  <2>2. /\ Below(data, inner, RootLevel + 1, b) = inner[Offset[RootLevel] + b]
        /\ \A j \in inner[Offset[RootLevel] + b] :
             /\ b * LeafBit + j \in 0 .. (Count(RootLevel) - 1)
             /\ Below(data, inner, RootLevel, b * LeafBit + j) # {}
    BY <2>1, WordsAre
  <2>3. \A c \in 0 .. (Count(RootLevel) - 1) : Below(data, inner, RootLevel, c) = {}
    BY <1>3, <2>1, BelowMeans
  <2> QED BY <2>2, <2>3
<1>4. ASSUME bits # {} PROVE Below(data, inner, RootLevel + 1, 0) # {}
  <2> DEFINE T == {l \in 0 .. (RootLevel + 1) : \E b \in 0 .. (Count(l) - 1) : Below(data, inner, l, b) # {}}
  <2>1. 0 \in T
    <3>1. PICK i \in bits : TRUE
      BY <1>4
    <3>2. i \in Position /\ i % LeafBit \in data[i \div LeafBit]
      BY <3>1 DEF MapInv
    <3>3. i \div LeafBit \in 0 .. (Count(0) - 1)
      BY <1>1, <3>2, Positions
    <3>4. Below(data, inner, 0, i \div LeafBit) # {}
      BY <3>2 DEF Below
    <3>5. 0 \in 0 .. (RootLevel + 1)
      BY <1>1
    <3> QED BY <3>3, <3>4, <3>5
  <2>2. ASSUME NEW l \in 1 .. (RootLevel + 1), l - 1 \in T PROVE l \in T
    <3>1. l - 1 \in 0 .. RootLevel /\ (l - 1) + 1 = l /\ l \in 0 .. (RootLevel + 1)
      BY <1>1
    <3>2. PICK b \in 0 .. (Count(l - 1) - 1) : Below(data, inner, l - 1, b) # {}
      BY <2>2
    <3> DEFINE w == b \div LeafBit
               j == b % LeafBit
    <3>3. b \in Nat /\ w \in 0 .. (Count((l - 1) + 1) - 1) /\ j \in Digit
      BY <3>1, BitsOfLevels
    <3>4. w * LeafBit + j = b
      BY <3>3, BitPlaces
    <3> HIDE DEF w, j
    <3>5. j \in inner[Offset[l - 1] + w] /\ Below(data, inner, (l - 1) + 1, w) = inner[Offset[l - 1] + w]
      BY <3>1, <3>2, <3>3, <3>4, WordsAre
    <3>6. w \in 0 .. (Count(l) - 1) /\ Below(data, inner, l, w) # {}
      BY <3>1, <3>3, <3>5
    <3> QED BY <3>1, <3>6
  <2>3. \A l \in 0 .. (RootLevel + 1) : l \in T
    <3> HIDE DEF T
    <3> QED BY ONLY <1>1, <2>1, <2>2, Throughout
  <2>4. RootLevel + 1 \in T
    BY <1>1, <2>3
  <2>5. PICK b \in 0 .. (Count(RootLevel + 1) - 1) : Below(data, inner, RootLevel + 1, b) # {}
    BY <2>4
  <2>6. b = 0
    BY <1>2, <2>5
  <2> QED BY <2>5, <2>6
<1>5. 0 \in 0 .. (Count(RootLevel + 1) - 1) /\ 0 .. (0 - 1) = {}
  BY <1>2
<1> QED BY <1>3, <1>4, <1>5 DEF Found

LEMMA FoundBelow ==
  ASSUME MapInv, HasTable, NEW l \in 0 .. RootLevel, NEW p, Found(l + 1, p)
  PROVE  Found(l, p * LeafBit + LowBit(inner[Offset[l] + p]))
<1> DEFINE word == inner[Offset[l] + p]
           j == LowBit(word)
<1>1. p \in 0 .. (Count(l + 1) - 1) /\ p \in Nat
  <2>1. p \in 0 .. (Count(l + 1) - 1)
    BY DEF Found
  <2> QED BY <2>1, BitsOfLevels, BitPlaces
<1>2. /\ Below(data, inner, l + 1, p) = word /\ word \subseteq Digit
      /\ \A k \in word : p * LeafBit + k \in 0 .. (Count(l) - 1) /\ Below(data, inner, l, p * LeafBit + k) # {}
  BY <1>1, WordsAre
<1>3. /\ word = {} => j = 0
      /\ word # {} => j \in word /\ \A k \in word : j <= k
  <2> HIDE DEF word
  <2> QED BY <1>2, LowBitIs
<1> HIDE DEF word, j
<1>4. RootLevel \in Nat /\ Count(l) \in Nat \ {0} /\ LeafBit \in Nat
  <2>1. RootLevel \in Nat /\ l \in 0 .. (RootLevel + 1) /\ \A k \in 0 .. (RootLevel + 1) : Count(k) \in Nat \ {0}
    BY LevelsAre
  <2> QED BY <2>1, BitPlaces
<1>5. CASE bits = {}
  <2>1. p = 0 /\ word = {}
    BY <1>1, <1>2, <1>5 DEF Found
  <2>2. p * LeafBit + j = 0
    BY <1>3, <1>4, <2>1
  <2>3. \A b \in 0 .. (Count(l) - 1) : Below(data, inner, l, b) = {}
    BY <1>5, BelowMeans
  <2>4. 0 \in 0 .. (Count(l) - 1)
    BY <1>4
  <2>5. Found(l, 0)
    BY <1>5, <2>3, <2>4 DEF Found
  <2>6. p * LeafBit + LowBit(inner[Offset[l] + p]) = 0
    BY <2>2 DEF j, word
  <2> QED BY <2>5, <2>6
<1>6. CASE bits # {}
  <2> DEFINE b == p * LeafBit + j
  <2>1. word # {} /\ \A v \in 0 .. (p - 1) : Below(data, inner, l + 1, v) = {}
    BY <1>2, <1>6 DEF Found
  <2>2. j \in word /\ j \in Digit /\ \A k \in word : j <= k
    BY <1>2, <1>3, <2>1
  <2>3. b \in 0 .. (Count(l) - 1) /\ Below(data, inner, l, b) # {}
    BY <1>2, <2>2
  <2>4. ASSUME NEW q \in 0 .. (b - 1) PROVE Below(data, inner, l, q) = {}
    <3> SUFFICES ASSUME Below(data, inner, l, q) # {} PROVE FALSE
      OBVIOUS
    <3> DEFINE v == q \div LeafBit
               k == q % LeafBit
    <3>1. q \in 0 .. (Count(l) - 1) /\ q < b
      <4> HIDE DEF b
      <4> QED BY <1>4, <2>3
    <3>2. q \in Nat /\ v \in 0 .. (Count(l + 1) - 1) /\ k \in Digit
      BY <3>1, BitsOfLevels
    <3>3. v * LeafBit + k = q
      BY <3>2, BitPlaces
    <3> HIDE DEF v, k
    <3>4. k \in inner[Offset[l] + v] /\ Below(data, inner, l + 1, v) = inner[Offset[l] + v]
      BY <3>1, <3>2, <3>3, WordsAre
    <3>5. v \in Nat
      <4>1. \A x \in 0 .. (Count(l + 1) - 1) : x \in Nat
        BY BitsOfLevels, <2>2
      <4> QED BY <3>2, <4>1
    <3>6. ~ (v < p)
      BY <1>1, <2>1, <3>4, <3>5
    <3>7. v * LeafBit + k < p * LeafBit + j
      BY <3>1, <3>3
    <3>8. v < p \/ (v = p /\ k < j)
      BY ONLY <1>1, <2>2, <3>2, <3>5, <3>7, BitPlaces
    <3>9. k \in word /\ k < j /\ k \in Nat /\ j \in Nat
      BY <2>2, <3>2, <3>4, <3>6, <3>8 DEF word, Digit
    <3> QED BY <2>2, <3>9
  <2>5. Found(l, b)
    <3> HIDE DEF b
    <3> QED BY <1>6, <2>3, <2>4 DEF Found
  <2> QED BY <2>5 DEF b, j, word
<1> QED BY <1>5, <1>6

LEMMA FindLeftOneIs ==
  ASSUME MapInv, HasTable
  PROVE  \E w : Found(0, w) /\ FindLeftOne = w * LeafBit + LowBit(data[w])
<1> DEFINE N     == RootLevel + 1
           S     == [offset : Int, cap : Nat, pos : Nat]
           first == [offset |-> RootIndex, cap |-> LevelCap[RootLevel], pos |-> 0]
           P(d, t) == /\ Found(N - d, t.pos)
                      /\ d <= RootLevel => t.offset = Offset[RootLevel - d] /\ t.cap = Count(RootLevel - d)
           G     == [d \in 0 .. N |-> {t \in S : P(d, t)}]
           step  == [d \in 1 .. N |-> [t \in S |-> WordFound(t)]]
<1>1. /\ RootLevel \in Nat /\ N \in Nat /\ 0 \in 0 .. N /\ RootLevel \in 0 .. RootLevel
      /\ \A l \in 0 .. (RootLevel + 1) : Count(l) \in Nat \ {0}
      /\ \A l \in 0 .. RootLevel : Count(l) = LevelCap[l]
      /\ \A l \in 1 .. RootLevel : Count(l - 1) = Count(l) * LeafBit
      /\ \A l \in 0 .. RootLevel : Offset[l] \in Nat
      /\ RootIndex = Offset[RootLevel]
      /\ \A l \in 1 .. RootLevel : Offset[l] = Offset[l - 1] + Count(l)
  BY LevelsAre
<1>2. first \in S /\ P(0, first)
  <2>1. Found(RootLevel + 1, 0)
    BY RootFound
  <2>2. N - 0 = RootLevel + 1 /\ RootLevel - 0 = RootLevel /\ RootLevel \in 0 .. (RootLevel + 1)
    BY <1>1
  <2>3. RootIndex \in Int /\ LevelCap[RootLevel] \in Nat /\ LevelCap[RootLevel] = Count(RootLevel)
    BY <1>1, <2>2
  <2> QED BY <1>1, <2>1, <2>2, <2>3
<1>3. ASSUME NEW d \in 1 .. N, NEW t \in S, P(d - 1, t) PROVE WordFound(t) \in S /\ P(d, WordFound(t))
  <2> DEFINE l == N - d
             r == WordFound(t)
  <2>1. /\ l \in 0 .. RootLevel /\ N - (d - 1) = l + 1 /\ d - 1 <= RootLevel /\ RootLevel - (d - 1) = l
        /\ l \in 0 .. (RootLevel + 1)
    BY <1>1
  <2>2. Found(l + 1, t.pos) /\ t.offset = Offset[l] /\ t.cap = Count(l)
    BY <1>3, <2>1
  <2>3. Found(l, t.pos * LeafBit + LowBit(inner[Offset[l] + t.pos]))
    <3> HIDE DEF l
    <3> QED BY <2>1, <2>2, FoundBelow
  <2>4. /\ r.pos = t.pos * LeafBit + LowBit(inner[Offset[l] + t.pos])
        /\ r.offset = t.offset - t.cap /\ r.cap = t.cap * LeafBit
        /\ r = [offset |-> r.offset, cap |-> r.cap, pos |-> r.pos]
    BY <2>2 DEF WordFound
  <2> HIDE DEF r
  <2>5. r.pos \in Nat
    <3>1. r.pos \in 0 .. (Count(l) - 1)
      BY <2>3, <2>4 DEF Found
    <3> HIDE DEF l
    <3> QED BY <2>1, <3>1, BitsOfLevels
  <2>6. r.offset \in Int /\ r.cap \in Nat
    <3>1. Offset[l] \in Nat /\ Count(l) \in Nat /\ LeafBit \in Nat
      BY <1>1, <2>1, BitPlaces
    <3> HIDE DEF l
    <3> QED BY <2>2, <2>4, <3>1
  <2>7. r \in S
    BY <2>4, <2>5, <2>6
  <2>8. ASSUME d <= RootLevel PROVE r.offset = Offset[RootLevel - d] /\ r.cap = Count(RootLevel - d)
    <3>1. l \in 1 .. RootLevel /\ l - 1 = RootLevel - d /\ l - 1 \in 0 .. RootLevel
      BY <1>1, <2>8
    <3>2. /\ Offset[l] = Offset[l - 1] + Count(l) /\ Count(l - 1) = Count(l) * LeafBit
          /\ Offset[l - 1] \in Nat /\ Count(l) \in Nat
      BY <1>1, <2>1, <3>1
    <3>3. r.offset = Offset[l - 1] /\ r.cap = Count(l - 1)
      <4> HIDE DEF l
      <4> QED BY <2>2, <2>4, <3>2
    <3> QED BY <3>1, <3>3
  <2>9. Found(N - d, r.pos)
    BY <2>3, <2>4
  <2> QED BY <2>7, <2>8, <2>9 DEF r
<1> HIDE DEF first, P, S
<1>4. Stays(N, S, G, first, step)
  <2>1. ASSUME NEW l \in 1 .. N, NEW s \in G[l - 1] PROVE step[l][s] \in G[l]
    <3>1. l \in 0 .. N /\ l - 1 \in 0 .. N
      BY <1>1
    <3>2. s \in S /\ P(l - 1, s)
      BY <3>1
    <3>3. step[l][s] = WordFound(s)
      BY <3>2
    <3> QED BY <1>3, <3>1, <3>2, <3>3
  <2>2. first \in G[0] /\ \A l \in 0 .. N : G[l] \subseteq S
    BY <1>1, <1>2
  <2> HIDE DEF G, step, N
  <2> QED BY <1>1, <2>1, <2>2 DEF Stays
<1>5. PICK f \in [0 .. N -> S] :
        \A l \in 0 .. N : f[l] = (IF l = 0 THEN first ELSE step[l][f[l - 1]]) /\ f[l] \in G[l]
  <2> HIDE DEF G, step, N
  <2> QED BY ONLY <1>4, Stages
<1> DEFINE down[d \in 0 .. (RootLevel + 1)] ==
             IF d = 0 THEN [offset |-> RootIndex, cap |-> LevelCap[RootLevel], pos |-> 0]
             ELSE WordFound(down[d - 1])
           w == down[RootLevel + 1].pos
<1>6. down = [d \in 0 .. N |-> IF d = 0 THEN first ELSE WordFound(down[d - 1])]
  <2>1. f = [d \in 0 .. N |-> IF d = 0 THEN first ELSE WordFound(f[d - 1])]
    <3>1. ASSUME NEW l \in 0 .. N, l # 0 PROVE step[l][f[l - 1]] = WordFound(f[l - 1])
      <4>1. l \in 1 .. N /\ l - 1 \in 0 .. N
        BY <1>1, <3>1
      <4> QED BY <4>1
    <3> HIDE DEF step
    <3> QED BY <3>1, <1>5
  <2> QED BY <2>1 DEF first
<1>7. FindLeftOne = w * LeafBit + LowBit(data[w])
  BY DEF FindLeftOne
<1> HIDE DEF down
<1> DEFINE T == {d \in 0 .. N : down[d] \in S /\ P(d, down[d])}
<1>8. \A d \in 0 .. N : d \in T
  <2>1. 0 \in T
    BY <1>1, <1>2, <1>6
  <2>2. ASSUME NEW d \in 1 .. N, d - 1 \in T PROVE d \in T
    <3>1. d \in 0 .. N /\ d # 0
      BY <1>1
    <3>2. down[d] = WordFound(down[d - 1])
      BY <3>1, <1>6
    <3> QED BY <1>3, <2>2, <3>1, <3>2
  <2> HIDE DEF T, N
  <2> QED BY ONLY <1>1, <2>1, <2>2, Throughout
<1>9. P(N, down[N])
  BY <1>1, <1>8
<1>10. Found(0, w)
  <2>1. N - N = 0
    BY <1>1
  <2> QED BY <1>9, <2>1 DEF P
<1> QED BY <1>7, <1>10

\* Once the table is there findLeftOne finds the lowest bit set, and 0 where none is
\* (MyBitMap.h:136-149 and 187-199), as FileManager relies on.
THEOREM LowestIsFound == MapSpec => []LeftOneIsLowest
<1>1. ASSUME MapInv, HasTable PROVE FindLeftOne = IF bits = {} THEN 0 ELSE Min(bits)
  <2>1. PICK w : Found(0, w) /\ FindLeftOne = w * LeafBit + LowBit(data[w])
    BY <1>1, FindLeftOneIs
  <2> DEFINE j == LowBit(data[w])
             i == w * LeafBit + j
  <2>2. /\ data \in Leaves /\ bits \subseteq Position
        /\ \A k \in Position : k \in bits <=> k % LeafBit \in data[k \div LeafBit]
    BY <1>1 DEF MapInv
  <2>3. Count(0) = Size /\ Size \in Nat /\ w \in 0 .. (Size - 1) /\ w \in Nat /\ LeafBit \in Nat
    <3>1. Count(0) = Size /\ Size \in Nat
      BY LevelsAre, CapsAre
    <3>2. w \in 0 .. (Size - 1)
      BY <2>1, <3>1 DEF Found
    <3> QED BY <3>1, <3>2, BitPlaces
  <2>4. data[w] \subseteq Digit
    BY <2>2, <2>3 DEF Leaves
  <2>5. /\ data[w] = {} => j = 0
        /\ data[w] # {} => j \in data[w] /\ \A k \in data[w] : j <= k
    BY <1>1, <2>4, LowBitIs
  <2> HIDE DEF j
  <2>6. \A b : Below(data, inner, 0, b) = data[b]
    BY DEF Below
  <2>7. CASE bits = {}
    <3>1. w = 0 /\ data[w] = {}
      BY <2>1, <2>3, <2>6, <2>7 DEF Found
    <3>2. w * LeafBit + j = 0
      BY <2>3, <2>5, <3>1
    <3> QED BY <2>1, <2>7, <3>2 DEF j
  <2>8. CASE bits # {}
    <3>1. data[w] # {} /\ \A b \in 0 .. (w - 1) : data[b] = {}
      BY <2>1, <2>6, <2>8 DEF Found
    <3>2. j \in data[w] /\ j \in Digit /\ \A k \in data[w] : j <= k
      BY <2>4, <2>5, <3>1
    <3>3. i \in Position /\ i \div LeafBit = w /\ i % LeafBit = j
      <4>1. i \in Position
        BY ONLY <2>3, <3>2, Positions
      <4>2. i \div LeafBit = w /\ i % LeafBit = j
        BY <2>3, <3>2, BitPlaces
      <4> QED BY <4>1, <4>2
    <3> HIDE DEF i
    <3>4. i \in bits /\ i \in Nat
      BY <2>2, <3>2, <3>3, Positions
    <3>5. ASSUME NEW m \in bits PROVE i <= m
      <4> DEFINE v == m \div LeafBit
                 k == m % LeafBit
      <4>1. m \in Nat /\ v \in 0 .. (Size - 1) /\ k \in Digit /\ k \in data[v]
        BY <2>2, Positions
      <4>2. v * LeafBit + k = m /\ w * LeafBit + j = i
        BY <4>1, BitPlaces DEF i
      <4> HIDE DEF v, k
      <4>3. v \in Nat /\ ~ (v < w)
        BY <2>3, <3>1, <4>1
      <4>4. ~ (v = w /\ k < j)
        BY <3>2, <4>1 DEF Digit
      <4>5. ~ (v * LeafBit + k < w * LeafBit + j)
        BY ONLY <2>3, <3>2, <4>1, <4>3, <4>4, BitPlaces
      <4>6. ~ (m < i)
        BY <4>2, <4>5
      <4> QED BY <3>4, <4>1, <4>6
    <3>6. bits \subseteq Nat
      BY <2>2, Positions
    <3>7. Min(bits) \in bits /\ \A m \in bits : Min(bits) <= m
      BY ONLY <2>8, <3>6, LeastNat
    <3>8. Min(bits) = i
      <4> DEFINE m == Min(bits)
      <4>1. m \in bits /\ m <= i
        BY <3>4, <3>7
      <4> HIDE DEF m
      <4>2. m \in Nat /\ i <= m
        BY <3>5, <3>6, <4>1
      <4>3. m = i
        BY <3>4, <4>1, <4>2
      <4> QED BY <4>3 DEF m
    <3> QED BY <2>1, <2>8, <3>8 DEF i, j
  <2> QED BY <2>7, <2>8
<1>2. MapInv => LeftOneIsLowest
  BY <1>1 DEF LeftOneIsLowest
<1> QED BY <1>2, MapInductive, PTL
=============================================================================
