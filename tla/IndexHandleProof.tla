--------------------------- MODULE IndexHandleProof ---------------------------
(***************************************************************************)
(* Proofs about IndexHandle for every capacity, set of keys and number of  *)
(* pages.                                                                  *)
(***************************************************************************)
EXTENDS IndexScan, DataLemmas, FiniteSetTheorems

-----------------------------------------------------------------------------
(* Nodes.                                                                   *)

SepKey == Keys \cup Leftover \cup {0}

\* No address is entered twice.
Distinct(n) == \A i, j \in DOMAIN n.entries : Addr(n, i) = Addr(n, j) => i = j

\* The keys increase; a key is none of a node's.
Sorted(n)   == \A i, j \in 1 .. Size(n) : i < j => Key(n, i) < Key(n, j)
Fresh(n, k) == \A e \in ToSet(n.entries) : e[1] # k

LEMMA EntryParts ==
  ASSUME NEW n \in Node
  PROVE  /\ Size(n) \in Nat /\ DOMAIN n.entries = 1 .. Size(n) /\ n.entries \in Seq(Entry)
         /\ n = [entries |-> n.entries, left |-> n.left, right |-> n.right]
         /\ {n.left, n.right} \subseteq Page \cup {NoPage}
         /\ \A i \in 1 .. Size(n) : /\ n.entries[i] \in Entry
                                    /\ Key(n, i) \in SepKey /\ Addr(n, i) \in Rids \cup Page
                                    /\ n.entries[i] = <<Key(n, i), Addr(n, i)>>
         /\ Addresses(n) = {Addr(n, i) : i \in 1 .. Size(n)}
         /\ ToSet(n.entries) = {n.entries[i] : i \in 1 .. Size(n)}
<1>1. n.entries \in Seq(Entry) /\ {n.left, n.right} \subseteq Page \cup {NoPage}
      /\ n = [entries |-> n.entries, left |-> n.left, right |-> n.right]
  BY DEF Node
<1>2. Size(n) \in Nat /\ DOMAIN n.entries = 1 .. Size(n)
  BY <1>1 DEF Size
<1>3. \A i \in 1 .. Size(n) : n.entries[i] \in Entry
  BY <1>1, <1>2
<1>4. \A e \in Entry : e = <<e[1], e[2]>> /\ e[1] \in SepKey /\ e[2] \in Rids \cup Page
  BY DEF Entry, SepKey
<1> QED BY <1>1, <1>2, <1>3, <1>4 DEF Key, Addr, Addresses, ToSet

\* The searches answer positions of the node, or say that there is none.
LEMMA Positions ==
  ASSUME NEW n \in Node, NEW k, NEW r
  PROVE  /\ FindKey(n, k) \in 0 .. Size(n)
         /\ FindPositionByKey(n, k) \in 1 .. (Size(n) + 1)
         /\ FindEntry(n, k, r) \in 0 .. Size(n)
         /\ FindEntry(n, k, r) # 0 => n.entries[FindEntry(n, k, r)] = <<k, r>>
         /\ AtMost(n, k) # {} => Max(AtMost(n, k)) \in 1 .. Size(n)
<1> DEFINE S == AtMost(n, k)
           hits == {i \in S : n.entries[i] = <<k, r>> /\ \A j \in S : j > i => Key(n, j) = k}
<1>1. Size(n) \in Nat /\ S \subseteq 1 .. Size(n) /\ hits \subseteq S
  BY EntryParts DEF AtMost
<1>2. S # {} => Max(S) \in S
  <2>1. S \subseteq Nat /\ \A y \in S : y <= Size(n)
    BY <1>1
  <2> HIDE DEF S
  <2> QED BY <1>1, <2>1, GreatestNat
<1>3. hits # {} => Max(hits) \in hits
  <2>1. hits \subseteq Nat /\ \A y \in hits : y <= Size(n)
    BY <1>1
  <2> HIDE DEF hits
  <2> QED BY <1>1, <2>1, GreatestNat
<1>4. FindKey(n, k) = IF S # {} /\ Key(n, Max(S)) = k THEN Max(S) ELSE 0
  BY DEF FindKey
<1>5. FindPositionByKey(n, k) =
        IF S = {} THEN 1 ELSE IF Key(n, Max(S)) = k THEN Max(S) ELSE Max(S) + 1
  BY DEF FindPositionByKey
<1>6. FindEntry(n, k, r) = IF hits = {} THEN 0 ELSE Max(hits)
  BY DEF FindEntry
<1>7. \A i \in hits : n.entries[i] = <<k, r>>
  OBVIOUS
<1> HIDE DEF S, hits
<1>8. S # {} => Max(S) \in 1 .. Size(n)
  BY <1>1, <1>2
<1>9. FindKey(n, k) \in 0 .. Size(n)
  BY <1>1, <1>4, <1>8
<1>10. FindPositionByKey(n, k) \in 1 .. (Size(n) + 1)
  BY <1>1, <1>5, <1>8
<1>11. FindEntry(n, k, r) \in 0 .. Size(n)
  <2>1. hits # {} => Max(hits) \in 1 .. Size(n)
    BY <1>1, <1>3
  <2> QED BY <1>6, <2>1, <1>1
<1>12. FindEntry(n, k, r) # 0 => n.entries[FindEntry(n, k, r)] = <<k, r>>
  BY <1>3, <1>6, <1>7
<1> QED BY <1>8, <1>9, <1>10, <1>11, <1>12 DEF S

\* The child to follow is one of the node's, where it has any.
LEMMA ChildPosIn ==
  ASSUME NEW n \in Node, ~IsEmpty(n), NEW k
  PROVE  ChildPos(n, k) \in 1 .. Size(n)
<1> DEFINE x == FindPositionByKey(n, k)
           S == {x, Size(n)}
<1>1. x \in 1 .. (Size(n) + 1) /\ Size(n) \in Nat
  BY Positions, EntryParts
<1>2. Size(n) # 0
  BY DEF IsEmpty
<1> HIDE DEF x
<1>3. S \subseteq Nat /\ S # {} /\ S \subseteq 1 .. (Size(n) + 1) /\ Size(n) \in S
  BY <1>1, <1>2
<1>4. ChildPos(n, k) = Min(S)
  BY DEF ChildPos, x
<1> HIDE DEF S
<1>5. Min(S) \in S /\ \A y \in S : Min(S) <= y
  BY <1>3, LeastNat
<1>6. Min(S) \in 1 .. (Size(n) + 1) /\ Min(S) <= Size(n)
  BY <1>3, <1>5
<1> QED BY <1>1, <1>4, <1>6

\* Insert into a node.
LEMMA InsertIs ==
  ASSUME NEW n \in Node, NEW e \in Entry
  PROVE  /\ Insert(n, e) \in Node
         /\ Insert(n, e).left = n.left /\ Insert(n, e).right = n.right
         /\ Size(Insert(n, e)) = Size(n) + 1
         /\ ToSet(Insert(n, e).entries) = ToSet(n.entries) \cup {e}
         /\ Addresses(Insert(n, e)) = Addresses(n) \cup {e[2]}
         /\ Distinct(n) /\ e[2] \notin Addresses(n) => Distinct(Insert(n, e))
         /\ Sorted(n) /\ Fresh(n, e[1]) => Sorted(Insert(n, e))
<1> DEFINE S == AtMost(n, e[1])
           m == IF S = {} THEN 1 ELSE Max(S) + 1
           s == n.entries
           t == InsertAt(s, m, e)
           N == Insert(n, e)
<1>1. s \in Seq(Entry) /\ Len(s) = Size(n) /\ Len(s) \in Nat
  BY EntryParts DEF Size
<1>2. m \in 1 .. (Len(s) + 1)
  <2>1. S # {} => Max(S) \in 1 .. Size(n)
    BY Positions
  <2> HIDE DEF S
  <2> QED BY <1>1, <2>1
<1>3. N = [n EXCEPT !.entries = t]
  BY DEF Insert
\* Where the new key goes.
<1>15. ASSUME Sorted(n), Fresh(n, e[1]), NEW i \in 1 .. Size(n)
       PROVE  IF i < m THEN Key(n, i) < e[1] ELSE e[1] < Key(n, i)
  <2>1. /\ \A j \in 1 .. Size(n) : Key(n, j) \in Int /\ Key(n, j) # e[1]
        /\ e[1] \in Int /\ Size(n) \in Nat
    <3>1. SepKey \subseteq Int /\ e[1] \in SepKey
      BY IndexAssumption DEF SepKey, Entry
    <3>2. \A j \in 1 .. Size(n) : n.entries[j] \in ToSet(n.entries)
      BY EntryParts
    <3>3. \A j \in 1 .. Size(n) : Key(n, j) = n.entries[j][1]
      BY DEF Key
    <3>4. \A j \in 1 .. Size(n) : Key(n, j) # e[1]
      BY <3>2, <3>3, <1>15 DEF Fresh
    <3> QED BY <3>1, <3>4, EntryParts
  <2>2. S = {j \in 1 .. Size(n) : Key(n, j) <= e[1]}
    BY EntryParts DEF AtMost
  <2>3. S # {} => Max(S) \in S /\ \A j \in S : j <= Max(S)
    <3>1. S \subseteq Nat /\ \A y \in S : y <= Size(n)
      BY <2>1, <2>2
    <3> HIDE DEF S
    <3> QED BY <3>1, <2>1, GreatestNat
  <2>4. i \in S <=> i < m
    <3>1. m = IF S = {} THEN 1 ELSE Max(S) + 1
      OBVIOUS
    <3> HIDE DEF m
    <3>2. ASSUME i \notin S, S # {} PROVE ~(i < m)
      <4>1. Max(S) \in 1 .. Size(n) /\ Key(n, Max(S)) <= e[1]
        BY <3>2, <2>2, <2>3
      <4>2. ~(Key(n, i) <= e[1])
        BY <3>2, <2>2
      <4>3. i < Max(S) => Key(n, i) < Key(n, Max(S))
        BY <4>1, <1>15 DEF Sorted
      <4>4. Max(S) \in Nat /\ i \in Nat /\ i # Max(S) /\ Key(n, Max(S)) \in Int /\ Key(n, i) \in Int
        BY <4>1, <4>2, <2>1
      <4>5. ~(i < Max(S))
        BY <4>1, <4>2, <4>3, <4>4, <2>1
      <4> HIDE DEF S
      <4> QED BY <4>4, <4>5, <3>1, <3>2
    <3>3. S # {} => Max(S) \in Nat
      BY <2>2, <2>3
    <3> HIDE DEF S
    <3> QED BY <3>1, <3>2, <3>3, <2>3
  <2> HIDE DEF m
  <2> QED BY <2>1, <2>2, <2>4
<1> HIDE DEF m, S, t, N
<1> HIDE DEF s
<1>4. /\ t \in Seq(Entry) /\ Len(t) = Len(s) + 1
      /\ \A i \in 1 .. (Len(s) + 1) :
           t[i] = IF i < m THEN s[i] ELSE IF i = m THEN e ELSE s[i - 1]
  <2>1. e \in Entry /\ s \in Seq(Entry) /\ m \in 1 .. (Len(s) + 1)
    BY <1>1, <1>2
  <2>2. /\ InsertAt(s, m, e) \in Seq(Entry) /\ Len(InsertAt(s, m, e)) = Len(s) + 1
        /\ \A i \in 1 .. (Len(s) + 1) :
             InsertAt(s, m, e)[i] = IF i < m THEN s[i] ELSE IF i = m THEN e ELSE s[i - 1]
    BY ONLY <2>1, InsertAtFacts
  <2> QED BY <2>2 DEF t
<1>5. N.entries = t /\ N.left = n.left /\ N.right = n.right /\ N \in Node
  BY <1>3, <1>4 DEF Node
<1>6. Size(N) = Size(n) + 1
  BY <1>1, <1>4, <1>5 DEF Size
<1>7. /\ \A i \in 1 .. Size(N) : Addr(N, i) = t[i][2]
      /\ \A i \in 1 .. Size(n) : Addr(n, i) = s[i][2]
  BY <1>5 DEF Addr, s
<1>8. /\ DOMAIN t = 1 .. (Len(s) + 1) /\ DOMAIN s = 1 .. Len(s)
      /\ DOMAIN N.entries = 1 .. Size(N) /\ DOMAIN n.entries = 1 .. Size(n)
  BY <1>1, <1>4, <1>5, EntryParts
\* Where the old and the new entries are in the new node.
<1>9. ASSUME NEW i \in 1 .. Len(s)
      PROVE  \E j \in 1 .. (Len(s) + 1) : j # m /\ t[j] = s[i]
  <2>1. CASE i < m
    <3>1. t[i] = s[i]
      BY <2>1, <1>1, <1>4
    <3> QED BY <2>1, <3>1, <1>1, <1>2
  <2>2. CASE ~ (i < m)
    <3>1. i + 1 \in 1 .. (Len(s) + 1) /\ i + 1 > m /\ (i + 1) - 1 = i
      BY <2>2, <1>1, <1>2
    <3>2. t[i + 1] = s[(i + 1) - 1]
      BY <3>1, <1>1, <1>2, <1>4
    <3> QED BY <3>1, <3>2, <1>1, <1>2
  <2> QED BY <2>1, <2>2
<1>10. t[m] = e /\ m \in DOMAIN t
  BY <1>1, <1>2, <1>4, <1>8
<1>11. ASSUME NEW j \in 1 .. (Len(s) + 1), j # m
       PROVE  \E i \in 1 .. Len(s) : t[j] = s[i] /\ i = IF j < m THEN j ELSE j - 1
  BY <1>1, <1>2, <1>4, <1>11
<1>12. ToSet(N.entries) = ToSet(n.entries) \cup {e}
  <2>1. {t[j] : j \in 1 .. (Len(s) + 1)} = {s[i] : i \in 1 .. Len(s)} \cup {e}
    <3>1. \A j \in 1 .. (Len(s) + 1) : t[j] \in {s[i] : i \in 1 .. Len(s)} \cup {e}
      BY <1>10, <1>11
    <3>2. \A i \in 1 .. Len(s) : s[i] \in {t[j] : j \in 1 .. (Len(s) + 1)}
      BY <1>9
    <3>3. e \in {t[j] : j \in 1 .. (Len(s) + 1)}
      BY <1>10, <1>2
    <3> QED BY ONLY <3>1, <3>2, <3>3
  <2> QED BY <2>1, <1>5, <1>8, <1>4 DEF ToSet, s
<1>13. Addresses(N) = Addresses(n) \cup {e[2]}
  <2>1. {t[j][2] : j \in 1 .. (Len(s) + 1)} = {s[i][2] : i \in 1 .. Len(s)} \cup {e[2]}
    <3>1. \A j \in 1 .. (Len(s) + 1) : t[j][2] \in {s[i][2] : i \in 1 .. Len(s)} \cup {e[2]}
      BY <1>10, <1>11
    <3>2. \A i \in 1 .. Len(s) : s[i][2] \in {t[j][2] : j \in 1 .. (Len(s) + 1)}
      BY <1>9
    <3>3. e[2] \in {t[j][2] : j \in 1 .. (Len(s) + 1)}
      BY <1>10, <1>2
    <3> QED BY ONLY <3>1, <3>2, <3>3
  <2>2. Addresses(N) = {t[j][2] : j \in 1 .. (Len(s) + 1)}
    BY <1>5, <1>8 DEF Addresses, Addr
  <2>3. Addresses(n) = {s[i][2] : i \in 1 .. Len(s)}
    BY <1>8 DEF Addresses, Addr, s
  <2> QED BY <2>1, <2>2, <2>3
<1>14. ASSUME Distinct(n), e[2] \notin Addresses(n) PROVE Distinct(N)
  <2>1. \A i, j \in 1 .. Len(s) : s[i][2] = s[j][2] => i = j
    BY <1>14, <1>1, <1>8 DEF Distinct, Addr, s
  <2>2. \A i \in 1 .. Len(s) : s[i][2] # e[2]
    BY <1>14, <1>1, <1>8 DEF Addresses, Addr, s
  <2>3. ASSUME NEW i \in 1 .. (Len(s) + 1), NEW j \in 1 .. (Len(s) + 1), t[i][2] = t[j][2], i # m
        PROVE  i = j
    <3>1. PICK a \in 1 .. Len(s) : t[i] = s[a] /\ a = IF i < m THEN i ELSE i - 1
      BY <2>3, <1>11
    <3>2. j # m
      BY <2>2, <2>3, <3>1, <1>10
    <3>3. PICK b \in 1 .. Len(s) : t[j] = s[b] /\ b = IF j < m THEN j ELSE j - 1
      BY <3>2, <1>11
    <3>4. a = b
      BY <2>1, <2>3, <3>1, <3>3
    <3> QED BY <2>3, <3>1, <3>2, <3>3, <3>4, <1>1, <1>2
  <2>4. ASSUME NEW i \in 1 .. (Len(s) + 1), NEW j \in 1 .. (Len(s) + 1), t[i][2] = t[j][2]
        PROVE  i = j
    BY <2>3, <2>4
  <2> QED BY <2>4, <1>5, <1>8, <1>4 DEF Distinct, Addr
<1>16. ASSUME Sorted(n), Fresh(n, e[1]) PROVE Sorted(N)
  <2>1. /\ \A i \in 1 .. Len(s) : IF i < m THEN s[i][1] < e[1] ELSE e[1] < s[i][1]
        /\ \A i, j \in 1 .. Len(s) : i < j => s[i][1] < s[j][1]
    BY <1>1, <1>15, <1>16 DEF Sorted, Key, s
  <2>2. ASSUME NEW i \in 1 .. (Len(s) + 1), NEW j \in 1 .. (Len(s) + 1), i < j
        PROVE  t[i][1] < t[j][1]
    <3>1. CASE i = m
      <4>1. j - 1 \in 1 .. Len(s) /\ ~(j - 1 < m) /\ t[j] = s[j - 1]
        BY <3>1, <2>2, <1>1, <1>2, <1>4
      <4> QED BY <4>1, <3>1, <2>1, <1>10
    <3>2. CASE j = m
      <4>1. i \in 1 .. Len(s) /\ i < m /\ t[i] = s[i]
        BY <3>2, <2>2, <1>1, <1>2, <1>4
      <4> QED BY <4>1, <3>2, <2>1, <1>10
    <3>3. CASE i # m /\ j # m
      <4>1. PICK a \in 1 .. Len(s) : t[i] = s[a] /\ a = IF i < m THEN i ELSE i - 1
        BY <3>3, <1>11
      <4>2. PICK b \in 1 .. Len(s) : t[j] = s[b] /\ b = IF j < m THEN j ELSE j - 1
        BY <3>3, <1>11
      <4>3. a < b
        BY <4>1, <4>2, <3>3, <2>2, <1>1, <1>2
      <4> QED BY <4>1, <4>2, <4>3, <2>1
    <3> QED BY <3>1, <3>2, <3>3
  <2>3. Size(N) = Len(s) + 1 /\ \A i \in 1 .. (Len(s) + 1) : Key(N, i) = t[i][1]
    BY <1>1, <1>5, <1>6 DEF Key
  <2> QED BY <2>2, <2>3 DEF Sorted
<1> QED BY <1>5, <1>6, <1>12, <1>13, <1>14, <1>16 DEF N

\* RemoveEntry from a node.
LEMMA RemoveIs ==
  ASSUME NEW n \in Node, NEW m \in 1 .. Size(n)
  PROVE  LET N == RemoveEntry(n, m)
         IN  /\ N \in Node /\ N.left = n.left /\ N.right = n.right
             /\ Size(N) = Size(n) - 1
             /\ ToSet(n.entries) \subseteq ToSet(N.entries) \cup {n.entries[m]}
             /\ Sorted(n) => Sorted(N)
             /\ Distinct(n) => /\ Addresses(N) = Addresses(n) \ {Addr(n, m)}
                               /\ Distinct(N)
<1> DEFINE s == n.entries
           t == RemoveAt(s, m)
           N == RemoveEntry(n, m)
<1>1. s \in Seq(Entry) /\ Len(s) = Size(n) /\ Len(s) \in Nat /\ m \in 1 .. Len(s)
  BY EntryParts DEF Size
<1>2. N = [n EXCEPT !.entries = t]
  BY DEF RemoveEntry
<1> HIDE DEF t, N, s
<1>3. /\ t \in Seq(Entry) /\ Len(t) = Len(s) - 1
      /\ \A i \in 1 .. (Len(s) - 1) : t[i] = IF i < m THEN s[i] ELSE s[i + 1]
  BY <1>1, RemoveAtFacts DEF t
<1>4. N.entries = t /\ N.left = n.left /\ N.right = n.right /\ N \in Node
  BY <1>2, <1>3 DEF Node
<1>5. Size(N) = Size(n) - 1
  BY <1>1, <1>3, <1>4 DEF Size
<1>6. /\ DOMAIN t = 1 .. (Len(s) - 1) /\ DOMAIN s = 1 .. Len(s)
      /\ DOMAIN N.entries = 1 .. (Len(s) - 1) /\ DOMAIN n.entries = 1 .. Len(s)
  BY <1>1, <1>3, <1>4, EntryParts
<1>7. ASSUME NEW i \in 1 .. Len(s), i # m
      PROVE  \E j \in 1 .. (Len(s) - 1) : t[j] = s[i]
  <2>1. CASE i < m
    <3>1. i \in 1 .. (Len(s) - 1) /\ t[i] = s[i]
      BY <2>1, <1>1, <1>3
    <3> QED BY <3>1
  <2>2. CASE ~ (i < m)
    <3>1. i - 1 \in 1 .. (Len(s) - 1) /\ ~ (i - 1 < m) /\ (i - 1) + 1 = i
      BY <2>2, <1>1, <1>7
    <3>2. t[i - 1] = s[(i - 1) + 1]
      BY <3>1, <1>3
    <3> QED BY <3>1, <3>2
  <2> QED BY <2>1, <2>2
<1>8. ASSUME NEW j \in 1 .. (Len(s) - 1)
      PROVE  \E i \in 1 .. Len(s) : i # m /\ t[j] = s[i] /\ i = IF j < m THEN j ELSE j + 1
  BY <1>1, <1>3
<1>9. ToSet(n.entries) \subseteq ToSet(N.entries) \cup {n.entries[m]}
  <2>1. \A i \in 1 .. Len(s) : s[i] \in {t[j] : j \in 1 .. (Len(s) - 1)} \cup {s[m]}
    BY <1>7
  <2> QED BY <2>1, <1>4, <1>6 DEF ToSet, s
<1>10. ASSUME Distinct(n) PROVE Addresses(N) = Addresses(n) \ {Addr(n, m)} /\ Distinct(N)
  <2>1. \A i, j \in 1 .. Len(s) : s[i][2] = s[j][2] => i = j
    BY <1>10, <1>6 DEF Distinct, Addr, s
  <2>2. Addresses(N) = {t[j][2] : j \in 1 .. (Len(s) - 1)}
    BY <1>4, <1>6 DEF Addresses, Addr
  <2>3. Addresses(n) = {s[i][2] : i \in 1 .. Len(s)} /\ Addr(n, m) = s[m][2]
    BY <1>6 DEF Addresses, Addr, s
  <2>4. {t[j][2] : j \in 1 .. (Len(s) - 1)} = {s[i][2] : i \in 1 .. Len(s)} \ {s[m][2]}
    <3>1. ASSUME NEW j \in 1 .. (Len(s) - 1)
          PROVE  t[j][2] \in {s[i][2] : i \in 1 .. Len(s)} \ {s[m][2]}
      BY <1>1, <1>8, <2>1
    <3>2. ASSUME NEW i \in 1 .. Len(s), s[i][2] # s[m][2]
          PROVE  s[i][2] \in {t[j][2] : j \in 1 .. (Len(s) - 1)}
      BY <1>7, <3>2
    <3> QED BY ONLY <3>1, <3>2
  <2>5. ASSUME NEW i \in 1 .. (Len(s) - 1), NEW j \in 1 .. (Len(s) - 1), t[i][2] = t[j][2]
        PROVE  i = j
    <3>1. PICK a \in 1 .. Len(s) : t[i] = s[a] /\ a = IF i < m THEN i ELSE i + 1
      BY <1>8
    <3>2. PICK b \in 1 .. Len(s) : t[j] = s[b] /\ b = IF j < m THEN j ELSE j + 1
      BY <1>8
    <3>3. a = b
      BY <2>1, <2>5, <3>1, <3>2
    <3> QED BY <3>1, <3>2, <3>3, <1>1
  <2>6. Distinct(N)
    BY <2>5, <1>4, <1>6 DEF Distinct, Addr
  <2> QED BY <2>2, <2>3, <2>4, <2>6
<1>11. ASSUME Sorted(n) PROVE Sorted(N)
  <2>1. \A i, j \in 1 .. Len(s) : i < j => s[i][1] < s[j][1]
    BY <1>1, <1>11 DEF Sorted, Key, s
  <2>2. ASSUME NEW i \in 1 .. (Len(s) - 1), NEW j \in 1 .. (Len(s) - 1), i < j
        PROVE  t[i][1] < t[j][1]
    <3>1. PICK a \in 1 .. Len(s) : t[i] = s[a] /\ a = IF i < m THEN i ELSE i + 1
      BY <1>8
    <3>2. PICK b \in 1 .. Len(s) : t[j] = s[b] /\ b = IF j < m THEN j ELSE j + 1
      BY <1>8
    <3>3. a < b
      BY <2>2, <3>1, <3>2, <1>1
    <3> QED BY <2>1, <3>1, <3>2, <3>3
  <2>3. Size(N) = Len(s) - 1 /\ \A i \in 1 .. (Len(s) - 1) : Key(N, i) = t[i][1]
    BY <1>1, <1>4, <1>5 DEF Key
  <2> QED BY <2>2, <2>3 DEF Sorted
<1> QED BY <1>4, <1>5, <1>9, <1>10, <1>11 DEF N

\* Two nodes that differ in their keys only.
OnlyKeysDiffer(n, m) ==
  /\ n \in Node /\ m \in Node /\ m.left = n.left /\ m.right = n.right /\ Size(m) = Size(n)
  /\ \A i \in 1 .. Size(n) : Addr(m, i) = Addr(n, i)

LEMMA OnlyKeysFacts ==
  ASSUME NEW n, NEW m, OnlyKeysDiffer(n, m)
  PROVE  Addresses(m) = Addresses(n) /\ (Distinct(n) => Distinct(m))
<1>1. DOMAIN n.entries = 1 .. Size(n) /\ DOMAIN m.entries = 1 .. Size(n)
  BY EntryParts DEF OnlyKeysDiffer
<1> QED BY <1>1 DEF OnlyKeysDiffer, Addresses, Distinct

\* SetKey.
LEMMA SetKeyIs ==
  ASSUME NEW n \in Node, NEW i \in 1 .. Size(n), NEW k \in SepKey
  PROVE  OnlyKeysDiffer(n, SetKey(n, i, k))
<1> DEFINE s == n.entries
           N == SetKey(n, i, k)
           t == [s EXCEPT ![i] = [@ EXCEPT ![1] = k]]
<1>1. s \in Seq(Entry) /\ Len(s) = Size(n) /\ i \in 1 .. Len(s) /\ Len(s) \in Nat
  BY EntryParts DEF Size
<1>2. N = [n EXCEPT !.entries = t]
  BY DEF SetKey
<1>3. s[i] \in Entry
  BY <1>1
<1>4. [s[i] EXCEPT ![1] = k] \in Entry /\ [s[i] EXCEPT ![1] = k][2] = s[i][2]
  BY <1>3 DEF Entry, SepKey
<1>5. t \in Seq(Entry) /\ Len(t) = Len(s) /\ \A j \in 1 .. Len(s) : t[j][2] = s[j][2]
  <2>1. t = [s EXCEPT ![i] = [s[i] EXCEPT ![1] = k]]
    BY <1>1
  <2> HIDE DEF s, t
  <2> QED BY <2>1, <1>1, <1>4
<1> HIDE DEF t, N
<1>6. N.entries = t /\ N.left = n.left /\ N.right = n.right /\ N \in Node
  BY <1>2, <1>5 DEF Node
<1> QED BY <1>1, <1>5, <1>6 DEF OnlyKeysDiffer, Size, Addr, N

\* Split shares the entries out to two nodes.
LEMMA SplitIs ==
  ASSUME NEW n \in Node, Size(n) >= 2, NEW p \in Page, NEW q \in Page
  PROVE  LET A == Split(n, p, q).this
             B == Split(n, p, q).other
         IN  /\ A \in Node /\ A.left = n.left /\ A.right = q
             /\ B \in Node /\ B.left = p /\ B.right = n.right
             /\ ~IsEmpty(A) /\ ~IsEmpty(B) /\ Size(A) < Size(n) /\ Size(B) < Size(n)
             /\ ToSet(n.entries) = ToSet(A.entries) \cup ToSet(B.entries)
             /\ Addresses(n) = Addresses(A) \cup Addresses(B)
             /\ Sorted(n) => Sorted(A) /\ Sorted(B)
             /\ Distinct(n) => /\ Distinct(A) /\ Distinct(B)
                               /\ Addresses(A) \cap Addresses(B) = {}
<1> DEFINE s == n.entries
           half == (Size(n) + 1) \div 2
           t == SubSeq(s, 1, half)
           u == SubSeq(s, half + 1, Size(n))
           A == Split(n, p, q).this
           B == Split(n, p, q).other
<1>1. s \in Seq(Entry) /\ Len(s) = Size(n) /\ Len(s) \in Nat /\ Len(s) >= 2
      /\ DOMAIN s = 1 .. Len(s) /\ \A i \in 1 .. Len(s) : s[i] \in Entry
  BY EntryParts DEF Size
<1>2. half \in 1 .. (Len(s) - 1)
  BY <1>1
<1>3. A = [n EXCEPT !.entries = t, !.right = q]
      /\ B = [entries |-> u, left |-> p, right |-> n.right]
  BY DEF Split
<1> HIDE DEF t, u, A, B, s, half
<1>4. /\ t \in Seq(Entry) /\ Len(t) = half
      /\ \A i \in 1 .. half : t[i] = s[i]
  <2>1. \A i \in 1 .. half : s[i] \in Entry
    BY <1>1, <1>2
  <2>2. 1 \in Int /\ half \in Int
    BY <1>2
  <2>3. /\ SubSeq(s, 1, half) \in Seq(Entry)
        /\ Len(SubSeq(s, 1, half)) = IF 1 <= half THEN half - 1 + 1 ELSE 0
        /\ \A i \in 1 .. (half - 1 + 1) : SubSeq(s, 1, half)[i] = s[1 + i - 1]
    BY ONLY <2>1, <2>2, SubSeqProperties
  <2> QED BY <2>3, <1>2 DEF t
<1>5. /\ u \in Seq(Entry) /\ Len(u) = Len(s) - half
      /\ \A i \in 1 .. (Len(s) - half) : u[i] = s[half + i]
  <2>1. \A i \in (half + 1) .. Len(s) : s[i] \in Entry
    BY <1>1, <1>2
  <2>2. half + 1 \in Int /\ Len(s) \in Int
    BY <1>1, <1>2
  <2>3. /\ SubSeq(s, half + 1, Len(s)) \in Seq(Entry)
        /\ Len(SubSeq(s, half + 1, Len(s))) = IF half + 1 <= Len(s) THEN Len(s) - (half + 1) + 1 ELSE 0
        /\ \A i \in 1 .. (Len(s) - (half + 1) + 1) :
             SubSeq(s, half + 1, Len(s))[i] = s[half + 1 + i - 1]
    BY ONLY <2>1, <2>2, SubSeqProperties
  <2> QED BY <2>3, <1>1, <1>2 DEF u
<1>6. /\ A \in Node /\ A.entries = t /\ A.left = n.left /\ A.right = q
      /\ B \in Node /\ B.entries = u /\ B.left = p /\ B.right = n.right
  BY <1>3, <1>4, <1>5 DEF Node
<1>7. /\ DOMAIN A.entries = 1 .. half /\ DOMAIN B.entries = 1 .. (Len(s) - half)
      /\ DOMAIN n.entries = 1 .. Len(s) /\ Size(A) = half /\ Size(B) = Len(s) - half
  BY <1>1, <1>2, <1>4, <1>5, <1>6, EntryParts DEF Size
<1>8. ~IsEmpty(A) /\ ~IsEmpty(B) /\ Size(A) < Size(n) /\ Size(B) < Size(n)
  BY <1>1, <1>2, <1>7 DEF IsEmpty
<1>9. ASSUME NEW i \in 1 .. Len(s)
      PROVE  \/ i \in 1 .. half /\ t[i] = s[i]
             \/ i - half \in 1 .. (Len(s) - half) /\ u[i - half] = s[i]
  <2>1. CASE i <= half
    BY <2>1, <1>2, <1>4
  <2>2. CASE ~ (i <= half)
    <3>1. i - half \in 1 .. (Len(s) - half) /\ half + (i - half) = i
      BY <2>2, <1>1, <1>2
    <3>2. u[i - half] = s[half + (i - half)]
      BY <3>1, <1>5
    <3> QED BY <3>1, <3>2
  <2> QED BY <2>1, <2>2
<1>10. /\ \A i \in 1 .. half : i \in 1 .. Len(s)
       /\ \A i \in 1 .. (Len(s) - half) : half + i \in 1 .. Len(s)
  BY <1>1, <1>2
<1>11. ToSet(n.entries) = ToSet(A.entries) \cup ToSet(B.entries)
  <2>1. \A i \in 1 .. Len(s) : s[i] \in {t[j] : j \in 1 .. half} \cup {u[j] : j \in 1 .. (Len(s) - half)}
    BY <1>9
  <2>2. \A j \in 1 .. half : t[j] \in {s[i] : i \in 1 .. Len(s)}
    BY <1>4, <1>10
  <2>3. \A j \in 1 .. (Len(s) - half) : u[j] \in {s[i] : i \in 1 .. Len(s)}
    BY <1>5, <1>10
  <2>4. {s[i] : i \in 1 .. Len(s)} = {t[j] : j \in 1 .. half} \cup {u[j] : j \in 1 .. (Len(s) - half)}
    BY ONLY <2>1, <2>2, <2>3
  <2> QED BY <2>4, <1>6, <1>7 DEF ToSet, s
<1>12. Addresses(n) = {s[i][2] : i \in 1 .. Len(s)}
       /\ Addresses(A) = {t[j][2] : j \in 1 .. half}
       /\ Addresses(B) = {u[j][2] : j \in 1 .. (Len(s) - half)}
  BY <1>6, <1>7 DEF Addresses, Addr, s
<1>13. Addresses(n) = Addresses(A) \cup Addresses(B)
  <2>1. \A i \in 1 .. Len(s) : s[i][2] \in {t[j][2] : j \in 1 .. half} \cup {u[j][2] : j \in 1 .. (Len(s) - half)}
    BY <1>9
  <2>2. \A j \in 1 .. half : t[j][2] \in {s[i][2] : i \in 1 .. Len(s)}
    BY <1>4, <1>10
  <2>3. \A j \in 1 .. (Len(s) - half) : u[j][2] \in {s[i][2] : i \in 1 .. Len(s)}
    BY <1>5, <1>10
  <2>4. {s[i][2] : i \in 1 .. Len(s)} = {t[j][2] : j \in 1 .. half} \cup {u[j][2] : j \in 1 .. (Len(s) - half)}
    BY ONLY <2>1, <2>2, <2>3
  <2> QED BY <2>4, <1>12
<1>14. ASSUME Distinct(n)
       PROVE  Distinct(A) /\ Distinct(B) /\ Addresses(A) \cap Addresses(B) = {}
  <2>1. \A i, j \in 1 .. Len(s) : s[i][2] = s[j][2] => i = j
    BY <1>14, <1>7 DEF Distinct, Addr, s
  <2>2. \A i, j \in 1 .. half : t[i][2] = t[j][2] => i = j
    BY <2>1, <1>4, <1>10
  <2>3. ASSUME NEW i \in 1 .. (Len(s) - half), NEW j \in 1 .. (Len(s) - half), u[i][2] = u[j][2]
        PROVE  i = j
    <3>1. half + i = half + j
      BY <2>1, <2>3, <1>5, <1>10
    <3> QED BY <3>1, <1>2
  <2>4. ASSUME NEW i \in 1 .. half, NEW j \in 1 .. (Len(s) - half) PROVE t[i][2] # u[j][2]
    <3>1. i # half + j
      BY <1>2
    <3>2. t[i] = s[i] /\ u[j] = s[half + j] /\ i \in 1 .. Len(s) /\ half + j \in 1 .. Len(s)
      BY <1>4, <1>5, <1>10
    <3> QED BY <3>1, <3>2, <2>1
  <2>5. Distinct(A)
    BY <2>2, <1>6, <1>7 DEF Distinct, Addr
  <2>6. Distinct(B)
    BY <2>3, <1>6, <1>7 DEF Distinct, Addr
  <2>7. Addresses(A) \cap Addresses(B) = {}
    BY <2>4, <1>12
  <2> QED BY <2>5, <2>6, <2>7
<1>15. ASSUME Sorted(n) PROVE Sorted(A) /\ Sorted(B)
  <2>1. \A i, j \in 1 .. Len(s) : i < j => s[i][1] < s[j][1]
    BY <1>1, <1>15 DEF Sorted, Key, s
  <2>2. \A i, j \in 1 .. half : i < j => t[i][1] < t[j][1]
    BY <2>1, <1>4, <1>10
  <2>3. ASSUME NEW i \in 1 .. (Len(s) - half), NEW j \in 1 .. (Len(s) - half), i < j
        PROVE  u[i][1] < u[j][1]
    <3>1. half + i < half + j
      BY <2>3, <1>2
    <3> QED BY <3>1, <2>1, <1>5, <1>10
  <2>4. Sorted(A)
    BY <2>2, <1>6, <1>7 DEF Sorted, Key
  <2>5. Sorted(B)
    BY <2>3, <1>6, <1>7 DEF Sorted, Key
  <2> QED BY <2>4, <2>5
<1> QED BY <1>6, <1>8, <1>11, <1>13, <1>14, <1>15 DEF A, B

-----------------------------------------------------------------------------
(* The tree.  d has the level of each page, the root's 1, and 0 for a page  *)
(* without a node; kid the pages that a node above the leaves has entered.  *)
(* A page is entered once, unless it is one of tops.                        *)

Tree(kid, d, tops) ==
  /\ d \in [Page -> Nat]
  /\ kid \in [Page -> SUBSET Page]
  /\ \A p \in Page : \A c \in kid[p] : d[p] > 0 /\ d[c] = d[p] + 1
  /\ \A p, q \in Page : \A c \in kid[p] : c \in kid[q] => p = q
  /\ tops \subseteq Page
  /\ \A c \in Page : c \in tops <=> d[c] > 0 /\ \A p \in Page : c \notin kid[p]

\* A new page takes some of the entries of a page.
LEMMA TreeSplit ==
  ASSUME NEW kid, NEW d, NEW tops, Tree(kid, d, tops),
         NEW p \in Page, NEW q \in Page, d[p] > 0, d[q] = 0,
         NEW X, NEW Y, kid[p] = X \cup Y, X \cap Y = {}
  PROVE  Tree([[kid EXCEPT ![p] = X] EXCEPT ![q] = Y], [d EXCEPT ![q] = d[p]], tops \cup {q})
<1> DEFINE k2 == [[kid EXCEPT ![p] = X] EXCEPT ![q] = Y]
           d2 == [d EXCEPT ![q] = d[p]]
<1>1. /\ d \in [Page -> Nat] /\ kid \in [Page -> SUBSET Page] /\ tops \subseteq Page
      /\ \A x \in Page : \A c \in kid[x] : d[x] > 0 /\ d[c] = d[x] + 1
      /\ \A x, y \in Page : \A c \in kid[x] : c \in kid[y] => x = y
      /\ \A c \in Page : c \in tops <=> d[c] > 0 /\ \A x \in Page : c \notin kid[x]
  BY DEF Tree
<1>2. p # q /\ kid[q] = {} /\ X \subseteq Page /\ Y \subseteq Page
  BY <1>1
<1>3. \A x \in Page : q \notin kid[x]
  BY <1>1
<1>4. /\ d2 \in [Page -> Nat] /\ k2 \in [Page -> SUBSET Page]
      /\ d2[q] = d[p] /\ \A x \in Page : x # q => d2[x] = d[x]
      /\ k2[p] = X /\ k2[q] = Y /\ \A x \in Page : x # p /\ x # q => k2[x] = kid[x]
  BY <1>1, <1>2
<1> HIDE DEF k2, d2
<1>5. ASSUME NEW x \in Page, NEW c \in k2[x] PROVE d2[x] > 0 /\ d2[c] = d2[x] + 1
  <2>1. c \in Page /\ c # q
    BY <1>2, <1>3, <1>4
  <2>2. CASE x = p
    BY <2>1, <2>2, <1>1, <1>2, <1>4
  <2>3. CASE x = q
    BY <2>1, <2>3, <1>1, <1>2, <1>4
  <2>4. CASE x # p /\ x # q
    BY <2>1, <2>4, <1>1, <1>4
  <2> QED BY <2>2, <2>3, <2>4
<1>6. ASSUME NEW x \in Page, NEW y \in Page, NEW c \in k2[x], c \in k2[y] PROVE x = y
  <2>1. ASSUME NEW z \in Page, c \in k2[z] PROVE c \in kid[IF z = q THEN p ELSE z]
    BY <2>1, <1>2, <1>4
  <2>2. (IF x = q THEN p ELSE x) = (IF y = q THEN p ELSE y)
    BY <2>1, <1>1, <1>6
  <2>3. ~ (c \in k2[p] /\ c \in k2[q])
    BY <1>4
  <2> QED BY <2>2, <2>3, <1>6
<1>7. ASSUME NEW c \in Page
      PROVE  c \in tops \cup {q} <=> d2[c] > 0 /\ \A x \in Page : c \notin k2[x]
  <2>1. CASE c = q
    BY <2>1, <1>2, <1>3, <1>4
  <2>2. CASE c # q
    <3>1. (\A x \in Page : c \notin k2[x]) <=> (\A x \in Page : c \notin kid[x])
      BY <1>2, <1>4
    <3> QED BY <2>2, <3>1, <1>1, <1>4
  <2> QED BY <2>1, <2>2
<1>8. tops \cup {q} \subseteq Page
  BY <1>1
<1>9. Tree(k2, d2, tops \cup {q})
  BY ONLY <1>4, <1>5, <1>6, <1>7, <1>8 DEF Tree
<1> QED BY <1>9 DEF k2, d2

\* A page that is entered nowhere is entered in a page of the level above it.
LEMMA TreeEnter ==
  ASSUME NEW kid, NEW d, NEW tops, Tree(kid, d, tops),
         NEW p \in Page, NEW c \in tops, d[p] > 0, d[c] = d[p] + 1
  PROVE  Tree([kid EXCEPT ![p] = @ \cup {c}], d, tops \ {c})
<1> DEFINE k2 == [kid EXCEPT ![p] = @ \cup {c}]
<1>1. k2 \in [Page -> SUBSET Page] /\ \A x \in Page : k2[x] = IF x = p THEN kid[p] \cup {c} ELSE kid[x]
  BY DEF Tree
<1> HIDE DEF k2
<1>2. Tree(k2, d, tops \ {c})
  BY <1>1 DEF Tree
<1> QED BY <1>2 DEF k2

\* The entry of a page is removed.
LEMMA TreeLeave ==
  ASSUME NEW kid, NEW d, NEW tops, Tree(kid, d, tops), NEW p \in Page, NEW c \in kid[p]
  PROVE  Tree([kid EXCEPT ![p] = @ \ {c}], d, tops \cup {c})
<1> DEFINE k2 == [kid EXCEPT ![p] = @ \ {c}]
<1>1. k2 \in [Page -> SUBSET Page] /\ \A x \in Page : k2[x] = IF x = p THEN kid[p] \ {c} ELSE kid[x]
  BY DEF Tree
<1> HIDE DEF k2
<1>2. Tree(k2, d, tops \cup {c})
  BY <1>1 DEF Tree
<1> QED BY <1>2 DEF k2

\* A page that is entered nowhere and has entered none is given up.
LEMMA TreeFree ==
  ASSUME NEW kid, NEW d, NEW tops, Tree(kid, d, tops), NEW c \in tops, kid[c] = {}
  PROVE  Tree(kid, [d EXCEPT ![c] = 0], tops \ {c})
<1> DEFINE d2 == [d EXCEPT ![c] = 0]
<1>1. d2 \in [Page -> Nat] /\ \A x \in Page : d2[x] = IF x = c THEN 0 ELSE d[x]
  BY DEF Tree
<1> HIDE DEF d2
<1>2. Tree(kid, d2, tops \ {c})
  BY <1>1 DEF Tree
<1> QED BY <1>2 DEF d2

\* A new page over the pages of the first level.
LEMMA TreeGrow ==
  ASSUME NEW kid, NEW d, NEW tops, Tree(kid, d, tops), NEW page \in Page, d[page] = 0,
         \A c \in tops : d[c] = 1
  PROVE  Tree([kid EXCEPT ![page] = tops],
              [x \in Page |-> IF x = page THEN 1 ELSE IF d[x] = 0 THEN 0 ELSE d[x] + 1], {page})
<1> DEFINE k2 == [kid EXCEPT ![page] = tops]
           d2 == [x \in Page |-> IF x = page THEN 1 ELSE IF d[x] = 0 THEN 0 ELSE d[x] + 1]
<1>1. /\ d \in [Page -> Nat] /\ kid \in [Page -> SUBSET Page] /\ tops \subseteq Page
      /\ \A x \in Page : \A c \in kid[x] : d[x] > 0 /\ d[c] = d[x] + 1
      /\ \A x, y \in Page : \A c \in kid[x] : c \in kid[y] => x = y
      /\ \A c \in Page : c \in tops <=> d[c] > 0 /\ \A x \in Page : c \notin kid[x]
  BY DEF Tree
<1>2. /\ k2 \in [Page -> SUBSET Page] /\ d2 \in [Page -> Nat]
      /\ \A x \in Page : k2[x] = IF x = page THEN tops ELSE kid[x]
      /\ \A x \in Page : d2[x] = IF x = page THEN 1 ELSE IF d[x] = 0 THEN 0 ELSE d[x] + 1
  BY <1>1
<1>3. kid[page] = {} /\ page \notin tops /\ \A x \in Page : page \notin kid[x]
  BY <1>1
<1> HIDE DEF k2, d2
<1>4. ASSUME NEW x \in Page, NEW c \in k2[x] PROVE d2[x] > 0 /\ d2[c] = d2[x] + 1
  BY <1>1, <1>2, <1>3
<1>5. ASSUME NEW x \in Page, NEW y \in Page, NEW c \in k2[x], c \in k2[y] PROVE x = y
  BY <1>1, <1>2, <1>3, <1>5
<1>6. ASSUME NEW c \in Page PROVE c \in {page} <=> d2[c] > 0 /\ \A x \in Page : c \notin k2[x]
  BY <1>1, <1>2, <1>3
<1>7. Tree(k2, d2, {page})
  BY ONLY <1>2, <1>4, <1>5, <1>6, page \in Page DEF Tree
<1> QED BY <1>7 DEF k2, d2

LEMMA PageIsNumber == Page \subseteq Nat \ {0} /\ NoPage \notin Page /\ NoPage = -1 /\ IsFiniteSet(Page)
BY IndexAssumption, FS_Interval DEF Page, NoPage

-----------------------------------------------------------------------------
(* The neighbours, lf to the left and rt to the right.  Ranks grow to the   *)
(* right, so that no level has a ring beside its chain.                     *)
Chain(lf, rt, d, rk) ==
  /\ lf \in [Page -> Page \cup {NoPage}] /\ rt \in [Page -> Page \cup {NoPage}]
  /\ d \in [Page -> Nat] /\ rk \in [Page -> Nat]
  /\ \A p \in Page : d[p] > 0 /\ rt[p] # NoPage
                       => d[rt[p]] = d[p] /\ lf[rt[p]] = p /\ rk[p] < rk[rt[p]]
  /\ \A p \in Page : d[p] > 0 /\ lf[p] # NoPage => d[lf[p]] = d[p] /\ rt[lf[p]] = p
  /\ \A p, q \in Page : d[p] > 0 /\ d[p] = d[q] /\ lf[p] = NoPage /\ lf[q] = NoPage => p = q

\* A new page becomes the right neighbour.
LEMMA ChainSplit ==
  ASSUME NEW lf, NEW rt, NEW d, NEW rk, Chain(lf, rt, d, rk),
         NEW p \in Page, NEW q \in Page, d[p] > 0, d[q] = 0,
         NEW lf2 \in [Page -> Page \cup {NoPage}], NEW rt2 \in [Page -> Page \cup {NoPage}],
         \A x \in Page : lf2[x] = IF x = q THEN p ELSE IF x = rt[p] THEN q ELSE lf[x],
         \A x \in Page : rt2[x] = IF x = q THEN rt[p] ELSE IF x = p THEN q ELSE rt[x]
  PROVE  Chain(lf2, rt2, [d EXCEPT ![q] = d[p]],
               [x \in Page |-> IF x = q THEN 2 * rk[p] + 1 ELSE 2 * rk[x]])
<1> DEFINE d2  == [d EXCEPT ![q] = d[p]]
           rk2 == [x \in Page |-> IF x = q THEN 2 * rk[p] + 1 ELSE 2 * rk[x]]
<1>1. /\ lf \in [Page -> Page \cup {NoPage}] /\ rt \in [Page -> Page \cup {NoPage}]
      /\ d \in [Page -> Nat] /\ rk \in [Page -> Nat]
      /\ \A x \in Page : d[x] > 0 /\ rt[x] # NoPage
                           => d[rt[x]] = d[x] /\ lf[rt[x]] = x /\ rk[x] < rk[rt[x]]
      /\ \A x \in Page : d[x] > 0 /\ lf[x] # NoPage => d[lf[x]] = d[x] /\ rt[lf[x]] = x
      /\ \A x, y \in Page : d[x] > 0 /\ d[x] = d[y] /\ lf[x] = NoPage /\ lf[y] = NoPage => x = y
  BY DEF Chain
<1>2. /\ d2 \in [Page -> Nat] /\ rk2 \in [Page -> Nat]
      /\ d2[q] = d[p] /\ \A x \in Page : x # q => d2[x] = d[x]
      /\ rk2[q] = 2 * rk[p] + 1 /\ \A x \in Page : x # q => rk2[x] = 2 * rk[x]
  BY <1>1
<1>3. p # q /\ NoPage \notin Page
  BY PageIsNumber
<1> HIDE DEF d2, rk2
<1>4. \A x \in Page : d[x] > 0 => lf[x] # q /\ rt[x] # q
  BY <1>1, <1>3
<1>5. ASSUME NEW x \in Page, d2[x] > 0, rt2[x] # NoPage
      PROVE  d2[rt2[x]] = d2[x] /\ lf2[rt2[x]] = x /\ rk2[x] < rk2[rt2[x]]
  <2>1. CASE x = q
    <3>1. rt2[x] = rt[p] /\ rt[p] \in Page /\ rt[p] # q
      BY <2>1, <1>1, <1>3, <1>4, <1>5
    <3>2. d[rt[p]] = d[p] /\ rk[p] < rk[rt[p]]
      BY <3>1, <1>1, <1>3
    <3> QED BY <2>1, <3>1, <3>2, <1>1, <1>2
  <2>2. CASE x = p
    <3>1. rt2[x] = q /\ lf2[q] = p
      BY <2>2, <1>3
    <3> QED BY <2>2, <3>1, <1>1, <1>2, <1>3
  <2>3. CASE x # q /\ x # p
    <3>1. rt2[x] = rt[x] /\ d[x] > 0 /\ rt[x] \in Page
      BY <2>3, <1>1, <1>2, <1>5
    <3>2. d[rt[x]] = d[x] /\ lf[rt[x]] = x /\ rk[x] < rk[rt[x]] /\ rt[x] # q
      BY <3>1, <1>1, <1>3, <1>4
    <3>3. rt[x] # rt[p]
      BY <2>3, <3>1, <3>2, <1>1, <1>3
    <3> QED BY <2>3, <3>1, <3>2, <3>3, <1>1, <1>2
  <2> QED BY <2>1, <2>2, <2>3
<1>6. ASSUME NEW x \in Page, d2[x] > 0, lf2[x] # NoPage
      PROVE  d2[lf2[x]] = d2[x] /\ rt2[lf2[x]] = x
  <2>1. CASE x = q
    BY <2>1, <1>2, <1>3
  <2>2. CASE x # q /\ x = rt[p]
    <3>1. lf2[x] = q /\ d[x] = d[p]
      BY <2>2, <1>1, <1>3
    <3> QED BY <2>2, <3>1, <1>2
  <2>3. CASE x # q /\ x # rt[p]
    <3>1. lf2[x] = lf[x] /\ d[x] > 0 /\ lf[x] \in Page /\ lf[x] # q
      BY <2>3, <1>1, <1>2, <1>4, <1>6
    <3>2. d[lf[x]] = d[x] /\ rt[lf[x]] = x
      BY <3>1, <1>1, <1>3
    <3>3. lf[x] # p
      BY <2>3, <3>2
    <3> QED BY <2>3, <3>1, <3>2, <3>3, <1>2
  <2> QED BY <2>1, <2>2, <2>3
<1>7. ASSUME NEW x \in Page, NEW y \in Page, d2[x] > 0, d2[x] = d2[y],
             lf2[x] = NoPage, lf2[y] = NoPage
      PROVE  x = y
  <2>1. ASSUME NEW z \in Page, lf2[z] = NoPage PROVE z # q /\ lf[z] = NoPage
    BY <2>1, <1>3
  <2> QED BY <2>1, <1>1, <1>2, <1>7
<1>8. Chain(lf2, rt2, d2, rk2)
  BY ONLY <1>2, <1>5, <1>6, <1>7, lf2 \in [Page -> Page \cup {NoPage}],
          rt2 \in [Page -> Page \cup {NoPage}] DEF Chain
<1> QED BY <1>8 DEF d2, rk2

\* A page is taken out of its chain.
LEMMA ChainFree ==
  ASSUME NEW lf, NEW rt, NEW d, NEW rk, Chain(lf, rt, d, rk), NEW p \in Page, d[p] > 0,
         NEW lf2 \in [Page -> Page \cup {NoPage}], NEW rt2 \in [Page -> Page \cup {NoPage}],
         \A x \in Page : x # p => lf2[x] = IF x = rt[p] THEN lf[p] ELSE lf[x],
         \A x \in Page : x # p => rt2[x] = IF x = lf[p] THEN rt[p] ELSE rt[x]
  PROVE  Chain(lf2, rt2, [d EXCEPT ![p] = 0], rk)
<1> DEFINE d2  == [d EXCEPT ![p] = 0]
<1>1. /\ lf \in [Page -> Page \cup {NoPage}] /\ rt \in [Page -> Page \cup {NoPage}]
      /\ d \in [Page -> Nat] /\ rk \in [Page -> Nat]
      /\ \A x \in Page : d[x] > 0 /\ rt[x] # NoPage
                           => d[rt[x]] = d[x] /\ lf[rt[x]] = x /\ rk[x] < rk[rt[x]]
      /\ \A x \in Page : d[x] > 0 /\ lf[x] # NoPage => d[lf[x]] = d[x] /\ rt[lf[x]] = x
      /\ \A x, y \in Page : d[x] > 0 /\ d[x] = d[y] /\ lf[x] = NoPage /\ lf[y] = NoPage => x = y
  BY DEF Chain
<1>2. /\ d2 \in [Page -> Nat] /\ d2[p] = 0 /\ \A x \in Page : x # p => d2[x] = d[x]
  BY <1>1
<1>3. NoPage \notin Page
  BY PageIsNumber
<1> HIDE DEF d2
\* The page is no neighbour of itself, and has two different ones.
<1>4. rt[p] # p /\ lf[p] # p
  BY <1>1, <1>3
<1>5. rt[p] # NoPage /\ lf[p] # NoPage => rk[lf[p]] < rk[p] /\ rk[p] < rk[rt[p]]
  <2>1. lf[p] # NoPage => lf[p] \in Page /\ d[lf[p]] = d[p] /\ rt[lf[p]] = p
    BY <1>1
  <2> QED BY <2>1, <1>1, <1>3
<1>6. ASSUME NEW x \in Page, d2[x] > 0, rt2[x] # NoPage
      PROVE  d2[rt2[x]] = d2[x] /\ lf2[rt2[x]] = x /\ rk[x] < rk[rt2[x]]
  <2>0. x # p /\ d2[x] = d[x]
    BY <1>2, <1>6
  <2>1. CASE x = lf[p]
    <3>1. rt2[x] = rt[p] /\ rt[p] \in Page /\ rt[p] # p
      BY <2>0, <2>1, <1>1, <1>4, <1>6
    <3>2. d[x] = d[p] /\ d[rt[p]] = d[p] /\ rk[x] < rk[p] /\ rk[p] < rk[rt[p]]
      BY <2>1, <3>1, <1>1, <1>3, <1>5
    <3>3. lf2[rt[p]] = lf[p]
      BY <3>1
    <3>4. rk[x] \in Nat /\ rk[p] \in Nat /\ rk[rt[p]] \in Nat
      BY <1>1, <3>1
    <3> QED BY <2>0, <2>1, <3>1, <3>2, <3>3, <3>4, <1>2
  <2>2. CASE x # lf[p]
    <3>1. rt2[x] = rt[x] /\ rt[x] \in Page
      BY <2>0, <2>2, <1>1, <1>6
    <3>2. d[rt[x]] = d[x] /\ lf[rt[x]] = x /\ rk[x] < rk[rt[x]]
      BY <2>0, <3>1, <1>1, <1>3, <1>6
    <3>3. rt[x] # p /\ rt[x] # rt[p]
      BY <2>0, <2>2, <3>1, <3>2, <1>1, <1>3
    <3> QED BY <2>0, <3>1, <3>2, <3>3, <1>2
  <2> QED BY <2>1, <2>2
<1>7. ASSUME NEW x \in Page, d2[x] > 0, lf2[x] # NoPage
      PROVE  d2[lf2[x]] = d2[x] /\ rt2[lf2[x]] = x
  <2>0. x # p /\ d2[x] = d[x]
    BY <1>2, <1>7
  <2>1. CASE x = rt[p]
    <3>1. lf2[x] = lf[p] /\ lf[p] \in Page /\ lf[p] # p
      BY <2>0, <2>1, <1>1, <1>4, <1>7
    <3>2. d[x] = d[p] /\ d[lf[p]] = d[p]
      BY <2>1, <3>1, <1>1, <1>3
    <3>3. rt2[lf[p]] = rt[p]
      BY <3>1
    <3> QED BY <2>0, <2>1, <3>1, <3>2, <3>3, <1>2
  <2>2. CASE x # rt[p]
    <3>1. lf2[x] = lf[x] /\ lf[x] \in Page
      BY <2>0, <2>2, <1>1, <1>7
    <3>2. d[lf[x]] = d[x] /\ rt[lf[x]] = x
      BY <2>0, <3>1, <1>1, <1>3, <1>7
    <3>3. lf[x] # p /\ lf[x] # lf[p]
      BY <2>0, <2>2, <3>1, <3>2, <1>1, <1>3
    <3> QED BY <2>0, <3>1, <3>2, <3>3, <1>2
  <2> QED BY <2>1, <2>2
<1>8. ASSUME NEW x \in Page, NEW y \in Page, d2[x] > 0, d2[x] = d2[y],
             lf2[x] = NoPage, lf2[y] = NoPage
      PROVE  x = y
  <2>1. x # p /\ y # p /\ d[x] = d2[x] /\ d[y] = d2[y]
    BY <1>2, <1>8
  <2>2. ASSUME NEW z \in Page, z # p, lf2[z] = NoPage
        PROVE  IF z = rt[p] THEN lf[p] = NoPage ELSE lf[z] = NoPage
    BY <2>2
  <2>3. ASSUME NEW z \in Page, z = rt[p] PROVE d[z] = d[p]
    BY <2>3, <1>1, <1>3
  <2>4. CASE x = rt[p] /\ y # rt[p]
    <3>1. lf[p] = NoPage /\ lf[y] = NoPage /\ d[y] = d[p]
      BY <2>1, <2>2, <2>3, <2>4, <1>8
    <3> QED BY <3>1, <2>1, <1>1
  <2>5. CASE y = rt[p] /\ x # rt[p]
    <3>1. lf[p] = NoPage /\ lf[x] = NoPage /\ d[x] = d[p]
      BY <2>1, <2>2, <2>3, <2>5, <1>8
    <3> QED BY <3>1, <2>1, <1>1
  <2>6. CASE x # rt[p] /\ y # rt[p]
    BY <2>1, <2>2, <2>6, <1>1, <1>8
  <2>7. CASE x = rt[p] /\ y = rt[p]
    BY <2>7
  <2> QED BY <2>4, <2>5, <2>6, <2>7
<1>9. rk \in [Page -> Nat]
  BY <1>1
<1>10. Chain(lf2, rt2, d2, rk)
  BY ONLY <1>2, <1>6, <1>7, <1>8, <1>9, lf2 \in [Page -> Page \cup {NoPage}],
          rt2 \in [Page -> Page \cup {NoPage}] DEF Chain
<1> QED BY <1>10 DEF d2

\* A new page is a level of its own over the others.
LEMMA ChainGrow ==
  ASSUME NEW lf, NEW rt, NEW d, NEW rk, Chain(lf, rt, d, rk), NEW page \in Page, d[page] = 0,
         NEW lf2 \in [Page -> Page \cup {NoPage}], NEW rt2 \in [Page -> Page \cup {NoPage}],
         \A x \in Page : lf2[x] = IF x = page THEN NoPage ELSE lf[x],
         \A x \in Page : rt2[x] = IF x = page THEN NoPage ELSE rt[x]
  PROVE  Chain(lf2, rt2,
               [x \in Page |-> IF x = page THEN 1 ELSE IF d[x] = 0 THEN 0 ELSE d[x] + 1], rk)
<1> DEFINE d2 == [x \in Page |-> IF x = page THEN 1 ELSE IF d[x] = 0 THEN 0 ELSE d[x] + 1]
<1>1. /\ lf \in [Page -> Page \cup {NoPage}] /\ rt \in [Page -> Page \cup {NoPage}]
      /\ d \in [Page -> Nat] /\ rk \in [Page -> Nat]
      /\ \A x \in Page : d[x] > 0 /\ rt[x] # NoPage
                           => d[rt[x]] = d[x] /\ lf[rt[x]] = x /\ rk[x] < rk[rt[x]]
      /\ \A x \in Page : d[x] > 0 /\ lf[x] # NoPage => d[lf[x]] = d[x] /\ rt[lf[x]] = x
      /\ \A x, y \in Page : d[x] > 0 /\ d[x] = d[y] /\ lf[x] = NoPage /\ lf[y] = NoPage => x = y
  BY DEF Chain
<1>2. d2 \in [Page -> Nat]
      /\ \A x \in Page : d2[x] = IF x = page THEN 1 ELSE IF d[x] = 0 THEN 0 ELSE d[x] + 1
  BY <1>1
<1>3. NoPage \notin Page
  BY PageIsNumber
<1> HIDE DEF d2
<1>4. ASSUME NEW x \in Page, d2[x] > 0, rt2[x] # NoPage
      PROVE  d2[rt2[x]] = d2[x] /\ lf2[rt2[x]] = x /\ rk[x] < rk[rt2[x]]
  <2>1. x # page /\ d[x] > 0 /\ rt2[x] = rt[x] /\ rt[x] \in Page /\ d2[x] = d[x] + 1
    BY <1>1, <1>2, <1>4
  <2>2. d[rt[x]] = d[x] /\ lf[rt[x]] = x /\ rk[x] < rk[rt[x]] /\ rt[x] # page
    BY <2>1, <1>1, <1>3
  <2> QED BY <2>1, <2>2, <1>1, <1>2
<1>5. ASSUME NEW x \in Page, d2[x] > 0, lf2[x] # NoPage
      PROVE  d2[lf2[x]] = d2[x] /\ rt2[lf2[x]] = x
  <2>1. x # page /\ d[x] > 0 /\ lf2[x] = lf[x] /\ lf[x] \in Page /\ d2[x] = d[x] + 1
    BY <1>1, <1>2, <1>5
  <2>2. d[lf[x]] = d[x] /\ rt[lf[x]] = x /\ lf[x] # page
    BY <2>1, <1>1, <1>3
  <2> QED BY <2>1, <2>2, <1>1, <1>2
<1>6. ASSUME NEW x \in Page, NEW y \in Page, d2[x] > 0, d2[x] = d2[y],
             lf2[x] = NoPage, lf2[y] = NoPage
      PROVE  x = y
  <2>1. ASSUME NEW z \in Page, d2[z] > 0, z # page PROVE d2[z] = d[z] + 1 /\ d[z] > 0 /\ lf2[z] = lf[z]
    BY <2>1, <1>1, <1>2
  <2>2. d2[page] = 1
    BY <1>2
  <2>3. d[x] \in Nat /\ d[y] \in Nat
    BY <1>1
  <2> QED BY <2>1, <2>2, <2>3, <1>1, <1>6
<1>7. Chain(lf2, rt2, d2, rk)
  BY ONLY <1>1, <1>2, <1>4, <1>5, <1>6, lf2 \in [Page -> Page \cup {NoPage}],
          rt2 \in [Page -> Page \cup {NoPage}] DEF Chain
<1> QED BY <1>7 DEF d2

-----------------------------------------------------------------------------
(* The pages nd of an index of height h, with levels d and ranks rk.  A page *)
(* of tops is entered nowhere: the root and, half-way through an insert or a *)
(* delete, the page to be entered or given up next.                          *)
Nodes      == [Page -> Node \cup {None}]
Live(nd)   == {p \in Page : nd[p] # None}
Kids(nd, d, h) == [p \in Page |-> IF d[p] > 0 /\ d[p] < h THEN Addresses(nd[p]) ELSE {}]
Lefts(nd)  == [p \in Page |-> IF nd[p] = None THEN NoPage ELSE nd[p].left]
Rights(nd) == [p \in Page |-> IF nd[p] = None THEN NoPage ELSE nd[p].right]

Shape(nd, d, rk, h, tops) ==
  /\ h \in Nat \ {0} /\ nd \in Nodes /\ d \in [Page -> 0 .. h]
  /\ \A p \in Page : d[p] = 0 <=> nd[p] = None
  /\ \A p \in Live(nd) : /\ Size(nd[p]) <= Capacity
                         /\ d[p] < h => Distinct(nd[p])
  /\ Tree(Kids(nd, d, h), d, tops)
  /\ Chain(Lefts(nd), Rights(nd), d, rk)

LEMMA LiveNode ==
  ASSUME NEW nd, NEW d, NEW rk, NEW h, NEW tops, Shape(nd, d, rk, h, tops), NEW p \in Page
  PROVE  /\ d[p] \in 0 .. h
         /\ nd[p] # None <=> d[p] > 0
         /\ nd[p] # None => nd[p] \in Node /\ Size(nd[p]) <= Capacity /\ (d[p] < h => Distinct(nd[p]))
BY DEF Shape, Nodes, Live

\* One node changes, not its neighbours.
LEMMA ShapeNode ==
  ASSUME NEW nd, NEW d, NEW rk, NEW h, NEW tops, Shape(nd, d, rk, h, tops),
         NEW p \in Page, d[p] > 0, NEW n \in Node, n.left = nd[p].left, n.right = nd[p].right,
         Size(n) <= Capacity, d[p] < h => Distinct(n), NEW others,
         Tree([Kids(nd, d, h) EXCEPT ![p] = IF d[p] < h THEN Addresses(n) ELSE {}], d, others)
  PROVE  Shape([nd EXCEPT ![p] = n], d, rk, h, others)
<1> DEFINE nd2 == [nd EXCEPT ![p] = n]
<1>1. nd \in Nodes /\ d \in [Page -> 0 .. h] /\ h \in Nat \ {0} /\ nd[p] # None /\ n # None
  BY NoneAssumption DEF Shape
<1>2. nd2 \in Nodes /\ nd2[p] = n /\ \A x \in Page : x # p => nd2[x] = nd[x]
  BY <1>1 DEF Nodes
<1> HIDE DEF nd2
<1>3. \A x \in Page : d[x] = 0 <=> nd2[x] = None
  BY <1>1, <1>2 DEF Shape
<1>4. \A x \in Live(nd2) : Size(nd2[x]) <= Capacity /\ (d[x] < h => Distinct(nd2[x]))
  BY <1>2 DEF Shape, Live
<1>5. Kids(nd2, d, h) = [Kids(nd, d, h) EXCEPT ![p] = IF d[p] < h THEN Addresses(n) ELSE {}]
  BY <1>2 DEF Kids
<1>6. Lefts(nd2) = Lefts(nd) /\ Rights(nd2) = Rights(nd)
  <2>1. \A x \in Page : /\ (IF nd2[x] = None THEN NoPage ELSE nd2[x].left) = IF nd[x] = None THEN NoPage ELSE nd[x].left
                        /\ (IF nd2[x] = None THEN NoPage ELSE nd2[x].right) = IF nd[x] = None THEN NoPage ELSE nd[x].right
    BY <1>1, <1>2
  <2> QED BY <2>1 DEF Lefts, Rights
<1>7. Shape(nd2, d, rk, h, others)
  BY <1>1, <1>2, <1>3, <1>4, <1>5, <1>6 DEF Shape
<1> QED BY <1>7 DEF nd2

\* Keys change.
RecordsKept(nd, m, d, h) ==
  /\ m \in Nodes
  /\ \A p \in Page : /\ nd[p] = None <=> m[p] = None
                     /\ d[p] = h => m[p] = nd[p]
                     /\ nd[p] # None => OnlyKeysDiffer(nd[p], m[p])

LEMMA ShapeKeys ==
  ASSUME NEW nd, NEW d, NEW rk, NEW h, NEW tops, Shape(nd, d, rk, h, tops),
         NEW m, RecordsKept(nd, m, d, h)
  PROVE  Shape(m, d, rk, h, tops)
<1>1. \A x \in Page : d[x] = 0 <=> m[x] = None
  BY DEF Shape, RecordsKept
<1>2. \A x \in Live(m) : Size(m[x]) <= Capacity /\ (d[x] < h => Distinct(m[x]))
  BY OnlyKeysFacts DEF Shape, Live, RecordsKept, OnlyKeysDiffer
<1>3. Kids(m, d, h) = Kids(nd, d, h)
  <2>1. \A x \in Page : d[x] > 0 => Addresses(m[x]) = Addresses(nd[x])
    BY OnlyKeysFacts DEF Shape, RecordsKept
  <2> QED BY <2>1 DEF Kids
<1>4. Lefts(m) = Lefts(nd) /\ Rights(m) = Rights(nd)
  <2>1. \A x \in Page : /\ (IF m[x] = None THEN NoPage ELSE m[x].left) = IF nd[x] = None THEN NoPage ELSE nd[x].left
                        /\ (IF m[x] = None THEN NoPage ELSE m[x].right) = IF nd[x] = None THEN NoPage ELSE nd[x].right
    BY DEF RecordsKept, OnlyKeysDiffer
  <2> QED BY <2>1 DEF Lefts, Rights
<1>5. m \in Nodes
  BY DEF RecordsKept
<1> QED BY <1>1, <1>2, <1>3, <1>4, <1>5 DEF Shape

\* A page p is split, and page q gets its upper half.
SplitTo(nd, p, q) ==
  LinkedBack([nd EXCEPT ![p] = Split(nd[p], p, q).this, ![q] = Split(nd[p], p, q).other],
             nd[p].right, q)

LEMMA SplitToIs ==
  ASSUME NEW nd, NEW d, NEW rk, NEW h, NEW tops, Shape(nd, d, rk, h, tops),
         NEW p \in Page, NEW q \in Page, d[p] > 0, d[q] = 0, Size(nd[p]) >= 2
  PROVE  LET A == Split(nd[p], p, q).this
             B == Split(nd[p], p, q).other
             r == nd[p].right
             m == SplitTo(nd, p, q)
         IN  /\ p # q /\ r # p /\ r # q /\ (r \in Page => nd[r] # None) /\ r \in Page \cup {NoPage}
             /\ m \in Nodes /\ m[p] = A /\ m[q] = B
             /\ \A x \in Page \ {p, q} : m[x] = IF x = r THEN [nd[x] EXCEPT !.left = q] ELSE nd[x]
<1> DEFINE A == Split(nd[p], p, q).this
           B == Split(nd[p], p, q).other
           r == nd[p].right
           m == SplitTo(nd, p, q)
           m1 == [nd EXCEPT ![p] = A, ![q] = B]
<1>1. nd[p] \in Node /\ nd[q] = None /\ nd[p] # None /\ nd \in Nodes
  BY LiveNode DEF Shape
<1>2. A \in Node /\ B \in Node /\ r \in Page \cup {NoPage} /\ p # q
  BY <1>1, SplitIs DEF Node
<1>3. m = LinkedBack(m1, r, q)
  BY DEF SplitTo
<1> HIDE DEF A, B, m
<1>4. m1 \in Nodes /\ m1[p] = A /\ m1[q] = B /\ \A x \in Page \ {p, q} : m1[x] = nd[x]
  BY <1>1, <1>2 DEF Nodes
<1> HIDE DEF m1
<1>5. r \in Page => d[r] = d[p] /\ r # p
  <2>1. Rights(nd)[p] = r
    BY <1>1 DEF Rights
  <2>2. r \in Page => d[r] = d[p] /\ rk[p] < rk[r] /\ rk \in [Page -> Nat]
    BY <2>1, PageIsNumber DEF Shape, Chain
  <2> QED BY <2>2
<1>6. r # p /\ r # q /\ (r \in Page => nd[r] # None /\ nd[r] \in Node)
  BY <1>2, <1>5, LiveNode, PageIsNumber
<1>7. CASE r = NoPage
  <2>1. m = m1
    BY <1>3, <1>7 DEF LinkedBack
  <2>2. \A x \in Page : x # r
    BY <1>7, PageIsNumber
  <2> QED BY <2>1, <2>2, <1>2, <1>4, <1>6 DEF A, B, m
<1>8. CASE r \in Page
  <2>1. m = [m1 EXCEPT ![r] = [m1[r] EXCEPT !.left = q]]
    BY <1>3, <1>8, PageIsNumber DEF LinkedBack
  <2>2. m1[r] = nd[r] /\ [nd[r] EXCEPT !.left = q] \in Node
    BY <1>4, <1>6, <1>8 DEF Node
  <2>3. m \in Nodes /\ m[r] = [nd[r] EXCEPT !.left = q] /\ \A x \in Page : x # r => m[x] = m1[x]
    BY <2>1, <2>2, <1>4, <1>8 DEF Nodes
  <2> QED BY <2>3, <1>2, <1>4, <1>6 DEF A, B, m
<1> QED BY <1>2, <1>7, <1>8

LEMMA ShapeSplit ==
  ASSUME NEW nd, NEW d, NEW rk, NEW h, NEW tops, Shape(nd, d, rk, h, tops),
         NEW p \in Page, NEW q \in Page, d[p] > 0, d[q] = 0, Size(nd[p]) >= 2
  PROVE  Shape(SplitTo(nd, p, q), [d EXCEPT ![q] = d[p]],
               [x \in Page |-> IF x = q THEN 2 * rk[p] + 1 ELSE 2 * rk[x]], h, tops \cup {q})
<1> DEFINE A == Split(nd[p], p, q).this
           B == Split(nd[p], p, q).other
           r == nd[p].right
           m == SplitTo(nd, p, q)
           d2 == [d EXCEPT ![q] = d[p]]
           rk2 == [x \in Page |-> IF x = q THEN 2 * rk[p] + 1 ELSE 2 * rk[x]]
           k == Kids(nd, d, h)
           X == IF d[p] < h THEN Addresses(A) ELSE {}
           Y == IF d[p] < h THEN Addresses(B) ELSE {}
<1>1. /\ nd[p] \in Node /\ nd[q] = None /\ nd[p] # None /\ nd \in Nodes
      /\ h \in Nat \ {0} /\ d \in [Page -> 0 .. h] /\ Size(nd[p]) <= Capacity
      /\ d[p] < h => Distinct(nd[p])
  BY LiveNode DEF Shape
<1>2. /\ p # q /\ r # p /\ r # q /\ (r \in Page => nd[r] # None) /\ r \in Page \cup {NoPage}
      /\ m \in Nodes /\ m[p] = A /\ m[q] = B
      /\ \A x \in Page \ {p, q} : m[x] = IF x = r THEN [nd[x] EXCEPT !.left = q] ELSE nd[x]
  BY SplitToIs
<1>3. /\ A \in Node /\ A.left = nd[p].left /\ A.right = q
      /\ B \in Node /\ B.left = p /\ B.right = r
      /\ Size(A) < Size(nd[p]) /\ Size(B) < Size(nd[p])
      /\ Addresses(nd[p]) = Addresses(A) \cup Addresses(B)
      /\ Distinct(nd[p]) => Distinct(A) /\ Distinct(B) /\ Addresses(A) \cap Addresses(B) = {}
  <2> DEFINE n == nd[p]
  <2>1. n \in Node /\ Size(n) >= 2 /\ A = Split(n, p, q).this /\ B = Split(n, p, q).other
    BY <1>1
  <2>2. r = n.right
    OBVIOUS
  <2> HIDE DEF n, A, B, r
  <2>3. /\ A \in Node /\ A.left = n.left /\ A.right = q
        /\ B \in Node /\ B.left = p /\ B.right = n.right
        /\ Size(A) < Size(n) /\ Size(B) < Size(n)
        /\ Addresses(n) = Addresses(A) \cup Addresses(B)
        /\ Distinct(n) => Distinct(A) /\ Distinct(B) /\ Addresses(A) \cap Addresses(B) = {}
    BY ONLY <2>1, p \in Page, q \in Page, SplitIs
  <2> QED BY <2>2, <2>3 DEF n
<1>4. A # None /\ B # None
  BY <1>3, NoneAssumption
<1> HIDE DEF A, B, m
<1>5. d2 \in [Page -> 0 .. h] /\ d2[q] = d[p] /\ \A x \in Page : x # q => d2[x] = d[x]
  BY <1>1
<1>6. r \in Page => /\ nd[r] \in Node /\ m[r] = [nd[r] EXCEPT !.left = q] /\ m[r] \in Node
                    /\ m[r].right = nd[r].right /\ m[r].left = q /\ m[r].entries = nd[r].entries
  <2>1. r \in Page => nd[r] \in Node
    BY <1>2, LiveNode
  <2> QED BY <2>1, <1>2 DEF Node
<1>7. r \in Page => Addresses(m[r]) = Addresses(nd[r]) /\ Size(m[r]) = Size(nd[r])
                    /\ (Distinct(nd[r]) => Distinct(m[r])) /\ m[r] # None
  BY <1>6, NoneAssumption DEF Addresses, Addr, Size, Distinct
<1>8. \A x \in Page : d2[x] = 0 <=> m[x] = None
  <2>1. \A x \in Page : d[x] = 0 <=> nd[x] = None
    BY DEF Shape
  <2> QED BY <2>1, <1>1, <1>2, <1>4, <1>5, <1>7
<1>9. ASSUME NEW x \in Page, m[x] # None
      PROVE  Size(m[x]) <= Capacity /\ (d2[x] < h => Distinct(m[x]))
  <2>1. CASE x \in {p, q}
    <3>1. Size(nd[p]) \in Nat /\ Size(A) \in Nat /\ Size(B) \in Nat /\ Capacity \in Nat
      BY <1>1, <1>3, EntryParts, NodeAssumption
    <3> QED BY <2>1, <3>1, <1>1, <1>2, <1>3, <1>5
  <2>2. CASE x \notin {p, q}
    <3>1. nd[x] # None /\ d2[x] = d[x]
      BY <2>2, <1>2, <1>5, <1>9
    <3>2. Size(nd[x]) <= Capacity /\ (d[x] < h => Distinct(nd[x]))
      BY <3>1, LiveNode
    <3> QED BY <2>2, <3>1, <3>2, <1>2, <1>7
  <2> QED BY <2>1, <2>2
<1>10. Kids(m, d2, h) = [[k EXCEPT ![p] = X] EXCEPT ![q] = Y]
  <2>1. k \in [Page -> SUBSET Page]
    BY DEF Shape, Tree
  <2>2. ASSUME NEW x \in Page
        PROVE  (IF d2[x] > 0 /\ d2[x] < h THEN Addresses(m[x]) ELSE {})
                 = IF x = q THEN Y ELSE IF x = p THEN X ELSE k[x]
    <3>1. CASE x \in {p, q}
      BY <3>1, <1>1, <1>2, <1>5
    <3>2. CASE x \notin {p, q}
      <4>1. k[x] = IF d[x] > 0 /\ d[x] < h THEN Addresses(nd[x]) ELSE {}
        BY DEF Kids
      <4>2. Addresses(m[x]) = Addresses(nd[x]) /\ d2[x] = d[x]
        BY <3>2, <1>2, <1>5, <1>7
      <4> HIDE DEF k
      <4> QED BY <3>2, <4>1, <4>2
    <3> QED BY <3>1, <3>2
  <2>3. Kids(m, d2, h) = [x \in Page |-> IF x = q THEN Y ELSE IF x = p THEN X ELSE k[x]]
    BY <2>2 DEF Kids
  <2>4. [[k EXCEPT ![p] = X] EXCEPT ![q] = Y] = [x \in Page |-> IF x = q THEN Y ELSE IF x = p THEN X ELSE k[x]]
    <3> HIDE DEF k, X, Y
    <3> QED BY <2>1
  <2> QED BY <2>3, <2>4
<1>11. Tree(Kids(m, d2, h), d2, tops \cup {q})
  <2>1. k[p] = X \cup Y /\ X \cap Y = {}
    BY <1>1, <1>3 DEF Kids
  <2>2. Tree(k, d, tops)
    BY DEF Shape
  <2> HIDE DEF k, X, Y
  <2>3. Tree([[k EXCEPT ![p] = X] EXCEPT ![q] = Y], [d EXCEPT ![q] = d[p]], tops \cup {q})
    BY <2>1, <2>2, TreeSplit
  <2> QED BY <2>3, <1>10
<1>12. Chain(Lefts(m), Rights(m), d2, rk2)
  <2> DEFINE lf == Lefts(nd)
             rt == Rights(nd)
             lf2 == Lefts(m)
             rt2 == Rights(m)
  <2>1. Chain(lf, rt, d, rk)
    BY DEF Shape
  <2>2. rt[p] = r
    BY <1>1 DEF Rights
  <2>3. lf2 \in [Page -> Page \cup {NoPage}] /\ rt2 \in [Page -> Page \cup {NoPage}]
    BY <1>2 DEF Lefts, Rights, Nodes, Node
  <2>4. ASSUME NEW x \in Page PROVE lf2[x] = IF x = q THEN p ELSE IF x = r THEN q ELSE lf[x]
    <3>1. CASE x \in {p, q}
      BY <3>1, <1>1, <1>2, <1>3, <1>4 DEF Lefts
    <3>2. CASE x \notin {p, q}
      BY <3>2, <1>2, <1>6, <1>7 DEF Lefts
    <3> QED BY <3>1, <3>2
  <2>5. ASSUME NEW x \in Page PROVE rt2[x] = IF x = q THEN r ELSE IF x = p THEN q ELSE rt[x]
    <3>1. CASE x \in {p, q}
      BY <3>1, <1>1, <1>2, <1>3, <1>4 DEF Rights
    <3>2. CASE x \notin {p, q}
      BY <3>2, <1>2, <1>6, <1>7 DEF Rights
    <3> QED BY <3>1, <3>2
  <2> HIDE DEF lf, rt, lf2, rt2
  <2>6. Chain(lf2, rt2, [d EXCEPT ![q] = d[p]],
               [x \in Page |-> IF x = q THEN 2 * rk[p] + 1 ELSE 2 * rk[x]])
    <3>1. \A x \in Page : lf2[x] = IF x = q THEN p ELSE IF x = rt[p] THEN q ELSE lf[x]
      BY <2>2, <2>4
    <3>2. \A x \in Page : rt2[x] = IF x = q THEN rt[p] ELSE IF x = p THEN q ELSE rt[x]
      BY <2>2, <2>5
    <3> QED BY ONLY <2>1, <2>3, <3>1, <3>2, d[p] > 0, d[q] = 0, p \in Page, q \in Page, ChainSplit
  <2> QED BY <2>6 DEF lf2, rt2
<1>13. Shape(m, d2, rk2, h, tops \cup {q})
  <2>1. \A x \in Live(m) : Size(m[x]) <= Capacity /\ (d2[x] < h => Distinct(m[x]))
    BY <1>9 DEF Live
  <2>2. h \in Nat \ {0} /\ m \in Nodes
    BY <1>1, <1>2
  <2> HIDE DEF d2, rk2
  <2> QED BY ONLY <2>1, <2>2, <1>5, <1>8, <1>11, <1>12 DEF Shape
<1> QED BY <1>13 DEF m

\* A page is given up: its neighbours are linked to each other.
LEMMA TakenOutIs ==
  ASSUME NEW nd, NEW d, NEW rk, NEW h, NEW tops, Shape(nd, d, rk, h, tops),
         NEW p \in Page, d[p] > 0
  PROVE  LET m == TakenOut(nd, p)
             l == nd[p].left
             r == nd[p].right
         IN  /\ m \in Nodes /\ m[p] = None
             /\ \A x \in Page \ {p} : /\ m[x] = None <=> nd[x] = None
                                      /\ nd[x] # None => /\ m[x].entries = nd[x].entries
                                                         /\ m[x].left = IF x = r THEN l ELSE nd[x].left
                                                         /\ m[x].right = IF x = l THEN r ELSE nd[x].right
             /\ \A x \in Page \ {p} : x # l /\ x # r => m[x] = nd[x]
             /\ l \in Page => d[l] = d[p]
             /\ r \in Page => d[r] = d[p]
<1> DEFINE m == TakenOut(nd, p)
           l == nd[p].left
           r == nd[p].right
<1>1. nd[p] \in Node /\ nd[p] # None /\ nd \in Nodes
  BY LiveNode DEF Shape
<1>2. l \in Page \cup {NoPage} /\ r \in Page \cup {NoPage} /\ NoPage \notin Page
  BY <1>1, PageIsNumber DEF Node
<1>3. /\ l \in Page => d[l] = d[p] /\ l # p
      /\ r \in Page => d[r] = d[p] /\ r # p
      /\ l \in Page => l # r
  <2> DEFINE lf == Lefts(nd)
             rt == Rights(nd)
  <2>1. lf[p] = l /\ rt[p] = r
    BY <1>1 DEF Lefts, Rights
  <2>2. Chain(lf, rt, d, rk)
    BY DEF Shape
  <2> HIDE DEF lf, rt, l, r
  <2>3. /\ rk \in [Page -> Nat]
        /\ r \in Page => d[r] = d[p] /\ rk[p] < rk[r]
        /\ l \in Page => d[l] = d[p] /\ rt[l] = p
    BY <2>1, <2>2, <1>2 DEF Chain
  <2>4. l \in Page => rk[l] < rk[p]
    BY <2>1, <2>2, <2>3, <1>2 DEF Chain
  <2> QED BY <2>3, <2>4
<1>4. /\ l \in Page => nd[l] \in Node /\ nd[l] # None
      /\ r \in Page => nd[r] \in Node /\ nd[r] # None
  BY <1>3, LiveNode
<1>5. \A x \in Page : m[x] = CASE x = p -> None
                               [] x = l -> [nd[x] EXCEPT !.right = r]
                               [] x = r -> [nd[x] EXCEPT !.left = l]
                               [] OTHER -> nd[x]
  BY DEF TakenOut
<1>6. DOMAIN m = Page /\ m = [x \in Page |-> m[x]]
  BY DEF TakenOut
<1> HIDE DEF m, l, r
<1>7. /\ m[p] = None
      /\ l \in Page => m[l] = [nd[l] EXCEPT !.right = r]
      /\ r \in Page => m[r] = [nd[r] EXCEPT !.left = l]
      /\ \A x \in Page \ {p} : x # l /\ x # r => m[x] = nd[x]
  BY <1>3, <1>5
<1>8. /\ l \in Page => m[l] \in Node /\ m[l].entries = nd[l].entries /\ m[l].left = nd[l].left /\ m[l].right = r
      /\ r \in Page => m[r] \in Node /\ m[r].entries = nd[r].entries /\ m[r].left = l /\ m[r].right = nd[r].right
  BY <1>2, <1>4, <1>7 DEF Node
<1>9. \A x \in Page : m[x] \in Node \cup {None}
  BY <1>1, <1>7, <1>8 DEF Nodes
<1>10. m \in Nodes
  BY <1>6, <1>9 DEF Nodes
<1>11. ASSUME NEW x \in Page, x # p
       PROVE  /\ m[x] = None <=> nd[x] = None
              /\ nd[x] # None => /\ m[x].entries = nd[x].entries
                                 /\ m[x].left = IF x = r THEN l ELSE nd[x].left
                                 /\ m[x].right = IF x = l THEN r ELSE nd[x].right
  BY <1>3, <1>4, <1>7, <1>8, <1>11, NoneAssumption
<1> QED BY <1>3, <1>7, <1>10, <1>11 DEF m, l, r

LEMMA ShapeFree ==
  ASSUME NEW nd, NEW d, NEW rk, NEW h, NEW tops, Shape(nd, d, rk, h, tops),
         NEW p \in tops, IsEmpty(nd[p])
  PROVE  Shape(TakenOut(nd, p), [d EXCEPT ![p] = 0], rk, h, tops \ {p})
<1> DEFINE m == TakenOut(nd, p)
           d2 == [d EXCEPT ![p] = 0]
           l == nd[p].left
           r == nd[p].right
           k == Kids(nd, d, h)
<1>1. /\ h \in Nat \ {0} /\ nd \in Nodes /\ d \in [Page -> 0 .. h] /\ p \in Page /\ d[p] > 0
      /\ nd[p] # None /\ nd[p] \in Node
  <2>1. p \in Page /\ d[p] > 0
    BY DEF Shape, Tree
  <2> QED BY <2>1, LiveNode DEF Shape
<1>2. /\ m \in Nodes /\ m[p] = None
      /\ \A x \in Page \ {p} : /\ m[x] = None <=> nd[x] = None
                               /\ nd[x] # None => /\ m[x].entries = nd[x].entries
                                                  /\ m[x].left = IF x = r THEN l ELSE nd[x].left
                                                  /\ m[x].right = IF x = l THEN r ELSE nd[x].right
  BY <1>1, TakenOutIs
<1> HIDE DEF m
<1>3. d2 \in [Page -> 0 .. h] /\ d2[p] = 0 /\ \A x \in Page : x # p => d2[x] = d[x]
  BY <1>1
<1> HIDE DEF d2
<1>4. \A x \in Page : d2[x] = 0 <=> m[x] = None
  BY <1>2, <1>3 DEF Shape
<1>5. \A x \in Page \ {p} : nd[x] # None => /\ Addresses(m[x]) = Addresses(nd[x]) /\ Size(m[x]) = Size(nd[x])
                                            /\ (Distinct(nd[x]) => Distinct(m[x]))
  BY <1>2 DEF Addresses, Addr, Size, Distinct
<1>6. \A x \in Live(m) : Size(m[x]) <= Capacity /\ (d2[x] < h => Distinct(m[x]))
  <2>1. ASSUME NEW x \in Page, m[x] # None
        PROVE  Size(m[x]) <= Capacity /\ (d2[x] < h => Distinct(m[x]))
    <3>1. x # p /\ nd[x] # None
      BY <2>1, <1>2
    <3> QED BY <3>1, <1>3, <1>5, LiveNode
  <2> QED BY <2>1 DEF Live
<1>7. k[p] = {}
  <2>1. Size(nd[p]) = 0 /\ Addresses(nd[p]) = {Addr(nd[p], i) : i \in 1 .. Size(nd[p])}
    BY <1>1, EntryParts DEF IsEmpty
  <2>2. Addresses(nd[p]) = {}
    BY <2>1
  <2> QED BY <2>2, <1>1 DEF Kids
<1>8. Kids(m, d2, h) = k
  <2>1. \A x \in Page : (IF d2[x] > 0 /\ d2[x] < h THEN Addresses(m[x]) ELSE {}) = k[x]
    <3>1. \A x \in Page : k[x] = IF d[x] > 0 /\ d[x] < h THEN Addresses(nd[x]) ELSE {}
      BY DEF Kids
    <3>2. \A x \in Page : nd[x] = None <=> d[x] = 0
      BY DEF Shape
    <3> HIDE DEF k
    <3> QED BY <3>1, <3>2, <1>1, <1>3, <1>5, <1>7
  <2> QED BY <2>1 DEF Kids
<1>9. Tree(Kids(m, d2, h), d2, tops \ {p})
  <2>1. Tree(k, d, tops)
    BY DEF Shape
  <2> HIDE DEF k
  <2> QED BY <2>1, <1>7, <1>8, TreeFree DEF d2
<1>10. Chain(Lefts(m), Rights(m), d2, rk)
  <2> DEFINE lf == Lefts(nd)
             rt == Rights(nd)
             lf2 == Lefts(m)
             rt2 == Rights(m)
  <2>1. Chain(lf, rt, d, rk)
    BY DEF Shape
  <2>2. lf[p] = l /\ rt[p] = r
    BY <1>1 DEF Lefts, Rights
  <2>3. lf2 \in [Page -> Page \cup {NoPage}] /\ rt2 \in [Page -> Page \cup {NoPage}]
    BY <1>2 DEF Lefts, Rights, Nodes, Node
  <2>4. /\ l \in Page => nd[l] # None
        /\ r \in Page => nd[r] # None
    BY <1>1, TakenOutIs, LiveNode
  <2>5. \A x \in Page : x # p => lf2[x] = IF x = r THEN l ELSE lf[x]
    BY <2>4, <1>2 DEF Lefts
  <2>6. \A x \in Page : x # p => rt2[x] = IF x = l THEN r ELSE rt[x]
    BY <2>4, <1>2 DEF Rights
  <2> HIDE DEF lf, rt, lf2, rt2
  <2>7. Chain(lf2, rt2, [d EXCEPT ![p] = 0], rk)
    <3>1. \A x \in Page : x # p => lf2[x] = IF x = rt[p] THEN lf[p] ELSE lf[x]
      BY <2>2, <2>5
    <3>2. \A x \in Page : x # p => rt2[x] = IF x = lf[p] THEN rt[p] ELSE rt[x]
      BY <2>2, <2>6
    <3>3. p \in Page /\ d[p] > 0
      BY <1>1
    <3> HIDE DEF l, r
    <3> QED BY ONLY <2>1, <2>3, <3>1, <3>2, <3>3, ChainFree
  <2> QED BY <2>7 DEF lf2, rt2, d2
<1>11. Shape(m, d2, rk, h, tops \ {p})
  BY <1>1, <1>2, <1>3, <1>4, <1>6, <1>9, <1>10 DEF Shape
<1> QED BY <1>11 DEF m, d2

\* A new root over the pages of the first level.
Deeper(d, page) == [x \in Page |-> IF x = page THEN 1 ELSE IF d[x] = 0 THEN 0 ELSE d[x] + 1]

LEMMA ShapeGrow ==
  ASSUME NEW nd, NEW d, NEW rk, NEW h, NEW tops, Shape(nd, d, rk, h, tops),
         NEW page \in Page, d[page] = 0, \A c \in tops : d[c] = 1,
         NEW n \in Node, n.left = NoPage, n.right = NoPage, Size(n) <= Capacity,
         Distinct(n), Addresses(n) = tops
  PROVE  Shape([nd EXCEPT ![page] = n], Deeper(d, page), rk, h + 1, {page})
<1> DEFINE m == [nd EXCEPT ![page] = n]
           d2 == Deeper(d, page)
           k == Kids(nd, d, h)
<1>1. h \in Nat \ {0} /\ nd \in Nodes /\ d \in [Page -> 0 .. h] /\ n # None /\ nd[page] = None
      /\ \A x \in Page : d[x] = 0 <=> nd[x] = None
  BY NoneAssumption DEF Shape
<1>2. m \in Nodes /\ m[page] = n /\ \A x \in Page : x # page => m[x] = nd[x]
  BY <1>1 DEF Nodes
<1>3. d2 \in [Page -> 0 .. (h + 1)]
      /\ \A x \in Page : d2[x] = IF x = page THEN 1 ELSE IF d[x] = 0 THEN 0 ELSE d[x] + 1
  BY <1>1 DEF Deeper
<1> HIDE DEF m, d2
<1>4. \A x \in Page : d2[x] = 0 <=> m[x] = None
  BY <1>1, <1>2, <1>3
<1>5. \A x \in Live(m) : Size(m[x]) <= Capacity /\ (d2[x] < h + 1 => Distinct(m[x]))
  <2>1. ASSUME NEW x \in Page, m[x] # None
        PROVE  Size(m[x]) <= Capacity /\ (d2[x] < h + 1 => Distinct(m[x]))
    <3>1. CASE x = page
      BY <3>1, <1>2
    <3>2. CASE x # page
      <4>1. nd[x] # None /\ d[x] \in 0 .. h /\ d2[x] = d[x] + 1
        BY <3>2, <2>1, <1>1, <1>2, <1>3
      <4>2. d2[x] < h + 1 => d[x] < h
        BY <4>1, <1>1
      <4> QED BY <3>2, <4>1, <4>2, <1>2, LiveNode
    <3> QED BY <3>1, <3>2
  <2> QED BY <2>1 DEF Live
<1>6. Kids(m, d2, h + 1) = [k EXCEPT ![page] = tops]
  <2>1. k \in [Page -> SUBSET Page] /\ \A x \in Page : k[x] = IF d[x] > 0 /\ d[x] < h THEN Addresses(nd[x]) ELSE {}
    BY DEF Shape, Tree, Kids
  <2>2. \A x \in Page : (IF d2[x] > 0 /\ d2[x] < h + 1 THEN Addresses(m[x]) ELSE {}) = IF x = page THEN tops ELSE k[x]
    <3> SUFFICES ASSUME NEW x \in Page
                 PROVE  (IF d2[x] > 0 /\ d2[x] < h + 1 THEN Addresses(m[x]) ELSE {}) = IF x = page THEN tops ELSE k[x]
      OBVIOUS
    <3>1. CASE x = page
      <4>1. d2[x] = 1 /\ m[x] = n /\ 1 > 0 /\ 1 < h + 1
        BY <3>1, <1>1, <1>2, <1>3
      <4> QED BY <3>1, <4>1
    <3>2. CASE x # page /\ d[x] = 0
      BY <3>2, <2>1, <1>1, <1>3
    <3>3. CASE x # page /\ d[x] # 0
      <4>1. d2[x] = d[x] + 1 /\ d[x] \in Nat /\ m[x] = nd[x]
        BY <3>3, <1>1, <1>2, <1>3
      <4>2. k[x] = IF d[x] > 0 /\ d[x] < h THEN Addresses(nd[x]) ELSE {}
        BY <2>1
      <4> HIDE DEF k
      <4> QED BY <3>3, <4>1, <4>2, <1>1
    <3> QED BY <3>1, <3>2, <3>3
  <2>3. Kids(m, d2, h + 1) = [x \in Page |-> IF x = page THEN tops ELSE k[x]]
    BY <2>2 DEF Kids
  <2> HIDE DEF k
  <2> QED BY <2>1, <2>3
<1>7. Tree(Kids(m, d2, h + 1), d2, {page})
  <2>1. Tree(k, d, tops)
    BY DEF Shape
  <2> HIDE DEF k
  <2> QED BY <2>1, <1>6, TreeGrow DEF d2, Deeper
<1>8. Chain(Lefts(m), Rights(m), d2, rk)
  <2> DEFINE lf == Lefts(nd)
             rt == Rights(nd)
             lf2 == Lefts(m)
             rt2 == Rights(m)
  <2>1. Chain(lf, rt, d, rk)
    BY DEF Shape
  <2>2. lf2 \in [Page -> Page \cup {NoPage}] /\ rt2 \in [Page -> Page \cup {NoPage}]
    BY <1>2 DEF Lefts, Rights, Nodes, Node
  <2>3. \A x \in Page : lf2[x] = IF x = page THEN NoPage ELSE lf[x]
    BY <1>1, <1>2 DEF Lefts
  <2>4. \A x \in Page : rt2[x] = IF x = page THEN NoPage ELSE rt[x]
    BY <1>1, <1>2 DEF Rights
  <2> HIDE DEF lf, rt, lf2, rt2
  <2>5. Chain(lf2, rt2, d2, rk)
    BY <2>1, <2>2, <2>3, <2>4, ChainGrow DEF d2, Deeper
  <2> QED BY <2>5 DEF lf2, rt2
<1>9. Shape(m, d2, rk, h + 1, {page})
  <2>1. h + 1 \in Nat \ {0}
    BY <1>1
  <2> QED BY ONLY <2>1, <1>2, <1>3, <1>4, <1>5, <1>7, <1>8 DEF Shape
<1> QED BY <1>9 DEF m, d2

-----------------------------------------------------------------------------
(* The entries of the leaves, the nodes that are not empty, and the header. *)
Holds(nd, d, h, E) ==
  /\ \A e \in E : \E p \in Page : d[p] = h /\ e \in ToSet(nd[p].entries)
  /\ \A p \in Page : d[p] = h => Sorted(nd[p])

LEMMA SortedSame ==
  ASSUME NEW n, NEW m, n.entries = m.entries, Sorted(n) PROVE Sorted(m)
BY DEF Sorted, Key, Size

Filled(nd, but) == \A p \in Page \ but : nd[p] # None => ~IsEmpty(nd[p])

Accounts(nd, bits, count, extra) ==
  /\ extra \subseteq Page /\ extra \cap Live(nd) = {}
  /\ bits = {0} \cup extra \cup Live(nd)
  /\ count = 1 + Cardinality(Live(nd))

\* An entry that can be put into page p: on inner levels one that names a page
\* to be entered there, in a leaf one with a new key.
Placeable(nd, d, h, tops, p, e) ==
  /\ e \in Entry
  /\ d[p] = h => Fresh(nd[p], e[1])
  /\ d[p] < h => e[2] \in tops /\ d[e[2]] = d[p] + 1

Without(d, h, tops, p, e) == IF d[p] < h THEN tops \ {e[2]} ELSE tops
With(d, h, E, p, e)       == IF d[p] = h THEN E \cup {e} ELSE E

\* An entry is put into a node that is not full.
LEMMA PutOne ==
  ASSUME NEW nd, NEW d, NEW rk, NEW h, NEW tops, Shape(nd, d, rk, h, tops), NEW E, NEW e,
         NEW p \in Page, d[p] > 0, Size(nd[p]) < Capacity, Placeable(nd, d, h, tops, p, e)
  PROVE  LET m == [nd EXCEPT ![p] = Insert(nd[p], e)]
         IN  /\ Shape(m, d, rk, h, Without(d, h, tops, p, e))
             /\ m[p] = Insert(nd[p], e) /\ \A x \in Page \ {p} : m[x] = nd[x]
             /\ Live(m) = Live(nd)
             /\ Holds(nd, d, h, E) => Holds(m, d, h, With(d, h, E, p, e))
             /\ Filled(nd, {p}) => Filled(m, {})
<1> DEFINE m == [nd EXCEPT ![p] = Insert(nd[p], e)]
           n == nd[p]
           N == Insert(n, e)
           k == Kids(nd, d, h)
           t2 == Without(d, h, tops, p, e)
<1>1. n \in Node /\ n # None /\ nd \in Nodes /\ (d[p] < h => Distinct(n)) /\ e \in Entry
      /\ h \in Nat \ {0} /\ d \in [Page -> 0 .. h] /\ Size(n) \in Nat /\ Capacity \in Nat
  BY LiveNode, EntryParts, NodeAssumption DEF Shape, Placeable
<1>2. /\ N \in Node /\ N.left = n.left /\ N.right = n.right
      /\ Size(N) = Size(n) + 1
      /\ ToSet(N.entries) = ToSet(n.entries) \cup {e}
      /\ Addresses(N) = Addresses(n) \cup {e[2]}
      /\ Distinct(n) /\ e[2] \notin Addresses(n) => Distinct(N)
      /\ Sorted(n) /\ Fresh(n, e[1]) => Sorted(N)
  <2> HIDE DEF n
  <2> QED BY <1>1, InsertIs
<1>3. N # None /\ Size(N) <= Capacity /\ ~IsEmpty(N)
  BY <1>1, <1>2, NoneAssumption DEF IsEmpty
<1> HIDE DEF N
<1>4. m \in Nodes /\ m[p] = N /\ \A x \in Page : x # p => m[x] = nd[x]
  BY <1>1, <1>2 DEF Nodes, N
<1>5. /\ k \in [Page -> SUBSET Page] /\ \A x \in Page : k[x] = IF d[x] > 0 /\ d[x] < h THEN Addresses(nd[x]) ELSE {}
      /\ Tree(k, d, tops) /\ \A x \in Page : \A c \in tops : c \notin k[x]
  BY DEF Shape, Tree, Kids
<1>6. d[p] < h => Distinct(N)
  BY <1>1, <1>2, <1>5 DEF Placeable
<1> HIDE DEF k
<1>7. Tree([k EXCEPT ![p] = IF d[p] < h THEN Addresses(N) ELSE {}], d, t2)
  <2>1. CASE d[p] < h
    <3>1. e[2] \in tops /\ d[e[2]] = d[p] + 1 /\ Addresses(N) = k[p] \cup {e[2]} /\ t2 = tops \ {e[2]}
      BY <2>1, <1>2, <1>5 DEF Placeable, Without
    <3>2. Tree([k EXCEPT ![p] = @ \cup {e[2]}], d, tops \ {e[2]})
      BY <3>1, <1>5, TreeEnter
    <3> QED BY <2>1, <3>1, <3>2
  <2>2. CASE ~ (d[p] < h)
    <3>1. k[p] = {} /\ t2 = tops
      BY <2>2, <1>5 DEF Without
    <3>2. [k EXCEPT ![p] = {}] = k
      BY <3>1, <1>5
    <3> QED BY <2>2, <3>1, <3>2, <1>5
  <2> QED BY <2>1, <2>2
<1>8. Shape([nd EXCEPT ![p] = N], d, rk, h, t2)
  <2> HIDE DEF t2, n
  <2>1. N.left = nd[p].left /\ N.right = nd[p].right
    BY <1>2 DEF n
  <2> QED BY ONLY <1>2, <1>3, <1>6, <1>7, <2>1, Shape(nd, d, rk, h, tops), p \in Page, d[p] > 0, ShapeNode DEF k
<1>9. Live(m) = Live(nd)
  BY <1>1, <1>3, <1>4 DEF Live
<1>10. ASSUME Holds(nd, d, h, E) PROVE Holds(m, d, h, With(d, h, E, p, e))
  <2>1. \A x \in Page : ToSet(nd[x].entries) \subseteq ToSet(m[x].entries)
    BY <1>2, <1>4
  <2>2. e \in ToSet(m[p].entries)
    BY <1>2, <1>4
  <2>3. d[p] = h => Sorted(m[p])
    BY <1>2, <1>4, <1>10 DEF Holds, Placeable
  <2> HIDE DEF m
  <2> QED BY <2>1, <2>2, <2>3, <1>4, <1>10 DEF Holds, With
<1>11. ASSUME Filled(nd, {p}) PROVE Filled(m, {})
  BY <1>3, <1>4, <1>11 DEF Filled
<1> QED BY <1>4, <1>8, <1>9, <1>10, <1>11 DEF N

\* An entry of an inner node is given another key.
Rekeyed(nd, d, rk, h, tops, E, p, m) ==
  /\ Shape(m, d, rk, h, tops)
  /\ Size(m[p]) = Size(nd[p]) /\ \A x \in Page \ {p} : m[x] = nd[x]
  /\ Live(m) = Live(nd)
  /\ Holds(nd, d, h, E) => Holds(m, d, h, E)
  /\ Filled(nd, {}) => Filled(m, {})

LEMMA RekeyOne ==
  ASSUME NEW nd, NEW d, NEW rk, NEW h, NEW tops, Shape(nd, d, rk, h, tops), NEW E,
         NEW p \in Page, d[p] > 0, d[p] < h, NEW i \in 1 .. Size(nd[p]), NEW key \in SepKey
  PROVE  Rekeyed(nd, d, rk, h, tops, E, p, [nd EXCEPT ![p] = Insert(RemoveEntry(nd[p], i), <<key, Addr(nd[p], i)>>)])
<1> DEFINE n == nd[p]
           c == Addr(n, i)
           R == RemoveEntry(n, i)
           N == Insert(R, <<key, c>>)
           m == [nd EXCEPT ![p] = N]
           k == Kids(nd, d, h)
<1>1. n \in Node /\ n # None /\ nd \in Nodes /\ Distinct(n) /\ Size(n) <= Capacity
      /\ h \in Nat \ {0} /\ d \in [Page -> 0 .. h] /\ Size(n) \in Nat /\ i \in 1 .. Size(n)
  BY LiveNode, EntryParts DEF Shape
<1>2. c \in Addresses(n) /\ <<key, c>> \in Entry
  <2>1. c \in Addresses(n) /\ c \in Rids \cup Page
    BY <1>1, EntryParts
  <2> QED BY <2>1 DEF Entry, SepKey
<1> HIDE DEF n
<1>3. /\ R \in Node /\ R.left = n.left /\ R.right = n.right /\ Size(R) = Size(n) - 1
      /\ Addresses(R) = Addresses(n) \ {c} /\ Distinct(R)
  BY <1>1, RemoveIs
<1> HIDE DEF c, R
<1>4. /\ N \in Node /\ N.left = R.left /\ N.right = R.right /\ Size(N) = Size(R) + 1
      /\ Addresses(N) = Addresses(R) \cup {c} /\ Distinct(N)
  <2>1. /\ N \in Node /\ N.left = R.left /\ N.right = R.right /\ Size(N) = Size(R) + 1
        /\ Addresses(N) = Addresses(R) \cup {<<key, c>>[2]}
        /\ Distinct(R) /\ <<key, c>>[2] \notin Addresses(R) => Distinct(N)
    BY <1>2, <1>3, InsertIs
  <2>2. <<key, c>>[2] = c /\ c \notin Addresses(R)
    BY <1>3
  <2> QED BY <2>1, <2>2, <1>3
<1> HIDE DEF N
<1>5. N.left = n.left /\ N.right = n.right /\ Size(N) = Size(n) /\ Addresses(N) = Addresses(n)
  BY <1>1, <1>2, <1>3, <1>4
<1>6. N # None /\ ~IsEmpty(N)
  BY <1>1, <1>4, <1>5, NoneAssumption DEF IsEmpty
<1>7. m[p] = N /\ \A x \in Page : x # p => m[x] = nd[x]
  BY <1>1 DEF Nodes
<1>8. Tree([k EXCEPT ![p] = IF d[p] < h THEN Addresses(N) ELSE {}], d, tops)
  <2>1. Tree(k, d, tops) /\ k \in [Page -> SUBSET Page] /\ k[p] = Addresses(n)
    BY DEF Shape, Tree, Kids, n
  <2> HIDE DEF k
  <2>2. [k EXCEPT ![p] = IF d[p] < h THEN Addresses(N) ELSE {}] = k
    BY <2>1, <1>5
  <2> QED BY <2>1, <2>2
<1>9. Shape(m, d, rk, h, tops)
  <2>1. N.left = nd[p].left /\ N.right = nd[p].right /\ Size(N) <= Capacity
    BY <1>1, <1>5 DEF n
  <2> QED BY ONLY <1>4, <1>8, <2>1, Shape(nd, d, rk, h, tops), p \in Page, d[p] > 0, ShapeNode
<1>10. Live(m) = Live(nd)
  BY <1>1, <1>6, <1>7 DEF Live, n
<1>11. ASSUME Holds(nd, d, h, E) PROVE Holds(m, d, h, E)
  <2>1. \A x \in Page : d[x] = h => m[x] = nd[x]
    BY <1>1, <1>7
  <2> HIDE DEF m
  <2> QED BY <2>1, <1>11 DEF Holds
<1>12. ASSUME Filled(nd, {}) PROVE Filled(m, {})
  BY <1>6, <1>7, <1>12 DEF Filled
<1> QED BY <1>5, <1>7, <1>9, <1>10, <1>11, <1>12 DEF Rekeyed, n, c, R, N

\* A full node is split, and an entry is put into one of the halves.
SplitPut(nd, p, q, right, e) ==
  LET halves == Split(nd[p], p, q)
      this   == IF right THEN halves.this ELSE Insert(halves.this, e)
      other  == IF right THEN Insert(halves.other, e) ELSE halves.other
  IN  LinkedBack([nd EXCEPT ![p] = this, ![q] = other], nd[p].right, q)

LEMMA SplitPutIs ==
  ASSUME NEW nd, NEW d, NEW rk, NEW h, NEW tops, Shape(nd, d, rk, h, tops),
         NEW p \in Page, NEW q \in Page, d[p] > 0, d[q] = 0, Size(nd[p]) >= 2,
         NEW right \in BOOLEAN, NEW e \in Entry, NEW x, x = IF right THEN q ELSE p
  PROVE  SplitPut(nd, p, q, right, e) =
           [SplitTo(nd, p, q) EXCEPT ![x] = Insert(SplitTo(nd, p, q)[x], e)]
<1> DEFINE A == Split(nd[p], p, q).this
           B == Split(nd[p], p, q).other
           r == nd[p].right
           this == IF right THEN A ELSE Insert(A, e)
           other == IF right THEN Insert(B, e) ELSE B
           m1 == [nd EXCEPT ![p] = A, ![q] = B]
           m2 == [nd EXCEPT ![p] = this, ![q] = other]
           s == SplitTo(nd, p, q)
<1>1. /\ p # q /\ r # p /\ r # q /\ r \in Page \cup {NoPage} /\ nd \in Nodes
      /\ s[p] = A /\ s[q] = B
  BY SplitToIs DEF Shape
<1>2. s = LinkedBack(m1, r, q) /\ SplitPut(nd, p, q, right, e) = LinkedBack(m2, r, q)
  BY DEF SplitTo, SplitPut
<1> HIDE DEF A, B, r
<1>3. m2 = [m1 EXCEPT ![x] = Insert(s[x], e)]
  <2>1. Insert(s[x], e) = IF right THEN Insert(B, e) ELSE Insert(A, e)
    BY <1>1
  <2> HIDE DEF s
  <2>2. DOMAIN nd = Page /\ p \in Page /\ q \in Page
    BY <1>1 DEF Nodes
  <2>3. CASE right = TRUE
    <3>1. x = q /\ this = A /\ other = Insert(s[x], e)
      BY <2>1, <2>3
    <3> HIDE DEF this, other
    <3> QED BY <3>1, <2>2, <1>1
  <2>4. CASE right = FALSE
    <3>1. x = p /\ other = B /\ this = Insert(s[x], e)
      BY <2>1, <2>4
    <3> HIDE DEF this, other
    <3> QED BY <3>1, <2>2, <1>1
  <2> QED BY <2>3, <2>4
<1> HIDE DEF m2, s
<1>4. CASE r = NoPage
  BY <1>2, <1>3, <1>4 DEF LinkedBack, s
<1>5. CASE r # NoPage
  <2>1. s = [m1 EXCEPT ![r].left = q] /\ LinkedBack(m2, r, q) = [m2 EXCEPT ![r].left = q]
    BY <1>2, <1>5 DEF LinkedBack
  <2>2. x # r /\ x \in Page /\ r \in Page /\ DOMAIN m1 = Page
    BY <1>1, <1>5 DEF Nodes
  <2> DEFINE v == Insert(s[x], e)
  <2>3. m2 = [m1 EXCEPT ![x] = v]
    BY <1>3
  <2> HIDE DEF m1, v
  <2>4. m2[r] = m1[r]
    BY <2>2, <2>3
  <2>5. [m2 EXCEPT ![r].left = q] = [s EXCEPT ![x] = v]
    <3> DEFINE w == [m1[r] EXCEPT !.left = q]
    <3>1. s = [m1 EXCEPT ![r] = w] /\ [m2 EXCEPT ![r].left = q] = [m2 EXCEPT ![r] = w]
      BY <2>1, <2>4
    <3> HIDE DEF w
    <3> QED BY <3>1, <2>2, <2>3
  <2> QED BY <2>1, <2>5, <1>2 DEF v, s
<1> QED BY <1>4, <1>5

SplitDone(nd, d, h, tops, E, e, p, q, m, d2) ==
  /\ \E rk2 : Shape(m, d2, rk2, h, Without(d, h, tops, p, e) \cup {q})
  /\ Live(m) = Live(nd) \cup {q}
  /\ \A x \in Page \ {p, q} : d[x] # d[p] => m[x] = nd[x]
  /\ Holds(nd, d, h, E) => Holds(m, d2, h, With(d, h, E, p, e))
  /\ Filled(nd, {p}) => Filled(m, {})

LEMMA SplitOne ==
  ASSUME NEW nd, NEW d, NEW rk, NEW h, NEW tops, Shape(nd, d, rk, h, tops), NEW E, NEW e,
         NEW p \in Page, NEW q \in Page, d[p] > 0, d[q] = 0, Size(nd[p]) = Capacity,
         Placeable(nd, d, h, tops, p, e), NEW right \in BOOLEAN
  PROVE  SplitDone(nd, d, h, tops, E, e, p, q, SplitPut(nd, p, q, right, e), [d EXCEPT ![q] = d[p]])
<1> DEFINE s == SplitTo(nd, p, q)
           d2 == [d EXCEPT ![q] = d[p]]
           rk2 == [y \in Page |-> IF y = q THEN 2 * rk[p] + 1 ELSE 2 * rk[y]]
           x == IF right THEN q ELSE p
           m == SplitPut(nd, p, q, right, e)
           A == Split(nd[p], p, q).this
           B == Split(nd[p], p, q).other
           r == nd[p].right
<1>1. /\ nd[p] \in Node /\ Size(nd[p]) >= 2 /\ h \in Nat \ {0} /\ d \in [Page -> 0 .. h] /\ nd \in Nodes
      /\ Size(nd[p]) \in Nat /\ Capacity \in Nat /\ nd[q] = None /\ nd[p] # None
  BY LiveNode, EntryParts, NodeAssumption DEF Shape
<1>2. /\ A \in Node /\ B \in Node /\ ~IsEmpty(A) /\ ~IsEmpty(B)
      /\ Size(A) < Size(nd[p]) /\ Size(B) < Size(nd[p])
      /\ ToSet(nd[p].entries) = ToSet(A.entries) \cup ToSet(B.entries)
      /\ Sorted(nd[p]) => Sorted(A) /\ Sorted(B)
  <2> DEFINE n == nd[p]
  <2>1. n \in Node /\ Size(n) >= 2 /\ A = Split(n, p, q).this /\ B = Split(n, p, q).other
    BY <1>1
  <2> HIDE DEF n, A, B
  <2>2. /\ A \in Node /\ B \in Node /\ ~IsEmpty(A) /\ ~IsEmpty(B)
        /\ Size(A) < Size(n) /\ Size(B) < Size(n)
        /\ ToSet(n.entries) = ToSet(A.entries) \cup ToSet(B.entries)
        /\ Sorted(n) => Sorted(A) /\ Sorted(B)
    BY ONLY <2>1, p \in Page, q \in Page, SplitIs
  <2> QED BY <2>2 DEF n
<1>3. /\ p # q /\ r # p /\ r # q /\ (r \in Page => nd[r] # None) /\ r \in Page \cup {NoPage}
      /\ s \in Nodes /\ s[p] = A /\ s[q] = B
      /\ \A y \in Page \ {p, q} : s[y] = IF y = r THEN [nd[y] EXCEPT !.left = q] ELSE nd[y]
  BY <1>1, SplitToIs
<1>4. Shape(s, d2, rk2, h, tops \cup {q})
  <2>1. Shape(nd, d, rk, h, tops) /\ Size(nd[p]) >= 2 /\ d[p] > 0 /\ d[q] = 0
    BY <1>1
  <2> QED BY ONLY <2>1, p \in Page, q \in Page, ShapeSplit
<1>5. e \in Entry
  BY DEF Placeable
<1>6. m = [s EXCEPT ![x] = Insert(s[x], e)]
  BY <1>1, <1>5, SplitPutIs
<1> HIDE DEF m, s, A, B
<1>7. x \in Page /\ x \in {p, q} /\ d2[x] = d[p] /\ Size(s[x]) < Capacity
  <2>1. Size(A) < Capacity /\ Size(B) < Capacity
    BY <1>2
  <2> QED BY <2>1, <1>1, <1>3
<1>8. d2 \in [Page -> 0 .. h] /\ d2[q] = d[p] /\ \A y \in Page : y # q => d2[y] = d[y]
  BY <1>1
<1>9. /\ Placeable(s, d2, h, tops \cup {q}, x, e)
      /\ Without(d2, h, tops \cup {q}, x, e) = Without(d, h, tops, p, e) \cup {q}
  <2>1. d[p] < h => e[2] \in tops /\ d[e[2]] = d[p] + 1 /\ e[2] \in Page
    BY DEF Placeable, Shape, Tree
  <2>2. d[p] < h => e[2] # q /\ d2[e[2]] = d[e[2]]
    BY <2>1, <1>1, <1>8
  <2>3. d[p] = h => Fresh(s[x], e[1])
    <3>1. ToSet(s[x].entries) \subseteq ToSet(nd[p].entries)
      BY <1>2, <1>3
    <3> QED BY <3>1 DEF Placeable, Fresh
  <2> HIDE DEF x, d2
  <2> QED BY <2>1, <2>2, <2>3, <1>5, <1>7 DEF Placeable, Without
<1>10. r \in Page => s[r].entries = nd[r].entries /\ s[r] # None
  <2>1. r \in Page => nd[r] \in Node
    BY <1>3, LiveNode
  <2>2. r \in Page => [nd[r] EXCEPT !.left = q] \in Node /\ [nd[r] EXCEPT !.left = q].entries = nd[r].entries
    BY <2>1 DEF Node
  <2> QED BY <2>2, <1>3, NoneAssumption
<1>11. A # None /\ B # None
  BY <1>2, NoneAssumption
<1>12. /\ Shape(m, d2, rk2, h, Without(d, h, tops, p, e) \cup {q})
       /\ m[x] = Insert(s[x], e) /\ \A y \in Page \ {x} : m[y] = s[y]
       /\ Live(m) = Live(s)
       /\ Holds(s, d2, h, E) => Holds(m, d2, h, With(d2, h, E, x, e))
       /\ Filled(s, {x}) => Filled(m, {})
  <2>1. d2[x] > 0
    BY <1>7
  <2> HIDE DEF x, d2, rk2
  <2> DEFINE t2 == tops \cup {q}
  <2>2. Shape(s, d2, rk2, h, t2) /\ Placeable(s, d2, h, t2, x, e)
    BY <1>4, <1>9
  <2>3. Without(d2, h, t2, x, e) = Without(d, h, tops, p, e) \cup {q}
    BY <1>9
  <2> HIDE DEF t2
  <2>4. /\ Shape([s EXCEPT ![x] = Insert(s[x], e)], d2, rk2, h, Without(d2, h, t2, x, e))
        /\ [s EXCEPT ![x] = Insert(s[x], e)][x] = Insert(s[x], e)
        /\ \A y \in Page \ {x} : [s EXCEPT ![x] = Insert(s[x], e)][y] = s[y]
        /\ Live([s EXCEPT ![x] = Insert(s[x], e)]) = Live(s)
        /\ Holds(s, d2, h, E) => Holds([s EXCEPT ![x] = Insert(s[x], e)], d2, h, With(d2, h, E, x, e))
        /\ Filled(s, {x}) => Filled([s EXCEPT ![x] = Insert(s[x], e)], {})
    BY ONLY <2>1, <2>2, <1>7, PutOne
  <2> QED BY ONLY <2>3, <2>4, <1>6
<1>13. Live(s) = Live(nd) \cup {q}
  BY <1>1, <1>3, <1>10, <1>11 DEF Live
<1>14. ASSUME NEW y \in Page \ {p, q}, d[y] # d[p] PROVE m[y] = nd[y]
  <2>1. r \in Page => d[r] = d[p]
    <3>1. Rights(nd)[p] = r
      BY <1>1 DEF Rights
    <3> QED BY <3>1, PageIsNumber DEF Shape, Chain
  <2>2. y # r
    BY <2>1, <1>14
  <2> QED BY <2>2, <1>3, <1>7, <1>12, <1>14
<1>15. ASSUME Holds(nd, d, h, E) PROVE Holds(s, d2, h, E)
  <2>1. ASSUME NEW z \in Page, d[z] = h, NEW y \in ToSet(nd[z].entries)
        PROVE  \E w \in Page : d2[w] = h /\ y \in ToSet(s[w].entries)
    <3>1. CASE z = p
      <4>1. y \in ToSet(s[p].entries) \/ y \in ToSet(s[q].entries)
        BY <2>1, <3>1, <1>2, <1>3
      <4>2. d2[p] = h /\ d2[q] = h
        BY <2>1, <3>1, <1>3, <1>8
      <4> QED BY <4>1, <4>2
    <3>2. CASE z # p
      <4>1. z # q
        BY <2>1, <1>1
      <4>2. d2[z] = h /\ s[z].entries = nd[z].entries
        BY <3>2, <4>1, <2>1, <1>3, <1>8, <1>10
      <4> QED BY <4>2, <2>1
    <3> QED BY <3>1, <3>2
  <2>2. ASSUME NEW y \in Page, d2[y] = h PROVE Sorted(s[y])
    <3>1. CASE y \in {p, q}
      <4>1. d[p] = h
        BY <3>1, <2>2, <1>3, <1>8
      <4> QED BY <3>1, <4>1, <1>2, <1>3, <1>15 DEF Holds
    <3>2. CASE y \notin {p, q}
      <4>1. d[y] = h /\ nd[y].entries = s[y].entries
        BY <3>2, <2>2, <1>3, <1>8, <1>10
      <4>2. Sorted(nd[y])
        BY <4>1, <1>15 DEF Holds
      <4> QED BY ONLY <4>1, <4>2, SortedSame
    <3> QED BY <3>1, <3>2
  <2> HIDE DEF d2
  <2> QED BY <2>1, <2>2, <1>15 DEF Holds
<1>16. With(d2, h, E, x, e) = With(d, h, E, p, e)
  <2> HIDE DEF d2, x
  <2> QED BY <1>7 DEF With
<1>17. ASSUME Filled(nd, {p}) PROVE Filled(s, {x})
  <2>1. ASSUME NEW y \in Page, s[y] # None PROVE ~IsEmpty(s[y])
    <3>1. CASE y \in {p, q}
      BY <3>1, <1>2, <1>3
    <3>2. CASE y \notin {p, q}
      <4>1. s[y].entries = nd[y].entries /\ nd[y] # None
        BY <3>2, <2>1, <1>3, <1>10
      <4> QED BY <4>1, <3>2, <1>17 DEF Filled, IsEmpty, Size
    <3> QED BY <3>1, <3>2
  <2> QED BY <2>1 DEF Filled
<1>18. \E rk3 : Shape(m, d2, rk3, h, Without(d, h, tops, p, e) \cup {q})
  BY <1>12
<1> HIDE DEF d2
<1>19. Live(m) = Live(nd) \cup {q}
  BY <1>12, <1>13
<1>20. /\ Holds(nd, d, h, E) => Holds(m, d2, h, With(d, h, E, p, e))
       /\ Filled(nd, {p}) => Filled(m, {})
  BY <1>12, <1>15, <1>16, <1>17
<1> QED BY <1>14, <1>18, <1>19, <1>20 DEF SplitDone, m, d2

-----------------------------------------------------------------------------
(* The inductive invariant: the pages are a tree with linked levels, and the *)
(* header and the entries that are due agree with it.                       *)
Holding == IF aborted THEN {} ELSE due
Root    == IF height = 1 THEN {rootPage} ELSE {}

IsTree(d, rk) ==
  /\ Shape(node, d, rk, height, {rootPage}) /\ d[rootPage] = 1
  /\ Filled(node, Root)

TreeInv ==
  /\ TypeOK
  /\ Accounts(node, used, numPages, junk)
  /\ \E d, rk : IsTree(d, rk) /\ Holds(node, d, height, Holding)

\* An inner node is not empty, and its entries are pages of the next level.
LEMMA InnerNode ==
  ASSUME NEW d, NEW rk, IsTree(d, rk), NEW p \in Page, d[p] > 0, d[p] < height
  PROVE  /\ node[p] \in Node /\ ~IsEmpty(node[p])
         /\ Addresses(node[p]) = Kids(node, d, height)[p]
         /\ \A c \in Addresses(node[p]) : c \in Page /\ d[c] = d[p] + 1
<1>1. height \in Nat \ {0} /\ d[p] \in Nat
  BY LiveNode DEF IsTree, Shape
<1>2. height # 1
  BY <1>1
<1>3. node[p] \in Node /\ node[p] # None
  BY LiveNode DEF IsTree
<1>4. ~IsEmpty(node[p])
  BY <1>2, <1>3 DEF IsTree, Filled, Root
<1>5. Addresses(node[p]) = Kids(node, d, height)[p]
  BY DEF Kids
<1>6. \A c \in Addresses(node[p]) : c \in Page /\ d[c] = d[p] + 1
  BY <1>5 DEF IsTree, Shape, Tree
<1> QED BY <1>3, <1>4, <1>5, <1>6

\* The way down has a page of each level.
OnPath(path, d, k) ==
  /\ path \in [1 .. height -> Page] /\ path[1] = rootPage
  /\ \A l \in 1 .. height : d[path[l]] = l
  /\ \A l \in 1 .. (height - 1) : LET n == node[path[l]]
                                  IN  /\ ChildPos(n, k) \in 1 .. Size(n)
                                      /\ path[l + 1] = Addr(n, ChildPos(n, k))

LEMMA ChildIs ==
  ASSUME NEW d, NEW rk, IsTree(d, rk), NEW k, NEW p \in Page, d[p] > 0, d[p] < height
  PROVE  /\ ChildPos(node[p], k) \in 1 .. Size(node[p])
         /\ Child(p, k) \in Page /\ d[Child(p, k)] = d[p] + 1
<1>1. node[p] \in Node /\ ~IsEmpty(node[p])
      /\ \A c \in Addresses(node[p]) : c \in Page /\ d[c] = d[p] + 1
  BY InnerNode
<1>2. ChildPos(node[p], k) \in 1 .. Size(node[p])
  BY <1>1, ChildPosIn
<1>3. Child(p, k) \in Addresses(node[p])
  BY <1>1, <1>2, EntryParts DEF Child
<1> QED BY <1>1, <1>2, <1>3

LEMMA PathIs ==
  ASSUME NEW d, NEW rk, IsTree(d, rk), NEW k
  PROVE  OnPath(FindLeaf(k), d, k)
<1> DEFINE G == [l \in 1 .. height |-> {p \in Page : d[p] = l}]
           step == [l \in 1 .. height |-> [p \in Page |-> Child(p, k)]]
<1>1. height \in Nat \ {0} /\ rootPage \in Page /\ d[rootPage] = 1
  BY DEF IsTree, Shape, Tree
<1>2. ASSUME NEW l \in 2 .. height, NEW p \in Page, d[p] = l - 1
      PROVE  Child(p, k) \in Page /\ d[Child(p, k)] = l
  <2>1. d[p] > 0 /\ d[p] < height /\ d[p] + 1 = l
    BY <1>1, <1>2
  <2> QED BY <2>1, ChildIs
<1>3. Rises(height, Page, G, rootPage, step)
  <2>1. \A l \in 1 .. height : G[l] \subseteq Page
    OBVIOUS
  <2>2. rootPage \in G[1]
    BY <1>1
  <2>3. ASSUME NEW l \in 2 .. height, NEW p \in G[l - 1] PROVE step[l][p] \in G[l]
    <3>1. l - 1 \in 1 .. height /\ l \in 1 .. height
      BY <1>1
    <3>2. p \in Page /\ d[p] = l - 1
      BY <3>1, <2>3
    <3> QED BY <3>1, <3>2, <1>2
  <2> HIDE DEF G, step
  <2> QED BY <2>1, <2>2, <2>3, <1>1 DEF Rises
<1>4. \E f \in [1 .. height -> Page] :
         \A l \in 1 .. height : f[l] = (IF l = 1 THEN rootPage ELSE step[l][f[l - 1]]) /\ f[l] \in G[l]
  <2> HIDE DEF G, step
  <2> QED BY ONLY <1>3, Ascent
<1>5. PICK f \in [1 .. height -> Page] :
         \A l \in 1 .. height : f[l] = (IF l = 1 THEN rootPage ELSE step[l][f[l - 1]]) /\ f[l] \in G[l]
  BY <1>4
<1>6. f = [l \in 1 .. height |-> IF l = 1 THEN rootPage ELSE Child(f[l - 1], k)]
  <2>1. ASSUME NEW l \in 1 .. height, l # 1 PROVE step[l][f[l - 1]] = Child(f[l - 1], k)
    <3>1. l - 1 \in 1 .. height
      BY <1>1, <2>1
    <3> QED BY <3>1
  <2> HIDE DEF step
  <2> QED BY <2>1, <1>5
<1> DEFINE path[l \in 1 .. height] == IF l = 1 THEN rootPage ELSE Child(path[l - 1], k)
<1>7. path = [l \in 1 .. height |-> IF l = 1 THEN rootPage ELSE Child(path[l - 1], k)]
  BY <1>6
<1> HIDE DEF path
<1>8. path[1] = rootPage /\ \A l \in 2 .. height : path[l] = Child(path[l - 1], k)
  BY <1>1, <1>7
<1> DEFINE T == {l \in 1 .. height : path[l] \in Page /\ d[path[l]] = l}
<1>9. 1 .. height \subseteq T
  <2>1. 1 \in T
    BY <1>1, <1>8
  <2>2. ASSUME NEW l \in 1 .. (height - 1), l \in T PROVE l + 1 \in T
    <3>1. l + 1 \in 2 .. height /\ (l + 1) - 1 = l /\ l + 1 \in 1 .. height
      BY <1>1
    <3>2. path[l + 1] = Child(path[l], k)
      BY <3>1, <1>8
    <3> QED BY <3>1, <3>2, <2>2, <1>2
  <2> HIDE DEF T
  <2> QED BY <2>1, <2>2, <1>1, Upward
<1>10. ASSUME NEW l \in 1 .. (height - 1)
       PROVE  /\ ChildPos(node[path[l]], k) \in 1 .. Size(node[path[l]])
              /\ path[l + 1] = Addr(node[path[l]], ChildPos(node[path[l]], k))
  <2>1. l \in 1 .. height /\ l + 1 \in 2 .. height /\ (l + 1) - 1 = l /\ l > 0 /\ l < height
    BY <1>1
  <2>2. path[l] \in Page /\ d[path[l]] = l
    BY <2>1, <1>9
  <2>3. path[l + 1] = Child(path[l], k)
    BY <2>1, <1>8
  <2>4. d[path[l]] > 0 /\ d[path[l]] < height
    BY <2>1, <2>2
  <2> DEFINE p == path[l]
  <2> HIDE DEF p, T
  <2>5. ChildPos(node[p], k) \in 1 .. Size(node[p])
    BY <2>2, <2>4, ChildIs DEF p
  <2> QED BY <2>3, <2>5 DEF Child, p
<1>11. path \in [1 .. height -> Page]
  BY <1>7, <1>9
<1>12. OnPath(path, d, k)
  BY <1>8, <1>9, <1>10, <1>11 DEF OnPath
<1> QED BY <1>12 DEF FindLeaf, path

\* The pages the tree has on a level.
LEMMA LevelsAre ==
  ASSUME NEW d, NEW rk, IsTree(d, rk)
  PROVE  /\ \A l \in 1 .. height : Level[l] = {p \in Page : d[p] = l} /\ Level[l] # {}
         /\ Level = [l \in 1 .. height |->
                      IF l = 1 THEN {rootPage} ELSE UNION {Addresses(node[p]) : p \in Level[l - 1]}]
<1> DEFINE At(l) == {p \in Page : d[p] = l}
           f == [l \in 1 .. height |-> At(l)]
<1>1. height \in Nat \ {0} /\ rootPage \in Page /\ d[rootPage] = 1 /\ d \in [Page -> 0 .. height]
  BY DEF IsTree, Shape, Tree
<1>2. Tree(Kids(node, d, height), d, {rootPage})
  BY DEF IsTree, Shape
<1>3. At(1) = {rootPage}
  <2>1. ASSUME NEW c \in Page, d[c] = 1 PROVE c = rootPage
    <3>1. \A p \in Page : c \in Kids(node, d, height)[p] => d[p] > 0 /\ d[c] = d[p] + 1
      BY <1>2 DEF Tree
    <3>2. \A p \in Page : d[p] \in Nat
      BY <1>1
    <3>3. \A p \in Page : c \notin Kids(node, d, height)[p]
      BY <2>1, <3>1, <3>2
    <3> QED BY <2>1, <3>3, <1>2 DEF Tree
  <2> QED BY <2>1, <1>1
<1>4. ASSUME NEW l \in 2 .. height
      PROVE  At(l) = UNION {Addresses(node[p]) : p \in At(l - 1)}
  <2>1. ASSUME NEW p \in At(l - 1)
        PROVE  /\ Addresses(node[p]) = Kids(node, d, height)[p]
               /\ \A c \in Addresses(node[p]) : c \in At(l)
    <3>1. p \in Page /\ d[p] > 0 /\ d[p] < height /\ d[p] + 1 = l
      BY <1>1
    <3> QED BY <3>1, InnerNode
  <2>2. ASSUME NEW c \in At(l) PROVE \E p \in At(l - 1) : c \in Addresses(node[p])
    <3>1. c \in Page /\ d[c] = l /\ c \notin {rootPage}
      BY <1>1
    <3>2. PICK p \in Page : c \in Kids(node, d, height)[p]
      BY <3>1, <1>2, <1>1 DEF Tree
    <3>3. d[p] > 0 /\ d[c] = d[p] + 1 /\ d[p] \in Nat
      BY <3>2, <1>1, <1>2 DEF Tree
    <3>4. p \in At(l - 1)
      BY <3>1, <3>3
    <3> QED BY <3>2, <3>4, <2>1
  <2> HIDE DEF At
  <2> QED BY <2>1, <2>2
<1> HIDE DEF At
<1>5. f = [l \in 1 .. height |-> IF l = 1 THEN {rootPage} ELSE UNION {Addresses(node[p]) : p \in f[l - 1]}]
  <2>1. ASSUME NEW l \in 1 .. height
        PROVE  At(l) = IF l = 1 THEN {rootPage} ELSE UNION {Addresses(node[p]) : p \in f[l - 1]}
    <3>1. CASE l = 1
      BY <3>1, <1>3
    <3>2. CASE l # 1
      <4>1. l \in 2 .. height /\ l - 1 \in 1 .. height
        BY <3>2, <1>1
      <4>2. f[l - 1] = At(l - 1)
        BY <4>1
      <4> QED BY <3>2, <4>1, <4>2, <1>4
    <3> QED BY <3>1, <3>2
  <2> QED BY <2>1
<1>6. Level = [l \in 1 .. height |-> IF l = 1 THEN {rootPage} ELSE UNION {Addresses(node[p]) : p \in Level[l - 1]}]
  BY <1>5 DEF Level
<1> DEFINE T == {l \in 1 .. height : Level[l] = At(l) /\ At(l) # {}}
<1>7. 1 .. height \subseteq T
  <2>1. 1 \in T
    BY <1>1, <1>3, <1>6
  <2>2. ASSUME NEW l \in 1 .. (height - 1), l \in T PROVE l + 1 \in T
    <3>1. l + 1 \in 2 .. height /\ (l + 1) - 1 = l /\ l + 1 \in 1 .. height /\ l + 1 # 1
      BY <1>1
    <3>2. Level[l + 1] = UNION {Addresses(node[p]) : p \in Level[l]}
      BY <3>1, <1>6
    <3>3. Level[l + 1] = At(l + 1)
      BY <3>1, <3>2, <2>2, <1>4
    <3>4. PICK p \in Page : d[p] = l
      BY <2>2 DEF At
    <3>5. d[p] > 0 /\ d[p] < height
      BY <3>4, <1>1
    <3>6. Child(p, 0) \in Page /\ d[Child(p, 0)] = d[p] + 1
      BY <3>5, ChildIs
    <3> QED BY <3>1, <3>3, <3>4, <3>6 DEF At
  <2> HIDE DEF T
  <2> QED BY <2>1, <2>2, <1>1, Upward
<1> QED BY <1>6, <1>7 DEF At

LEMMA LevelIs ==
  ASSUME NEW d, NEW rk, IsTree(d, rk)
  PROVE  \A l \in 1 .. height : Level[l] = {p \in Page : d[p] = l} /\ Level[l] # {}
BY LevelsAre

-----------------------------------------------------------------------------
(* The invariant implies the properties.                                    *)
LEMMA LevelLinked ==
  ASSUME NEW d, NEW rk, IsTree(d, rk), NEW l \in 1 .. height
  PROVE  Linked(Level[l])
<1> DEFINE L == Level[l]
           lf == Lefts(node)
           rt == Rights(node)
           heads == {p \in L : node[p].left = NoPage}
<1>1. Chain(lf, rt, d, rk) /\ rk \in [Page -> Nat]
  BY DEF IsTree, Shape, Chain
<1>2. L = {p \in Page : d[p] = l} /\ L # {}
  BY LevelIs
<1>3. \A p \in L : p \in Page /\ d[p] > 0 /\ d[p] = l /\ node[p] # None
  BY <1>2, LiveNode DEF IsTree
<1>4. \A p \in L : lf[p] = node[p].left /\ rt[p] = node[p].right
  BY <1>3 DEF Lefts, Rights
<1>5. \A p \in L : lf[p] \in Page \cup {NoPage} /\ rt[p] \in Page \cup {NoPage}
  BY <1>1, <1>3 DEF Chain
<1> HIDE DEF L, lf, rt
<1>6. ASSUME NEW p \in L, rt[p] # NoPage PROVE rt[p] \in L /\ lf[rt[p]] = p
  BY <1>1, <1>2, <1>3, <1>5, <1>6 DEF Chain
<1>7. ASSUME NEW p \in L, lf[p] # NoPage PROVE lf[p] \in L /\ rt[lf[p]] = p
  BY <1>1, <1>2, <1>3, <1>5, <1>7 DEF Chain
\* The page of the least rank is the first.
<1>8. \E p \in L : lf[p] = NoPage
  <2> DEFINE R == {rk[p] : p \in L}
  <2>1. R \subseteq Nat /\ R # {}
    BY <1>1, <1>2, <1>3
  <2>2. Min(R) \in R /\ \A y \in R : Min(R) <= y
    BY <2>1, LeastNat
  <2>3. PICK p \in L : \A q \in L : rk[p] <= rk[q]
    BY <2>2
  <2>4. ASSUME lf[p] # NoPage PROVE FALSE
    <3>1. lf[p] \in L /\ rt[lf[p]] = p /\ p # NoPage
      BY <2>4, <1>3, <1>7, PageIsNumber
    <3>2. rk[lf[p]] < rk[p]
      BY <3>1, <1>1, <1>3 DEF Chain
    <3>3. rk[lf[p]] \in Nat /\ rk[p] \in Nat
      BY <3>1, <1>1, <1>3
    <3> QED BY <3>1, <3>2, <3>3, <2>3
  <2> QED BY <2>4
<1>9. \A p, q \in heads : p = q
  BY <1>1, <1>3, <1>4 DEF Chain
<1>10. Cardinality(heads) = 1
  <2>1. PICK p \in L : p \in heads
    BY <1>4, <1>8
  <2>2. heads = {p}
    BY <2>1, <1>9
  <2> HIDE DEF heads
  <2> QED BY <2>2, FS_Singleton
<1>11. \A p \in L : /\ node[p].right # NoPage => node[p].right \in L /\ node[node[p].right].left = p
                    /\ node[p].left # NoPage => node[p].left \in L /\ node[node[p].left].right = p
  BY <1>4, <1>6, <1>7
<1>12. Linked(L)
  BY <1>10, <1>11 DEF Linked
<1> QED BY <1>12 DEF L

LEMMA TreePagesAre ==
  ASSUME NEW d, NEW rk, IsTree(d, rk)
  PROVE  TreePages = Live(node)
<1>1. d \in [Page -> 0 .. height] /\ height \in Nat \ {0} /\ \A p \in Page : d[p] = 0 <=> node[p] = None
  BY DEF IsTree, Shape
<1>2. \A l \in 1 .. height : Level[l] = {p \in Page : d[p] = l}
  BY LevelIs
<1>3. ASSUME NEW p \in TreePages PROVE p \in Live(node)
  <2>1. PICK l \in 1 .. height : p \in Level[l]
    BY DEF TreePages
  <2>2. p \in Page /\ d[p] = l
    BY <2>1, <1>2
  <2> QED BY <2>2, <1>1 DEF Live
<1>4. ASSUME NEW p \in Live(node) PROVE p \in TreePages
  <2>1. p \in Page /\ d[p] \in 1 .. height
    BY <1>1 DEF Live
  <2>2. p \in Level[d[p]]
    BY <2>1, <1>2
  <2> QED BY <2>1, <2>2 DEF TreePages
<1> QED BY <1>3, <1>4

LEMMA EachOnce ==
  ASSUME NEW d, NEW rk, IsTree(d, rk), NEW p \in Page, NEW q \in Page,
         d[p] \in 1 .. (height - 1), d[q] \in 1 .. (height - 1),
         NEW i \in DOMAIN node[p].entries, NEW j \in DOMAIN node[q].entries,
         Addr(node[p], i) = Addr(node[q], j)
  PROVE  p = q /\ i = j
<1>1. height \in Nat \ {0} /\ d[p] > 0 /\ d[p] < height /\ d[q] > 0 /\ d[q] < height
  BY DEF IsTree, Shape
<1>2. Addresses(node[p]) = Kids(node, d, height)[p] /\ Addresses(node[q]) = Kids(node, d, height)[q]
  BY <1>1, InnerNode
<1>3. Addr(node[p], i) \in Addresses(node[p]) /\ Addr(node[q], j) \in Addresses(node[q])
  BY DEF Addresses
<1>4. p = q
  BY <1>2, <1>3 DEF IsTree, Shape, Tree
<1>5. Distinct(node[p])
  BY <1>1, LiveNode DEF IsTree
<1> QED BY <1>4, <1>5 DEF Distinct

LEMMA TreeInvImplies == TreeInv => ChainIsLevel /\ PagesAccounted /\ EntriesKept /\ NoEmptyNode
<1> SUFFICES ASSUME TreeInv PROVE ChainIsLevel /\ PagesAccounted /\ EntriesKept /\ NoEmptyNode
  OBVIOUS
<1>1. PICK d, rk : IsTree(d, rk) /\ Holds(node, d, height, Holding)
  BY DEF TreeInv
<1>2. height \in Nat \ {0} /\ d \in [Page -> 0 .. height]
  BY <1>1 DEF IsTree, Shape
<1>3. \A l \in 1 .. height : Level[l] = {p \in Page : d[p] = l}
  BY <1>1, LevelIs
<1>4. ChainIsLevel
  BY <1>1, LevelLinked DEF ChainIsLevel
<1>5. PagesAccounted
  <2> DEFINE inner == UNION {Level[l] : l \in 1 .. (height - 1)}
  <2>1. TreePages = Live(node) /\ Live(node) = {p \in Page : node[p] # None}
    BY <1>1, TreePagesAre DEF Live
  <2>2. used = {0} \cup junk \cup TreePages /\ numPages = 1 + Cardinality(TreePages)
    BY <2>1 DEF TreeInv, Accounts
  <2>3. \A p \in inner : p \in Page /\ d[p] \in 1 .. (height - 1)
    BY <1>2, <1>3
  <2> HIDE DEF inner
  <2>4. \A p, q \in inner : \A i \in DOMAIN node[p].entries, j \in DOMAIN node[q].entries :
           Addr(node[p], i) = Addr(node[q], j) => p = q /\ i = j
    BY <2>3, <1>1, EachOnce
  <2>5. \A p \in inner : rootPage \notin Addresses(node[p])
    <3>1. ASSUME NEW p \in inner, rootPage \in Addresses(node[p]) PROVE FALSE
      <4>1. d[p] > 0 /\ d[p] < height /\ p \in Page /\ d[p] \in Nat
        BY <2>3, <1>2
      <4>2. d[rootPage] = d[p] + 1
        BY <4>1, <3>1, <1>1, InnerNode
      <4> QED BY <4>1, <4>2, <1>1 DEF IsTree
    <3> QED BY <3>1
  <2> QED BY <2>1, <2>2, <2>4, <2>5 DEF PagesAccounted, inner
<1>6. EntriesKept
  <2>1. ASSUME ~aborted, NEW e \in due PROVE e \in Stored
    <3>1. PICK p \in Page : d[p] = height /\ e \in ToSet(node[p].entries)
      BY <2>1, <1>1 DEF Holds, Holding
    <3>2. p \in Level[height]
      BY <3>1, <1>2, <1>3
    <3> QED BY <3>1, <3>2 DEF Stored
  <2> QED BY <2>1 DEF EntriesKept
<1>7. NoEmptyNode
  BY <1>1 DEF NoEmptyNode, IsTree, Filled, Root
<1> QED BY <1>4, <1>5, <1>6, <1>7

\* Leaves are sorted.
LEMMA LeavesSorted ==
  ASSUME TreeInv, NEW p \in Level[height]
  PROVE  p \in Page /\ node[p] \in Node /\ Sorted(node[p])
<1>1. PICK d, rk : IsTree(d, rk) /\ Holds(node, d, height, Holding)
  BY DEF TreeInv
<1>2. height \in Nat \ {0} /\ d \in [Page -> 0 .. height]
  BY <1>1 DEF IsTree, Shape
<1>3. Level[height] = {x \in Page : d[x] = height}
  BY <1>1, <1>2, LevelIs
<1>4. p \in Page /\ d[p] = height /\ d[p] > 0
  BY <1>2, <1>3
<1>5. node[p] \in Node
  BY <1>1, <1>4, LiveNode DEF IsTree
<1> QED BY <1>1, <1>4, <1>5 DEF Holds

-----------------------------------------------------------------------------
(* A new index.                                                             *)
LEMMA EmptyNodeIs == EmptyNode \in Node /\ Size(EmptyNode) = 0 /\ Addresses(EmptyNode) = {} /\ Distinct(EmptyNode)
<1>1. EmptyNode \in Node /\ Size(EmptyNode) = 0
  BY DEF EmptyNode, Node, Size
<1>2. DOMAIN EmptyNode.entries = {}
  BY DEF EmptyNode
<1> QED BY <1>1, <1>2 DEF Addresses, Distinct

LEMMA NewPageIn ==
  ASSUME NEW bits, Page \ bits # {}
  PROVE  NewPage(bits) \in Page \ bits
BY PageIsNumber, LeastNat DEF NewPage

LEMMA TreeInvInit == Init => TreeInv
<1> SUFFICES ASSUME Init PROVE TreeInv
  OBVIOUS
<1> DEFINE d  == [p \in Page |-> IF p = rootPage THEN 1 ELSE 0]
           rk == [p \in Page |-> 0]
<1>1. junk \subseteq Unset /\ junk \subseteq Page /\ Page \ junk # {}
  BY IndexAssumption DEF Init, Page
<1>2. rootPage \in Page \ junk
  BY <1>1, NewPageIn DEF Init
<1>3. /\ used = {0, rootPage} \cup junk /\ numPages = 2 /\ height = 1 /\ top = rootPage
      /\ node = [p \in Page |-> IF p = rootPage THEN EmptyNode ELSE None]
      /\ treeLargest = None /\ aborted = FALSE /\ due = {}
  BY DEF Init
<1>4. /\ EmptyNode \in Node /\ Size(EmptyNode) = 0 /\ Addresses(EmptyNode) = {} /\ Distinct(EmptyNode)
      /\ EmptyNode # None /\ EmptyNode.left = NoPage /\ EmptyNode.right = NoPage
  BY EmptyNodeIs, NoneAssumption DEF EmptyNode
<1>5. /\ node \in Nodes /\ node[rootPage] = EmptyNode
      /\ \A p \in Page : p # rootPage => node[p] = None
  BY <1>2, <1>3, <1>4 DEF Nodes
<1>6. TypeOK
  <2>1. node \in [Page -> Node \cup {None}]
    BY <1>5 DEF Nodes
  <2>2. \A p \in Page : node[p] # None => Size(node[p]) <= Capacity
    BY <1>4, <1>5, NodeAssumption
  <2>3. used \subseteq Page \cup {0}
    BY <1>1, <1>2, <1>3
  <2>4. rootPage \in Page /\ node[rootPage] # None
    BY <1>2, <1>4, <1>5
  <2>5. /\ numPages \in Nat /\ height \in Nat \ {0} /\ treeLargest \in Keys \cup {None}
        /\ aborted \in BOOLEAN /\ top \in Page /\ junk \subseteq Unset /\ due \subseteq Keys \X Rids
    <3>1. aborted \in BOOLEAN
      BY <1>3
    <3>2. due \subseteq Keys \X Rids
      BY <1>3
    <3>3. top \in Page
      BY <1>2, <1>3
    <3>4. numPages \in Nat /\ height \in Nat \ {0} /\ treeLargest \in Keys \cup {None}
      BY <1>3
    <3> QED BY ONLY <3>1, <3>2, <3>3, <3>4, <1>1
  <2> QED BY ONLY <2>1, <2>2, <2>3, <2>4, <2>5 DEF TypeOK
<1>7. Live(node) = {rootPage}
  BY <1>2, <1>4, <1>5 DEF Live
<1>8. Accounts(node, used, numPages, junk)
  <2>1. Cardinality(Live(node)) = 1
    BY <1>7, FS_Singleton
  <2> QED BY <2>1, <1>1, <1>2, <1>3, <1>7 DEF Accounts
<1>9. /\ d \in [Page -> 0 .. height] /\ d[rootPage] = 1
      /\ \A p \in Page : p # rootPage => d[p] = 0
  BY <1>2, <1>3
<1> HIDE DEF d
<1>10. Tree(Kids(node, d, height), d, {rootPage})
  <2>1. Kids(node, d, height) \in [Page -> SUBSET Page] /\ \A p \in Page : Kids(node, d, height)[p] = {}
    BY <1>3, <1>9 DEF Kids
  <2> HIDE DEF d
  <2> QED BY <2>1, <1>2, <1>3, <1>9 DEF Tree
<1>11. Chain(Lefts(node), Rights(node), d, rk)
  <2>1. /\ Lefts(node) \in [Page -> Page \cup {NoPage}] /\ Rights(node) \in [Page -> Page \cup {NoPage}]
        /\ \A p \in Page : Lefts(node)[p] = NoPage /\ Rights(node)[p] = NoPage
    BY <1>4, <1>5 DEF Lefts, Rights
  <2>2. d \in [Page -> Nat] /\ rk \in [Page -> Nat]
    BY <1>3, <1>9
  <2> QED BY <2>1, <2>2, <1>9 DEF Chain
<1>12. Shape(node, d, rk, height, {rootPage})
  <2>1. \A p \in Page : d[p] = 0 <=> node[p] = None
    BY <1>4, <1>5, <1>9
  <2>2. \A p \in Live(node) : Size(node[p]) <= Capacity /\ (d[p] < height => Distinct(node[p]))
    BY <1>4, <1>5, <1>7, NodeAssumption
  <2>3. height \in Nat \ {0}
    BY <1>3
  <2> HIDE DEF rk
  <2> QED BY ONLY <2>1, <2>2, <2>3, <1>5, <1>9, <1>10, <1>11 DEF Shape
<1>13. IsTree(d, rk) /\ Holds(node, d, height, Holding)
  <2>1. Filled(node, Root)
    BY <1>3, <1>5 DEF Filled, Root
  <2>2. Holding = {}
    BY <1>3 DEF Holding
  <2>3. ASSUME NEW p \in Page, d[p] = height PROVE Sorted(node[p])
    <3>1. p = rootPage
      BY <2>3, <1>3, <1>9
    <3>2. node[p] = EmptyNode
      BY <3>1, <1>3
    <3> QED BY <3>2, EmptyNodeIs DEF Sorted
  <2> QED BY <2>1, <2>2, <2>3, <1>9, <1>12 DEF IsTree, Holds
<1> HIDE DEF rk
<1> QED BY <1>6, <1>8, <1>13 DEF TreeInv

-----------------------------------------------------------------------------
(* Inserting.                                                               *)

\* A change of keys leaves what the invariant says of the nodes.
LEMMA KeysFacts ==
  ASSUME NEW nd, NEW d, NEW rk, NEW h, NEW tops, Shape(nd, d, rk, h, tops),
         NEW m, RecordsKept(nd, m, d, h), NEW E, NEW but
  PROVE  /\ Live(m) = Live(nd)
         /\ Holds(nd, d, h, E) => Holds(m, d, h, E)
         /\ Filled(nd, but) => Filled(m, but)
<1>1. Live(m) = Live(nd)
  BY DEF Live, RecordsKept
<1>2. ASSUME Holds(nd, d, h, E) PROVE Holds(m, d, h, E)
  <2>1. \A x \in Page : d[x] = h => m[x] = nd[x]
    BY DEF RecordsKept
  <2> QED BY <2>1, <1>2 DEF Holds
<1>3. ASSUME Filled(nd, but) PROVE Filled(m, but)
  BY <1>3 DEF Filled, RecordsKept, OnlyKeysDiffer, IsEmpty
<1> QED BY <1>1, <1>2, <1>3

LEMMA SameKeys == ASSUME NEW n \in Node PROVE OnlyKeysDiffer(n, n)
BY DEF OnlyKeysDiffer

LEMMA RaisedIs ==
  ASSUME NEW d, NEW rk, IsTree(d, rk), NEW path, NEW k \in Keys, OnPath(path, d, k),
         \A i \in 1 .. (height - 1) : FindKey(node[path[i]], treeLargest) # 0
  PROVE  RecordsKept(node, Raised(path, k), d, height)
<1> DEFINE m == Raised(path, k)
<1>1. height \in Nat \ {0} /\ node \in Nodes /\ d \in [Page -> 0 .. height]
  BY DEF IsTree, Shape
<1>2. \A p \in Page : m[p] = IF \E i \in 1 .. (height - 1) : path[i] = p
                             THEN SetKey(node[p], FindKey(node[p], treeLargest), k) ELSE node[p]
  BY DEF Raised
<1>3. m = [p \in Page |-> m[p]]
  BY DEF Raised
<1> HIDE DEF m
<1>4. ASSUME NEW i \in 1 .. (height - 1)
      PROVE  /\ d[path[i]] # height /\ node[path[i]] # None
             /\ OnlyKeysDiffer(node[path[i]], SetKey(node[path[i]], FindKey(node[path[i]], treeLargest), k))
  <2>1. i \in 1 .. height /\ i # height /\ i > 0
    BY <1>1
  <2>2. path[i] \in Page /\ d[path[i]] = i
    BY <2>1 DEF OnPath
  <2>3. node[path[i]] \in Node /\ node[path[i]] # None
    BY <2>1, <2>2, LiveNode DEF IsTree
  <2>4. FindKey(node[path[i]], treeLargest) \in 1 .. Size(node[path[i]])
    <3> DEFINE n == node[path[i]]
               x == FindKey(n, treeLargest)
    <3>1. n \in Node /\ x # 0
      BY <2>3
    <3> HIDE DEF n, x
    <3>2. x \in 0 .. Size(n) /\ Size(n) \in Nat
      BY <3>1, Positions, EntryParts DEF x
    <3>3. x \in 1 .. Size(n)
      BY <3>1, <3>2
    <3> QED BY <3>3 DEF n, x
  <2>5. k \in SepKey
    BY DEF SepKey
  <2> QED BY <2>1, <2>2, <2>3, <2>4, <2>5, SetKeyIs
<1>5. ASSUME NEW p \in Page
      PROVE  /\ node[p] = None <=> m[p] = None
             /\ d[p] = height => m[p] = node[p]
             /\ node[p] # None => OnlyKeysDiffer(node[p], m[p])
  <2>1. CASE \E i \in 1 .. (height - 1) : path[i] = p
    <3>1. PICK i \in 1 .. (height - 1) : path[i] = p
      BY <2>1
    <3>2. m[p] = SetKey(node[p], FindKey(node[p], treeLargest), k)
      BY <2>1, <1>2
    <3>3. OnlyKeysDiffer(node[p], m[p]) /\ node[p] # None /\ d[p] # height
      BY <3>1, <3>2, <1>4
    <3>4. m[p] # None
      BY <3>3, NoneAssumption DEF OnlyKeysDiffer
    <3> QED BY <3>3, <3>4
  <2>2. CASE ~ \E i \in 1 .. (height - 1) : path[i] = p
    <3>1. m[p] = node[p]
      BY <2>2, <1>2
    <3>2. node[p] # None => node[p] \in Node
      BY <1>1 DEF Nodes
    <3> QED BY <3>1, <3>2, SameKeys
  <2> QED BY <2>1, <2>2
<1>6. m \in Nodes
  <2>1. \A p \in Page : m[p] \in Node \cup {None}
    BY <1>1, <1>5 DEF Nodes, OnlyKeysDiffer
  <2> QED BY <2>1, <1>3 DEF Nodes
<1> QED BY <1>5, <1>6 DEF RecordsKept, m

LEMMA AccountsGain ==
  ASSUME NEW nd, NEW m, NEW bits, NEW count, NEW extra, Accounts(nd, bits, count, extra),
         NEW q \in Page \ bits, Live(m) = Live(nd) \cup {q}
  PROVE  Accounts(m, bits \cup {q}, count + 1, extra)
<1>1. IsFiniteSet(Live(nd))
  BY PageIsNumber, FS_Subset DEF Live
<1>2. q \notin Live(nd) /\ q \notin extra
  BY DEF Accounts
<1>3. Cardinality(Live(m)) = Cardinality(Live(nd)) + 1 /\ Cardinality(Live(nd)) \in Nat
  BY <1>1, <1>2, FS_AddElement, FS_CardinalityType
<1> QED BY <1>2, <1>3 DEF Accounts

LEMMA AccountsLose ==
  ASSUME NEW nd, NEW m, NEW bits, NEW count, NEW extra, Accounts(nd, bits, count, extra),
         NEW p \in Live(nd), Live(m) = Live(nd) \ {p}
  PROVE  Accounts(m, bits \ {p}, count - 1, extra)
<1>1. IsFiniteSet(Live(nd))
  BY PageIsNumber, FS_Subset DEF Live
<1>2. p \notin extra /\ p # 0
  BY PageIsNumber DEF Accounts, Live
<1>3. Cardinality(Live(m)) = Cardinality(Live(nd)) - 1 /\ Cardinality(Live(nd)) \in Nat
  BY <1>1, FS_RemoveElement, FS_CardinalityType
<1> QED BY <1>2, <1>3 DEF Accounts

LEMMA AccountsType ==
  ASSUME NEW nd, NEW bits, NEW count, NEW extra, Accounts(nd, bits, count, extra)
  PROVE  bits \subseteq Page \cup {0} /\ count \in Nat
<1>1. IsFiniteSet(Live(nd)) /\ Live(nd) \subseteq Page
  BY PageIsNumber, FS_Subset DEF Live
<1>2. Cardinality(Live(nd)) \in Nat
  BY <1>1, FS_CardinalityType
<1> QED BY <1>1, <1>2 DEF Accounts

\* The loop of an insert.  Every full node on the path finds a page.
States == [node : Nodes, used : SUBSET (Page \cup {0}), count : Nat, carry : Entry, done : BOOLEAN]

PutContext(nodes, path, k, e) ==
  /\ path \in [1 .. height -> Page] /\ path[1] = rootPage
  /\ height \in Nat \ {0} /\ k \in Keys /\ e \in Entry
  /\ \A l \in 1 .. (height - 1) : LET i == ChildPos(node[path[l]], k)
                                  IN  /\ i \in 1 .. Size(nodes[path[l]])
                                      /\ Addr(nodes[path[l]], i) = path[l + 1]
  /\ \A l \in 1 .. height : (\A i \in l .. height : Full(node[path[i]]))
                              => Cardinality(Page \ used) >= height + 1 - l

\* What is still on its way up at level l: nothing has been done to the levels
\* above it but for keys, and an entry of the one next to it.
OnTheWay(s, nodes, path, l, d) ==
  /\ l <= height => s.carry[2] \in Page \ {rootPage} /\ d[s.carry[2]] = l
  /\ \A i \in 1 .. (l - 1) : d[path[i]] = i /\ Size(s.node[path[i]]) = Size(node[path[i]])
  /\ \A i \in 1 .. (l - 2) : s.node[path[i]] = nodes[path[i]]
  /\ \A i \in l .. height : Full(node[path[i]])
  /\ Cardinality(Page \ s.used) + (height + 1 - l) >= Cardinality(Page \ used)

Put(s, nodes, path, l, e, E, d, rk) ==
  /\ s \in States /\ d[rootPage] = 1
  /\ Accounts(s.node, s.used, s.count, junk)
  /\ Shape(s.node, d, rk, height, IF s.done \/ l > height THEN {rootPage} ELSE {rootPage, s.carry[2]})
  /\ l > height => /\ ~s.done /\ s.carry = e /\ Fresh(s.node[path[height]], e[1])
                   /\ Holds(s.node, d, height, E) /\ Filled(s.node, Root)
  /\ l <= height => Holds(s.node, d, height, E \cup {e}) /\ Filled(s.node, {})
  /\ ~s.done => OnTheWay(s, nodes, path, l, d)

\* The entry on its way can be put into the page of level l.
Above(s, l)   == IF l = height THEN {rootPage} ELSE {rootPage, s.carry[2]}
Had(l, e, E)  == IF l = height THEN E ELSE E \cup {e}

Ready(s, p, l, e, E, d, rk) ==
  /\ Shape(s.node, d, rk, height, Above(s, l)) /\ p \in Page /\ d[p] = l
  /\ Placeable(s.node, d, height, Above(s, l), p, s.carry)
  /\ Without(d, height, Above(s, l), p, s.carry) = {rootPage}
  /\ With(d, height, Had(l, e, E), p, s.carry) = E \cup {e}
  /\ Holds(s.node, d, height, Had(l, e, E)) /\ Filled(s.node, {p})
  /\ Size(s.node[p]) = Size(node[p])

LEMMA PutReady ==
  ASSUME NEW nodes, NEW path, NEW k, NEW e, PutContext(nodes, path, k, e), NEW E, NEW d, NEW rk,
         NEW s, NEW l \in 1 .. height, Put(s, nodes, path, l + 1, e, E, d, rk), ~s.done
  PROVE  Ready(s, path[l], l, e, E, d, rk)
<1> DEFINE T == IF l = height THEN {rootPage} ELSE {rootPage, s.carry[2]}
           F == IF l = height THEN E ELSE E \cup {e}
           p == path[l]
<1>1. height \in Nat \ {0} /\ l \in Nat /\ l >= 1 /\ l <= height /\ p \in Page
  BY DEF PutContext
<1>2. (l + 1 > height) <=> l = height
  BY <1>1
<1>3. Shape(s.node, d, rk, height, T) /\ Holds(s.node, d, height, F)
  BY <1>1, <1>2 DEF Put
<1>4. d[p] = l /\ Size(s.node[p]) = Size(node[p])
  <2>1. l \in 1 .. ((l + 1) - 1)
    BY <1>1
  <2> QED BY <2>1 DEF Put, OnTheWay
<1>5. s.carry \in Entry
  BY DEF Put, States
<1>6. l < height => s.carry[2] \in Page \ {rootPage} /\ d[s.carry[2]] = l + 1
  BY <1>1 DEF Put, OnTheWay
<1>7. Placeable(s.node, d, height, T, p, s.carry)
  <2>1. l = height => Fresh(s.node[p], s.carry[1])
    BY <1>1, <1>2 DEF Put
  <2> QED BY <2>1, <1>1, <1>4, <1>5, <1>6 DEF Placeable
<1>8. Without(d, height, T, p, s.carry) = {rootPage}
  BY <1>1, <1>4, <1>6 DEF Without
<1>9. With(d, height, F, p, s.carry) = E \cup {e}
  BY <1>1, <1>2, <1>4 DEF With, Put
<1>10. Filled(s.node, {p})
  <2>1. CASE l = height
    <3>1. Filled(s.node, Root) /\ (height = 1 => p = rootPage)
      BY <2>1, <1>1, <1>2 DEF Put, PutContext
    <3> QED BY <3>1 DEF Filled, Root
  <2>2. CASE l # height
    BY <2>2, <1>1, <1>2 DEF Put, Filled
  <2> QED BY <2>1, <2>2
<1> QED BY <1>1, <1>3, <1>4, <1>7, <1>8, <1>9, <1>10 DEF Ready, Above, Had

LEMMA PutLast ==
  ASSUME NEW nodes, NEW path, NEW k, NEW e, PutContext(nodes, path, k, e), NEW E, NEW d, NEW rk,
         NEW s, NEW l \in 1 .. height, Put(s, nodes, path, l + 1, e, E, d, rk), ~s.done,
         ~Full(s.node[path[l]])
  PROVE  Put(PutAt(s, path, l, k), nodes, path, l, e, E, d, rk)
<1> DEFINE T == Above(s, l)
           F == Had(l, e, E)
           p == path[l]
           c == s.carry
           m == [s.node EXCEPT ![p] = Insert(s.node[p], c)]
           t == PutAt(s, path, l, k)
<1>1. /\ Shape(s.node, d, rk, height, T) /\ p \in Page /\ d[p] = l
      /\ Placeable(s.node, d, height, T, p, c) /\ Without(d, height, T, p, c) = {rootPage}
      /\ With(d, height, F, p, c) = E \cup {e}
      /\ Holds(s.node, d, height, F) /\ Filled(s.node, {p})
  <2>1. Ready(s, path[l], l, e, E, d, rk)
    BY PutReady
  <2> QED BY <2>1 DEF Ready
<1>2. s \in States /\ s.node \in Nodes /\ height \in Nat \ {0} /\ l \in Nat /\ l >= 1 /\ l <= height
      /\ d[rootPage] = 1 /\ Accounts(s.node, s.used, s.count, junk)
  BY DEF Put, States, PutContext
<1>3. t = [s EXCEPT !.node = m, !.done = TRUE]
  <2>1. t = [s EXCEPT !.node[p] = Insert(@, s.carry), !.done = TRUE]
    BY DEF PutAt
  <2> QED BY <2>1, <1>2 DEF States
<1>4. d[p] > 0 /\ Size(s.node[p]) < Capacity
  <2>1. s.node[p] \in Node /\ Size(s.node[p]) <= Capacity
    BY <1>1, <1>2, LiveNode
  <2>2. Size(s.node[p]) \in Nat /\ Capacity \in Nat
    BY <2>1, EntryParts, NodeAssumption
  <2> QED BY <2>1, <2>2, <1>1, <1>2 DEF Full
<1> HIDE DEF T, F, p, c, t
<1>5. /\ Shape(m, d, rk, height, Without(d, height, T, p, c))
      /\ Live(m) = Live(s.node)
      /\ Holds(s.node, d, height, F) => Holds(m, d, height, With(d, height, F, p, c))
      /\ Filled(s.node, {p}) => Filled(m, {})
  <2> DEFINE nd == s.node
  <2>1. Shape(nd, d, rk, height, T) /\ p \in Page /\ d[p] > 0 /\ Size(nd[p]) < Capacity
        /\ Placeable(nd, d, height, T, p, c)
    BY <1>1, <1>4
  <2> HIDE DEF nd
  <2>2. LET m1 == [nd EXCEPT ![p] = Insert(nd[p], c)]
        IN  /\ Shape(m1, d, rk, height, Without(d, height, T, p, c))
            /\ Live(m1) = Live(nd)
            /\ Holds(nd, d, height, F) => Holds(m1, d, height, With(d, height, F, p, c))
            /\ Filled(nd, {p}) => Filled(m1, {})
    BY ONLY <2>1, PutOne
  <2> QED BY <2>2 DEF nd
<1> HIDE DEF m
<1>6. m \in Nodes
  BY <1>5 DEF Shape
<1>7. t \in States /\ t.node = m /\ t.used = s.used /\ t.count = s.count /\ t.done = TRUE
  BY <1>2, <1>3, <1>6 DEF States
<1>8. Accounts(m, s.used, s.count, junk)
  BY <1>2, <1>5 DEF Accounts
<1>9. ~ (l > height)
  BY <1>2
<1>10. Put(t, nodes, path, l, e, E, d, rk)
  BY <1>1, <1>2, <1>5, <1>7, <1>8, <1>9 DEF Put
<1> QED BY <1>10 DEF t

\* A page is left for the node to be split.
LEMMA PageLeft ==
  ASSUME NEW nodes, NEW path, NEW k, NEW e, PutContext(nodes, path, k, e), NEW d,
         NEW s, s.used \in SUBSET (Page \cup {0}), NEW l \in 1 .. height, OnTheWay(s, nodes, path, l + 1, d),
         Size(s.node[path[l]]) = Size(node[path[l]]), Full(s.node[path[l]])
  PROVE  /\ NewPage(s.used) \in Page \ s.used
         /\ \A i \in l .. height : Full(node[path[i]])
         /\ \A q \in Page \ s.used : Cardinality(Page \ (s.used \cup {q})) + (height + 1 - l)
                                       >= Cardinality(Page \ used)
<1>1. height \in Nat \ {0} /\ l \in Nat /\ l >= 1 /\ l <= height
  BY DEF PutContext
<1>2. \A i \in l .. height : Full(node[path[i]])
  <2>1. ASSUME NEW i \in l .. height PROVE Full(node[path[i]])
    <3>1. CASE i = l
      BY <3>1 DEF Full
    <3>2. CASE i # l
      <4>1. i \in (l + 1) .. height
        BY <3>2, <1>1
      <4> QED BY <4>1 DEF OnTheWay
    <3> QED BY <3>1, <3>2
  <2> QED BY <2>1
<1> DEFINE free == Page \ s.used
<1>3. Cardinality(Page \ used) >= height + 1 - l /\ Cardinality(free) + (height + 1 - (l + 1)) >= Cardinality(Page \ used)
  BY <1>2 DEF PutContext, OnTheWay
<1>4. IsFiniteSet(free) /\ IsFiniteSet(Page \ used)
  BY PageIsNumber, FS_Subset
<1>5. Cardinality(free) \in Nat /\ Cardinality(Page \ used) \in Nat
  BY <1>4, FS_CardinalityType
<1>6. free # {}
  <2>1. Cardinality(free) >= 1
    BY <1>1, <1>3, <1>5
  <2> QED BY <2>1, FS_EmptySet
<1>7. NewPage(s.used) \in free
  BY <1>6, NewPageIn
<1>8. ASSUME NEW q \in free
      PROVE  Cardinality(Page \ (s.used \cup {q})) + (height + 1 - l) >= Cardinality(Page \ used)
  <2>1. Page \ (s.used \cup {q}) = free \ {q}
    OBVIOUS
  <2> HIDE DEF free
  <2>2. Cardinality(free \ {q}) = Cardinality(free) - 1
    BY <1>4, FS_RemoveElement
  <2> DEFINE f == Cardinality(free)
             g == Cardinality(free \ {q})
             u == Cardinality(Page \ used)
  <2>3. g = f - 1 /\ f \in Nat /\ u \in Nat /\ f + (height + 1 - (l + 1)) >= u
    BY <2>2, <1>3, <1>5
  <2>4. Cardinality(Page \ (s.used \cup {q})) = g
    BY <2>1
  <2> HIDE DEF f, g, u
  <2>5. g + (height + 1 - l) >= u
    BY <2>3, <1>1
  <2> QED BY <2>4, <2>5 DEF u
<1> QED BY <1>2, <1>7, <1>8

LEMMA PutSplit ==
  ASSUME NEW nodes, NEW path, NEW k, NEW e, PutContext(nodes, path, k, e), NEW E, NEW d, NEW rk,
         NEW s, NEW l \in 1 .. height, Put(s, nodes, path, l + 1, e, E, d, rk), ~s.done,
         Full(s.node[path[l]])
  PROVE  \E d2, rk2 : Put(PutAt(s, path, l, k), nodes, path, l, e, E, d2, rk2)
<1> DEFINE T == Above(s, l)
           F == Had(l, e, E)
           p == path[l]
           c == s.carry
           q == NewPage(s.used)
           A == Split(s.node[p], p, q).this
           B == Split(s.node[p], p, q).other
           right == k >= LargestKey(A)
           this == IF right THEN A ELSE Insert(A, c)
           other == IF right THEN Insert(B, c) ELSE B
           m1 == SplitPut(s.node, p, q, right, c)
           up == path[l - 1]
           pos == ChildPos(node[up], k)
           m2 == [m1 EXCEPT ![up] = Insert(RemoveEntry(m1[up], pos), <<LargestKey(this), p>>)]
           m == IF l = 1 THEN m1 ELSE m2
           d2 == [d EXCEPT ![q] = d[p]]
           t == PutAt(s, path, l, k)
<1>1. /\ Shape(s.node, d, rk, height, T) /\ p \in Page /\ d[p] = l
      /\ Placeable(s.node, d, height, T, p, c) /\ Without(d, height, T, p, c) = {rootPage}
      /\ With(d, height, F, p, c) = E \cup {e}
      /\ Holds(s.node, d, height, F) /\ Filled(s.node, {p})
      /\ Size(s.node[p]) = Size(node[p])
  <2>1. Ready(s, path[l], l, e, E, d, rk)
    BY PutReady
  <2> QED BY <2>1 DEF Ready
<1>2. s \in States /\ s.node \in Nodes /\ height \in Nat \ {0} /\ l \in Nat /\ l >= 1 /\ l <= height
      /\ d[rootPage] = 1 /\ Accounts(s.node, s.used, s.count, junk) /\ OnTheWay(s, nodes, path, l + 1, d)
      /\ s.used \in SUBSET (Page \cup {0}) /\ s.count \in Nat /\ c \in Entry /\ k \in Int
  BY IndexAssumption DEF Put, States, PutContext
<1>3. /\ q \in Page /\ q \notin s.used
      /\ \A i \in l .. height : Full(node[path[i]])
      /\ Cardinality(Page \ (s.used \cup {q})) + (height + 1 - l) >= Cardinality(Page \ used)
  BY <1>1, <1>2, PageLeft
<1>4. t = [node  |-> m, used |-> s.used \cup {q}, count |-> s.count + 1,
           carry |-> <<LargestKey(other), q>>, done |-> FALSE]
  <2>1. t = SplitAt(s, path, l, k)
    BY DEF PutAt
  <2> QED BY <2>1 DEF SplitAt, SplitPut
<1> HIDE DEF T, F, p, c, q, t
<1>5. d[q] = 0
  <2>1. q \notin Live(s.node)
    BY <1>2, <1>3 DEF Accounts
  <2> QED BY <2>1, <1>1, <1>3, LiveNode DEF Live
<1>6. /\ s.node[p] \in Node /\ Size(s.node[p]) >= 2 /\ Size(s.node[p]) = Capacity /\ d[p] > 0
  BY <1>1, <1>2, LiveNode, NodeAssumption DEF Full, p
<1>7. /\ A \in Node /\ B \in Node /\ ~IsEmpty(A) /\ ~IsEmpty(B)
  <2> DEFINE nd == s.node[p]
  <2>1. nd \in Node /\ Size(nd) >= 2
    BY <1>6
  <2> HIDE DEF nd
  <2>2. LET A1 == Split(nd, p, q).this
            B1 == Split(nd, p, q).other
        IN  A1 \in Node /\ B1 \in Node /\ ~IsEmpty(A1) /\ ~IsEmpty(B1)
    BY ONLY <2>1, <1>1, <1>3, SplitIs
  <2> QED BY <2>2 DEF nd
<1> HIDE DEF A, B
<1>8. LargestKey(A) \in SepKey /\ right \in BOOLEAN
  <2>1. Size(A) \in 1 .. Size(A)
    BY <1>7, EntryParts DEF IsEmpty
  <2>2. LargestKey(A) \in SepKey
    BY <2>1, <1>7, EntryParts DEF LargestKey
  <2> QED BY <2>2
<1> HIDE DEF right
<1>9. LargestKey(this) \in SepKey /\ LargestKey(other) \in SepKey
  <2>1. /\ Insert(A, c) \in Node /\ Size(Insert(A, c)) = Size(A) + 1
        /\ Insert(B, c) \in Node /\ Size(Insert(B, c)) = Size(B) + 1
    BY <1>2, <1>7, InsertIs
  <2>2. Size(A) \in Nat /\ Size(B) \in Nat
    BY <1>7, EntryParts
  <2>3. /\ this \in Node /\ Size(this) \in Nat /\ Size(this) # 0
        /\ other \in Node /\ Size(other) \in Nat /\ Size(other) # 0
    BY <2>1, <2>2, <1>7 DEF IsEmpty
  <2> HIDE DEF this, other
  <2>4. Size(this) \in 1 .. Size(this) /\ Size(other) \in 1 .. Size(other)
    BY <2>3
  <2> QED BY <2>3, <2>4, EntryParts DEF LargestKey
<1> HIDE DEF this, other
<1>10. /\ \E rk2 : Shape(m1, d2, rk2, height, Without(d, height, T, p, c) \cup {q})
       /\ Live(m1) = Live(s.node) \cup {q}
       /\ \A x \in Page \ {p, q} : d[x] # d[p] => m1[x] = s.node[x]
       /\ Holds(s.node, d, height, F) => Holds(m1, d2, height, With(d, height, F, p, c))
       /\ Filled(s.node, {p}) => Filled(m1, {})
  <2> DEFINE nd == s.node
  <2>1. Shape(nd, d, rk, height, T) /\ p \in Page /\ q \in Page /\ d[p] > 0 /\ d[q] = 0
        /\ Size(nd[p]) = Capacity /\ Placeable(nd, d, height, T, p, c) /\ right \in BOOLEAN
    BY <1>1, <1>3, <1>5, <1>6, <1>8
  <2> HIDE DEF nd, d2
  <2>2. SplitDone(nd, d, height, T, F, c, p, q, SplitPut(nd, p, q, right, c), [d EXCEPT ![q] = d[p]])
    BY ONLY <2>1, SplitOne
  <2> QED BY <2>2 DEF nd, d2, SplitDone
<1> HIDE DEF m1
<1>11. PICK rk2 : Shape(m1, d2, rk2, height, {rootPage, q})
  <2>1. {rootPage} \cup {q} = {rootPage, q}
    OBVIOUS
  <2> HIDE DEF d2
  <2> QED BY <2>1, <1>1, <1>10
<1>12. d2 \in [Page -> 0 .. height] /\ d2[q] = l /\ \A x \in Page : x # q => d2[x] = d[x]
  <2>1. d \in [Page -> 0 .. height]
    BY <1>1 DEF Shape
  <2> QED BY <2>1, <1>1, <1>3
<1> HIDE DEF d2
<1>13. Holds(m1, d2, height, E \cup {e}) /\ Filled(m1, {})
  BY <1>1, <1>10
\* The levels above.
<1>14. ASSUME NEW i \in 1 .. (l - 1)
       PROVE  /\ i \in 1 .. height /\ path[i] \in Page /\ d[path[i]] = i /\ d2[path[i]] = i
              /\ m1[path[i]] = s.node[path[i]] /\ m1[path[i]] = nodes[path[i]]
              /\ Size(m1[path[i]]) = Size(node[path[i]])
  <2>1. i \in 1 .. height /\ i \in 1 .. ((l + 1) - 1) /\ i \in 1 .. ((l + 1) - 2) /\ i # l /\ i # 0
    BY <1>2
  <2>2. d[path[i]] = i /\ Size(s.node[path[i]]) = Size(node[path[i]]) /\ s.node[path[i]] = nodes[path[i]]
    BY <2>1, <1>2 DEF OnTheWay
  <2>3. path[i] \in Page
    BY <2>1 DEF PutContext
  <2>4. path[i] # p /\ path[i] # q
    BY <2>1, <2>2, <1>1, <1>5
  <2> QED BY <2>1, <2>2, <2>3, <2>4, <1>1, <1>10, <1>12
<1>15. /\ Shape(m, d2, rk2, height, {rootPage, q}) /\ Live(m) = Live(m1)
       /\ Holds(m, d2, height, E \cup {e}) /\ Filled(m, {})
       /\ \A i \in 1 .. (l - 1) : Size(m[path[i]]) = Size(node[path[i]])
       /\ \A i \in 1 .. (l - 2) : m[path[i]] = nodes[path[i]]
  <2>1. CASE l = 1
    <3>1. m = m1
      BY <2>1
    <3> QED BY <2>1, <3>1, <1>11, <1>13
  <2>2. CASE l # 1
    <3>1. l - 1 \in 1 .. (l - 1) /\ l - 1 \in 1 .. (height - 1) /\ (l - 1) + 1 = l /\ l - 1 > 0 /\ l - 1 < height
      BY <2>2, <1>2
    <3>2. m = m2
      BY <2>2
    <3>3. up \in Page /\ d2[up] = l - 1 /\ m1[up] = nodes[up] /\ Size(m1[up]) = Size(node[up])
      BY <3>1, <1>14
    <3>4. pos \in 1 .. Size(m1[up]) /\ Addr(m1[up], pos) = p
      BY <3>1, <3>3 DEF PutContext, p
    <3> HIDE DEF m, m2, up, pos
    <3>5. m2 = [m1 EXCEPT ![up] = Insert(RemoveEntry(m1[up], pos), <<LargestKey(this), Addr(m1[up], pos)>>)]
      BY <3>4 DEF m2, up, pos
    <3> DEFINE U == {rootPage, q}
               G == E \cup {e}
               key == LargestKey(this)
    <3>6. Shape(m1, d2, rk2, height, U) /\ key \in SepKey /\ d2[up] > 0 /\ d2[up] < height
      BY <3>1, <3>3, <1>9, <1>11
    <3> HIDE DEF U, G, key
    <3>7. Rekeyed(m1, d2, rk2, height, U, G, up, [m1 EXCEPT ![up] = Insert(RemoveEntry(m1[up], pos), <<key, Addr(m1[up], pos)>>)])
      BY ONLY <3>3, <3>4, <3>6, RekeyOne
    <3>8. /\ Shape(m2, d2, rk2, height, U)
          /\ Size(m2[up]) = Size(m1[up]) /\ \A x \in Page \ {up} : m2[x] = m1[x]
          /\ Live(m2) = Live(m1)
          /\ Holds(m1, d2, height, G) => Holds(m2, d2, height, G)
          /\ Filled(m1, {}) => Filled(m2, {})
      BY <3>5, <3>7 DEF key, Rekeyed
    <3>9. \A i \in 1 .. (l - 1) : Size(m2[path[i]]) = Size(node[path[i]])
      BY <3>3, <3>8, <1>14
    <3>10. \A i \in 1 .. (l - 2) : m2[path[i]] = nodes[path[i]]
      <4>1. ASSUME NEW i \in 1 .. (l - 2) PROVE m2[path[i]] = nodes[path[i]]
        <5>1. i \in 1 .. (l - 1) /\ i # l - 1
          BY <1>2
        <5>2. path[i] \in Page /\ path[i] # up /\ m1[path[i]] = nodes[path[i]]
          BY <5>1, <3>3, <1>14
        <5> QED BY <5>2, <3>8
      <4> QED BY <4>1
    <3> QED BY <3>2, <3>8, <3>9, <3>10, <1>13 DEF U, G
  <2> QED BY <2>1, <2>2
<1> HIDE DEF m
<1>16. /\ m \in Nodes /\ q # rootPage /\ <<LargestKey(other), q>> \in Entry /\ d2[rootPage] = 1
  <2>1. m \in Nodes
    BY <1>15 DEF Shape
  <2>2. q # rootPage /\ rootPage \in Page
    BY <1>2, <1>5, <1>11 DEF Shape, Tree
  <2> QED BY <2>1, <2>2, <1>2, <1>3, <1>9, <1>12 DEF Entry, SepKey
<1>17. /\ t \in States /\ t.node = m /\ t.used = s.used \cup {q} /\ t.count = s.count + 1
       /\ t.carry[2] = q /\ t.done = FALSE
  <2>1. s.used \cup {q} \in SUBSET (Page \cup {0}) /\ s.count + 1 \in Nat
    BY <1>2, <1>3
  <2> QED BY <2>1, <1>4, <1>16 DEF States
<1>18. Accounts(t.node, t.used, t.count, junk)
  <2>1. Live(m) = Live(s.node) \cup {q}
    BY <1>10, <1>15
  <2> QED BY <2>1, <1>2, <1>3, <1>17, AccountsGain
<1>19. OnTheWay(t, nodes, path, l, d2)
  BY <1>3, <1>12, <1>14, <1>15, <1>16, <1>17 DEF OnTheWay
<1>20. Put(t, nodes, path, l, e, E, d2, rk2)
  <2>1. ~ (l > height)
    BY <1>2
  <2> QED BY <2>1, <1>15, <1>16, <1>17, <1>18, <1>19 DEF Put
<1> QED BY <1>20 DEF t

LEMMA PutStep ==
  ASSUME NEW nodes, NEW path, NEW k, NEW e, PutContext(nodes, path, k, e), NEW E, NEW d, NEW rk,
         NEW s, NEW l \in 1 .. height, Put(s, nodes, path, l + 1, e, E, d, rk)
  PROVE  \E d2, rk2 : Put(PutAt(s, path, l, k), nodes, path, l, e, E, d2, rk2)
<1>1. CASE s.done
  <2>1. PutAt(s, path, l, k) = s
    BY <1>1 DEF PutAt
  <2>2. height \in Nat \ {0} /\ l \in Nat /\ l <= height
    BY DEF PutContext
  <2>3. ~ (l + 1 > height) /\ ~ (l > height) /\ l + 1 <= height
    BY <1>1, <2>2 DEF Put
  <2>4. Put(s, nodes, path, l, e, E, d, rk)
    BY <1>1, <2>2, <2>3 DEF Put
  <2> QED BY <2>1, <2>4
<1>2. CASE ~s.done /\ ~Full(s.node[path[l]])
  BY <1>2, PutLast
<1>3. CASE ~s.done /\ Full(s.node[path[l]])
  BY <1>3, PutSplit
<1> QED BY <1>1, <1>2, <1>3

PutStart(nodes, e) ==
  [node |-> nodes, used |-> used, count |-> numPages, carry |-> e, done |-> FALSE]

LEMMA PutUpIs ==
  ASSUME NEW nodes, NEW path, NEW e, PutContext(nodes, path, e[1], e), NEW E, NEW d, NEW rk,
         Put(PutStart(nodes, e), nodes, path, height + 1, e, E, d, rk)
  PROVE  \E d2, rk2 : Put(PutUp(nodes, path, e), nodes, path, 1, e, E, d2, rk2)
<1> DEFINE N == height + 1
           k == e[1]
           start == PutStart(nodes, e)
           G == [l \in 1 .. N |-> {s \in States : \E d2, rk2 : Put(s, nodes, path, l, e, E, d2, rk2)}]
           step == [l \in 1 .. N |-> [s \in States |-> PutAt(s, path, l, k)]]
<1>1. height \in Nat \ {0} /\ N \in Nat /\ N > 0 /\ N \in 1 .. N
  BY DEF PutContext
<1>2. ASSUME NEW l \in 1 .. height, NEW s \in G[l + 1]
      PROVE  PutAt(s, path, l, k) \in G[l]
  <2>1. l + 1 \in 1 .. N /\ l \in 1 .. N
    BY <1>1
  <2>2. PICK d2, rk2 : Put(s, nodes, path, l + 1, e, E, d2, rk2)
    BY <2>1, <1>2
  <2>3. \E d3, rk3 : Put(PutAt(s, path, l, k), nodes, path, l, e, E, d3, rk3)
    BY <2>2, PutStep
  <2>4. PutAt(s, path, l, k) \in States
    BY <2>3 DEF Put
  <2> QED BY <2>1, <2>3, <2>4
<1>3. start \in G[N]
  <2>1. start \in States
    BY DEF Put
  <2> QED BY <2>1, <1>1
<1>4. Falls(N, States, G, start, step)
  <2>1. \A l \in 1 .. N : G[l] \subseteq States
    OBVIOUS
  <2>2. ASSUME NEW l \in 1 .. (N - 1), NEW s \in G[l + 1] PROVE step[l][s] \in G[l]
    <3>1. l \in 1 .. height /\ l \in 1 .. N /\ l + 1 \in 1 .. N
      BY <1>1
    <3>2. s \in States
      BY <3>1, <2>2
    <3>3. step[l][s] = PutAt(s, path, l, k)
      BY <3>1, <3>2
    <3> HIDE DEF G, step
    <3> QED BY <3>1, <3>3, <2>2, <1>2
  <2>3. start \in States
    BY <1>1, <1>3, <2>1
  <2> HIDE DEF G, step, start, N
  <2> QED BY <2>1, <2>2, <2>3, <1>1, <1>3 DEF Falls
<1>5. \E f \in [1 .. N -> States] :
         \A l \in 1 .. N : f[l] = (IF l = N THEN start ELSE step[l][f[l + 1]]) /\ f[l] \in G[l]
  <2> HIDE DEF G, step, start, N
  <2> QED BY ONLY <1>4, Descent
<1>6. PICK f \in [1 .. N -> States] :
         \A l \in 1 .. N : f[l] = (IF l = N THEN start ELSE step[l][f[l + 1]]) /\ f[l] \in G[l]
  BY <1>5
<1> HIDE DEF start
<1>7. f = [l \in 1 .. (height + 1) |-> IF l > height THEN start ELSE PutAt(f[l + 1], path, l, e[1])]
  <2>1. ASSUME NEW l \in 1 .. N
        PROVE  f[l] = IF l > height THEN start ELSE PutAt(f[l + 1], path, l, e[1])
    <3>1. CASE l = N
      <4>1. l > height
        BY <3>1, <1>1
      <4> QED BY <3>1, <4>1, <1>6
    <3>2. CASE l # N
      <4>1. l + 1 \in 1 .. N /\ ~ (l > height)
        BY <3>2, <1>1
      <4>2. step[l][f[l + 1]] = PutAt(f[l + 1], path, l, e[1])
        BY <4>1
      <4> HIDE DEF step
      <4> QED BY <3>2, <4>1, <4>2, <1>6
    <3> QED BY <3>1, <3>2
  <2> QED BY <2>1
<1> DEFINE after[l \in 1 .. (height + 1)] ==
             IF l > height THEN start ELSE PutAt(after[l + 1], path, l, e[1])
<1>8. after = [l \in 1 .. (height + 1) |-> IF l > height THEN start ELSE PutAt(after[l + 1], path, l, e[1])]
  BY <1>7
<1>9. PutUp(nodes, path, e) = after[1]
  BY DEF PutUp, start, PutStart
<1> HIDE DEF after
<1> DEFINE T == {l \in 1 .. N : after[l] \in G[l]}
<1>10. 1 .. N \subseteq T
  <2>1. N \in T
    <3>1. after[N] = start
      BY <1>1, <1>8
    <3> QED BY <3>1, <1>1, <1>3
  <2>2. ASSUME NEW l \in 1 .. (N - 1), l + 1 \in T PROVE l \in T
    <3>1. l \in 1 .. height /\ l \in 1 .. N /\ ~ (l > height)
      BY <1>1
    <3>2. after[l] = PutAt(after[l + 1], path, l, k)
      BY <3>1, <1>8
    <3>3. after[l + 1] \in G[l + 1]
      BY <2>2
    <3> HIDE DEF G
    <3> QED BY <3>1, <3>2, <3>3, <1>2
  <2> HIDE DEF T, N
  <2> QED BY <2>1, <2>2, <1>1, Downward
<1>11. 1 \in 1 .. N
  BY <1>1
<1>12. after[1] \in G[1]
  BY <1>10, <1>11
<1> QED BY <1>9, <1>11, <1>12

\* The bound of the model: pages for the nodes that are split and the new root.
LEMMA SupplyIs ==
  ASSUME height \in Nat \ {0}, NEW k, PageSupply(k), NEW path, path = FindLeaf(k)
  PROVE  /\ \A l \in 1 .. height : (\A i \in l .. height : Full(node[path[i]]))
                                     => Cardinality(Page \ used) >= height + 1 - l
         /\ (\A i \in 1 .. height : Full(node[path[i]])) => Cardinality(Page \ used) >= height + 1
<1> DEFINE full == {l \in 1 .. height : \A i \in l .. height : Full(node[path[i]])}
           free == Cardinality(Page \ used)
<1>1. free >= IF 1 \in full THEN height + 1 ELSE Cardinality(full)
  BY DEF PageSupply
<1>2. free \in Nat
  BY PageIsNumber, FS_Subset, FS_CardinalityType
<1>3. IsFiniteSet(full)
  <2>1. full \subseteq 1 .. height
    OBVIOUS
  <2>2. IsFiniteSet(1 .. height)
    BY FS_Interval
  <2> HIDE DEF full
  <2> QED BY <2>1, <2>2, FS_Subset
<1>4. ASSUME NEW l \in 1 .. height, \A i \in l .. height : Full(node[path[i]])
      PROVE  free >= height + 1 - l
  <2>1. CASE 1 \in full
    <3> HIDE DEF full, free
    <3> QED BY <2>1, <1>1, <1>2
  <2>2. CASE 1 \notin full
    <3>1. l .. height \subseteq full
      <4>1. ASSUME NEW j \in l .. height PROVE j \in full
        <5>1. j \in 1 .. height /\ j .. height \subseteq l .. height
          OBVIOUS
        <5> QED BY <5>1, <1>4
      <4> QED BY <4>1
    <3> HIDE DEF full, free
    <3>2. Cardinality(l .. height) = height - l + 1
      <4>1. l \in Int /\ height \in Int /\ ~ (l > height)
        OBVIOUS
      <4> QED BY <4>1, FS_Interval
    <3>3. Cardinality(l .. height) <= Cardinality(full)
      BY <3>1, <1>3, FS_Subset
    <3>4. Cardinality(full) \in Nat
      BY <1>3, FS_CardinalityType
    <3> QED BY <2>2, <3>2, <3>3, <3>4, <1>1, <1>2
  <2> QED BY <2>1, <2>2
<1>5. ASSUME \A i \in 1 .. height : Full(node[path[i]]) PROVE free >= height + 1
  <2>1. 1 \in full
    BY <1>5
  <2> HIDE DEF full
  <2> QED BY <2>1, <1>1
<1> QED BY <1>4, <1>5

\* What a step has to establish.
LEMMA TreeInvNext ==
  ASSUME NEW d, NEW rk, Shape(node', d, rk, height', {rootPage'}), d[rootPage'] = 1,
         Filled(node', Root'), Holds(node', d, height', Holding'),
         Accounts(node', used', numPages', junk'),
         treeLargest' \in Keys \cup {None}, aborted' \in BOOLEAN, top' \in Page,
         junk' \subseteq Unset, due' \subseteq Keys \X Rids
  PROVE  TreeInv'
<1>1. IsTree(d, rk)' /\ Holds(node, d, height, Holding)'
  BY DEF IsTree, Root, Holding
<1>2. TypeOK'
  <2>1. node' \in [Page -> Node \cup {None}] /\ height' \in Nat \ {0} /\ rootPage' \in Page
    BY DEF Shape, Nodes, Tree
  <2>2. \A p \in Page : node'[p] # None => Size(node'[p]) <= Capacity
    BY LiveNode
  <2>3. used' \subseteq Page \cup {0} /\ numPages' \in Nat
    BY AccountsType
  <2>4. node'[rootPage'] # None
    BY <2>1, LiveNode
  <2> QED BY <2>1, <2>2, <2>3, <2>4 DEF TypeOK
<1> QED BY <1>1, <1>2 DEF TreeInv

\* top never leaves the pages.
LEMMA TopIn ==
  ASSUME NEW t \in Page, NEW bits, bits \subseteq Page \cup {0}
  PROVE  Max({t} \cup bits) \in Page
<1> DEFINE S == {t} \cup bits
<1>1. S \subseteq Nat /\ S # {} /\ \A y \in S : y <= MaxPage
  BY IndexAssumption DEF Page
<1>2. MaxPage \in Nat /\ t \in S
  BY IndexAssumption
<1>3. S \subseteq Page \cup {0}
  OBVIOUS
<1> HIDE DEF S
<1>4. Max(S) \in S /\ t <= Max(S)
  BY <1>1, <1>2, GreatestNat
<1>5. t # 0 /\ t \in Nat
  BY PageIsNumber
<1>6. Max(S) # 0
  BY <1>4, <1>5
<1>7. Max(S) \in Page
  BY <1>3, <1>4, <1>6
<1> QED BY <1>7 DEF S

\* A new root.
LEMMA RootIs ==
  ASSUME NEW nodes, NEW path, NEW k, NEW e, PutContext(nodes, path, k, e), NEW E, NEW d, NEW rk,
         NEW s, Put(s, nodes, path, 1, e, E, d, rk), ~s.done, NEW g \in SepKey,
         (\A i \in 1 .. height : Full(node[path[i]])) => Cardinality(Page \ used) >= height + 1
  PROVE  LET page == NewPage(s.used)
             m    == [s.node EXCEPT ![page] = NewRoot(s, g)]
             d2   == Deeper(d, page)
         IN  /\ page \in Page /\ d2[page] = 1
             /\ Shape(m, d2, rk, height + 1, {page})
             /\ Filled(m, {})
             /\ Holds(m, d2, height + 1, E \cup {e})
             /\ Accounts(m, s.used \cup {page}, s.count + 1, junk)
<1> DEFINE page == NewPage(s.used)
           c == s.carry
           n == NewRoot(s, g)
           m == [s.node EXCEPT ![page] = n]
           d2 == Deeper(d, page)
<1>1. /\ s \in States /\ height \in Nat \ {0} /\ s.used \in SUBSET (Page \cup {0}) /\ s.node \in Nodes
      /\ Accounts(s.node, s.used, s.count, junk) /\ c \in Entry
  BY DEF Put, States, PutContext
<1>2. ~ (1 > height) /\ 1 <= height
  BY <1>1
<1>3. /\ Shape(s.node, d, rk, height, {rootPage, c[2]}) /\ d[rootPage] = 1
      /\ Holds(s.node, d, height, E \cup {e}) /\ Filled(s.node, {})
      /\ c[2] \in Page \ {rootPage} /\ d[c[2]] = 1
      /\ \A i \in 1 .. height : Full(node[path[i]])
      /\ Cardinality(Page \ s.used) + (height + 1 - 1) >= Cardinality(Page \ used)
  BY <1>2 DEF Put, OnTheWay
<1>4. page \in Page /\ page \notin s.used
  <2> DEFINE f == Cardinality(Page \ s.used)
  <2>1. IsFiniteSet(Page \ s.used) /\ IsFiniteSet(Page \ used)
    BY PageIsNumber, FS_Subset
  <2>2. f \in Nat /\ Cardinality(Page \ used) \in Nat /\ Cardinality(Page \ used) >= height + 1
    BY <2>1, <1>3, FS_CardinalityType
  <2>3. f + height >= height + 1
    <3> HIDE DEF f
    <3>1. f + (height + 1 - 1) >= Cardinality(Page \ used)
      BY <1>3 DEF f
    <3> QED BY <3>1, <2>2, <1>1
  <2>4. f # 0
    <3> HIDE DEF f
    <3> QED BY <2>2, <2>3, <1>1
  <2>5. Page \ s.used # {}
    BY <2>4, FS_EmptySet
  <2> QED BY <2>5, NewPageIn
<1> HIDE DEF page, c
<1>5. d[page] = 0 /\ d \in [Page -> 0 .. height]
  <2>1. page \notin Live(s.node)
    BY <1>1, <1>4 DEF Accounts
  <2> QED BY <2>1, <1>3, <1>4, LiveNode DEF Live, Shape
<1>6. rootPage \in Page
  BY <1>3 DEF Shape, Tree
<1>7. /\ n \in Node /\ n.left = NoPage /\ n.right = NoPage /\ Size(n) = 2
      /\ Distinct(n) /\ Addresses(n) = {rootPage, c[2]}
  <2> DEFINE one == Insert(EmptyNode, <<g, rootPage>>)
  <2>1. /\ EmptyNode \in Node /\ Size(EmptyNode) = 0 /\ Addresses(EmptyNode) = {} /\ Distinct(EmptyNode)
        /\ EmptyNode.left = NoPage /\ EmptyNode.right = NoPage
    BY EmptyNodeIs DEF EmptyNode
  <2>2. <<g, rootPage>> \in Entry /\ <<g, rootPage>>[2] = rootPage
    BY <1>6 DEF Entry, SepKey
  <2>3. /\ one \in Node /\ one.left = NoPage /\ one.right = NoPage /\ Size(one) = 1
        /\ Addresses(one) = {rootPage} /\ Distinct(one)
    <3> DEFINE f == <<g, rootPage>>
    <3>1. f \in Entry /\ f[2] = rootPage
      BY <2>2
    <3> HIDE DEF f
    <3>2. /\ Insert(EmptyNode, f) \in Node
          /\ Insert(EmptyNode, f).left = NoPage /\ Insert(EmptyNode, f).right = NoPage
          /\ Size(Insert(EmptyNode, f)) = 0 + 1
          /\ Addresses(Insert(EmptyNode, f)) = {} \cup {f[2]}
          /\ Distinct(Insert(EmptyNode, f))
      BY <2>1, <3>1, InsertIs
    <3> QED BY <3>1, <3>2 DEF f
  <2>4. n = Insert(one, c)
    BY DEF NewRoot, c
  <2> HIDE DEF one, n
  <2>5. c[2] \notin Addresses(one)
    BY <2>3, <1>3
  <2> QED BY <2>3, <2>4, <2>5, <1>1, InsertIs
<1>8. Size(n) <= Capacity /\ ~IsEmpty(n) /\ n # None
  BY <1>7, NodeAssumption, NoneAssumption DEF IsEmpty
<1> HIDE DEF n
<1>9. Shape(m, d2, rk, height + 1, {page})
  <2> DEFINE nd == s.node
             tops == {rootPage, c[2]}
  <2>1. /\ Shape(nd, d, rk, height, tops) /\ \A x \in tops : d[x] = 1
        /\ Addresses(n) = tops
    BY <1>3, <1>7
  <2> HIDE DEF nd, tops
  <2>2. Shape([nd EXCEPT ![page] = n], Deeper(d, page), rk, height + 1, {page})
    BY ONLY <2>1, <1>4, <1>5, <1>7, <1>8, ShapeGrow
  <2> QED BY <2>2 DEF nd
<1>10. m[page] = n /\ \A x \in Page \ {page} : m[x] = s.node[x]
  BY <1>1, <1>4 DEF Nodes
<1> HIDE DEF m
<1>11. Filled(m, {})
  BY <1>3, <1>8, <1>10 DEF Filled
<1>12. d2[page] = 1 /\ \A x \in Page : d[x] = height <=> d2[x] = height + 1 /\ x # page
  BY <1>1, <1>4, <1>5 DEF Deeper
<1>13. Holds(m, d2, height + 1, E \cup {e})
  <2>1. \A x \in Page : /\ d[x] = height => d2[x] = height + 1 /\ m[x] = s.node[x]
                        /\ d2[x] = height + 1 => d[x] = height /\ m[x] = s.node[x]
    BY <1>1, <1>10, <1>12
  <2> HIDE DEF d2
  <2> QED BY <2>1, <1>3 DEF Holds
<1>14. Accounts(m, s.used \cup {page}, s.count + 1, junk)
  <2>1. Live(m) = Live(s.node) \cup {page}
    BY <1>4, <1>8, <1>10 DEF Live
  <2> QED BY <2>1, <1>1, <1>4, AccountsGain
<1> QED BY <1>4, <1>9, <1>11, <1>12, <1>13, <1>14 DEF page, m, n
\* What an insert starts from.
LEMMA InsertReady ==
  ASSUME NEW d, NEW rk, IsTree(d, rk), NEW E, Holds(node, d, height, E),
         Accounts(node, used, numPages, junk),
         NEW k \in Keys, PageSupply(k), NEW e \in Entry, NEW path, path = FindLeaf(k),
         NEW nodes, RecordsKept(node, nodes, d, height), Fresh(node[path[height]], e[1])
  PROVE  PutContext(nodes, path, k, e) /\ Put(PutStart(nodes, e), nodes, path, height + 1, e, E, d, rk)
<1> DEFINE s == PutStart(nodes, e)
<1>1. /\ height \in Nat \ {0} /\ d[rootPage] = 1 /\ Filled(node, Root)
      /\ Shape(node, d, rk, height, {rootPage})
  BY DEF IsTree, Shape
<1>2. OnPath(path, d, k)
  BY PathIs
<1>3. /\ path \in [1 .. height -> Page] /\ path[1] = rootPage
      /\ \A l \in 1 .. height : path[l] \in Page /\ d[path[l]] = l
  BY <1>2 DEF OnPath
<1>4. ASSUME NEW l \in 1 .. height
      PROVE  OnlyKeysDiffer(node[path[l]], nodes[path[l]])
  <2>1. node[path[l]] # None
    BY <1>1, <1>3, LiveNode
  <2> QED BY <2>1, <1>3 DEF RecordsKept
<1>5. ASSUME NEW l \in 1 .. (height - 1)
      PROVE  LET i == ChildPos(node[path[l]], k)
             IN  i \in 1 .. Size(nodes[path[l]]) /\ Addr(nodes[path[l]], i) = path[l + 1]
  <2>1. l \in 1 .. height
    BY <1>1
  <2>2. LET n == node[path[l]] IN ChildPos(n, k) \in 1 .. Size(n) /\ path[l + 1] = Addr(n, ChildPos(n, k))
    BY <1>2 DEF OnPath
  <2> QED BY <2>1, <2>2, <1>4 DEF OnlyKeysDiffer
<1>6. PutContext(nodes, path, k, e)
  <2>1. \A l \in 1 .. height : (\A i \in l .. height : Full(node[path[i]]))
                                 => Cardinality(Page \ used) >= height + 1 - l
    BY <1>1, SupplyIs
  <2> QED BY <2>1, <1>1, <1>3, <1>5 DEF PutContext
<1>7. /\ s.node = nodes /\ s.used = used /\ s.count = numPages /\ s.carry = e /\ s.done = FALSE
      /\ s = [node |-> nodes, used |-> used, count |-> numPages, carry |-> e, done |-> FALSE]
  BY DEF PutStart
<1> HIDE DEF s
<1>8. Shape(nodes, d, rk, height, {rootPage})
  BY <1>1, ShapeKeys
<1>9. /\ Live(nodes) = Live(node)
      /\ Holds(nodes, d, height, E)
      /\ Filled(nodes, Root)
  BY <1>1, KeysFacts
<1>10. Accounts(nodes, used, numPages, junk)
  BY <1>9 DEF Accounts
<1>11. s \in States
  <2>1. used \subseteq Page \cup {0} /\ numPages \in Nat
    BY AccountsType
  <2>2. nodes \in Nodes
    BY DEF RecordsKept
  <2> QED BY <2>1, <2>2, <1>7 DEF States
<1>12. OnTheWay(s, nodes, path, height + 1, d)
  <2>1. ~ (height + 1 <= height) /\ (height + 1) - 1 = height /\ (height + 1) - 2 = height - 1
    BY <1>1
  <2>2. \A i \in 1 .. height : Size(nodes[path[i]]) = Size(node[path[i]])
    BY <1>4 DEF OnlyKeysDiffer
  <2>3. \A i \in (height + 1) .. height : FALSE
    BY <1>1
  <2>4. Cardinality(Page \ s.used) + (height + 1 - (height + 1)) >= Cardinality(Page \ used)
    <3> DEFINE f == Cardinality(Page \ used)
    <3>1. f \in Nat
      BY PageIsNumber, FS_Subset, FS_CardinalityType
    <3> HIDE DEF f
    <3>2. f + (height + 1 - (height + 1)) >= f
      BY <3>1, <1>1
    <3> QED BY <3>2, <1>7 DEF f
  <2> QED BY <2>1, <2>2, <2>3, <2>4, <1>3, <1>7 DEF OnTheWay
<1>13. Put(s, nodes, path, height + 1, e, E, d, rk)
  <2>1. height + 1 > height /\ ~ (height + 1 <= height)
    BY <1>1
  <2>2. Fresh(nodes[path[height]], e[1])
    <3>1. height \in 1 .. height
      BY <1>1
    <3>2. nodes[path[height]] = node[path[height]]
      BY <3>1, <1>3 DEF RecordsKept
    <3> QED BY <3>2
  <2> QED BY <2>1, <2>2, <1>1, <1>7, <1>8, <1>9, <1>10, <1>11, <1>12 DEF Put
<1> QED BY <1>6, <1>13 DEF s

\* A step that only fails an assertion.
LEMMA AbortKeeps == TreeInv /\ Abort /\ due' \subseteq Keys \X Rids => TreeInv'
<1> SUFFICES ASSUME TreeInv, Abort, due' \subseteq Keys \X Rids PROVE TreeInv'
  OBVIOUS
<1>1. /\ node' = node /\ used' = used /\ numPages' = numPages /\ rootPage' = rootPage
      /\ height' = height /\ treeLargest' = treeLargest /\ top' = top /\ junk' = junk
      /\ aborted' = TRUE
  BY DEF Abort, header
<1>2. PICK d, rk : IsTree(d, rk) /\ Holds(node, d, height, Holding)
  BY DEF TreeInv
<1>3. Shape(node', d, rk, height', {rootPage'}) /\ d[rootPage'] = 1 /\ Filled(node', Root')
  BY <1>1, <1>2 DEF IsTree, Root
<1>4. Holds(node', d, height', Holding')
  BY <1>1, <1>2 DEF Holds, Holding
<1>5. Accounts(node', used', numPages', junk')
  BY <1>1 DEF TreeInv
<1>6. treeLargest' \in Keys \cup {None} /\ aborted' \in BOOLEAN /\ top' \in Page /\ junk' \subseteq Unset
  BY <1>1 DEF TreeInv, TypeOK
<1> QED BY <1>3, <1>4, <1>5, <1>6, TreeInvNext

LEMMA InsertKeeps ==
  ASSUME TreeInv, NEW k \in Keys, \A e \in Stored : e[1] # k, NEW r \in Rids, PageSupply(k),
         InsertEntry(k, r)
  PROVE  TreeInv'
<1> DEFINE path  == FindLeaf(k)
           grows == NewLargest(node[path[height]], k)
           found == \A i \in 1 .. (height - 1) : FindKey(node[path[i]], treeLargest) # 0
           nodes == IF grows THEN Raised(path, k) ELSE node
           e     == <<k, r>>
           s     == PutUp(nodes, path, e)
<1>1. e \in Entry /\ e[1] = k /\ e \in Keys \X Rids
  BY DEF Entry
<1>2. /\ ~aborted /\ due' = due \cup {e} /\ due' \subseteq Keys \X Rids
      /\ TypeOK /\ Accounts(node, used, numPages, junk)
  BY <1>1 DEF InsertEntry, TreeInv, TypeOK
<1>3. CASE Abort
  BY <1>2, <1>3, AbortKeeps
<1>4. CASE ~Abort
  <2>1. /\ grows => found
        /\ treeLargest' = IF grows THEN k ELSE treeLargest
        /\ IF s.done
           THEN /\ node' = s.node /\ used' = s.used /\ numPages' = s.count
                /\ UNCHANGED <<rootPage, height>>
           ELSE RootSplit(s)
        /\ top' = Max({top} \cup (used' \ junk))
        /\ aborted' = aborted /\ junk' = junk
    BY <1>4 DEF InsertEntry
  <2>2. PICK d, rk : IsTree(d, rk) /\ Holds(node, d, height, due)
    BY <1>2 DEF TreeInv, Holding
  <2>3. height \in Nat \ {0}
    BY <2>2 DEF IsTree, Shape
  <2>4. RecordsKept(node, nodes, d, height)
    <3>1. CASE grows
      BY <3>1, <2>1, <2>2, PathIs, RaisedIs
    <3>2. CASE ~grows
      <4>1. node \in Nodes
        BY <2>2 DEF IsTree, Shape
      <4>2. \A p \in Page : node[p] # None => OnlyKeysDiffer(node[p], node[p])
        BY <4>1, SameKeys DEF Nodes
      <4> QED BY <3>2, <4>1, <4>2 DEF RecordsKept
    <3> QED BY <3>1, <3>2
  <2>12. Fresh(node[path[height]], e[1])
    <3>1. OnPath(path, d, k)
      BY <2>2, PathIs
    <3>2. height \in 1 .. height
      BY <2>3
    <3>3. path[height] \in Page /\ d[path[height]] = height
      BY <3>1, <3>2 DEF OnPath
    <3>4. path[height] \in Level[height]
      BY <3>2, <3>3, <2>2, LevelIs
    <3> QED BY <3>4, <1>1 DEF Fresh, Stored
  <2> HIDE DEF nodes, e, s, path
  <2>5. PutContext(nodes, path, k, e) /\ Put(PutStart(nodes, e), nodes, path, height + 1, e, due, d, rk)
    BY <1>1, <1>2, <2>2, <2>4, <2>12, InsertReady DEF path
  <2>6. PICK d2, rk2 : Put(s, nodes, path, 1, e, due, d2, rk2)
    <3>1. \E d2, rk2 : Put(PutUp(nodes, path, e), nodes, path, 1, e, due, d2, rk2)
      BY <1>1, <2>5, PutUpIs
    <3> QED BY <3>1 DEF s
  <2>7. /\ s \in States /\ Accounts(s.node, s.used, s.count, junk) /\ d2[rootPage] = 1
        /\ Shape(s.node, d2, rk2, height, IF s.done THEN {rootPage} ELSE {rootPage, s.carry[2]})
        /\ Holds(s.node, d2, height, due \cup {e}) /\ Filled(s.node, {})
    <3>1. 1 <= height /\ ~ (1 > height)
      BY <2>3
    <3> QED BY <3>1, <2>6 DEF Put
  <2>8. treeLargest' \in Keys \cup {None} /\ aborted' \in BOOLEAN /\ junk' \subseteq Unset
    BY <1>2, <2>1 DEF TypeOK
  <2>9. Holding' = due \cup {e}
    BY <1>2, <2>1 DEF Holding
  <2>10. CASE s.done
    <3>1. node' = s.node /\ used' = s.used /\ numPages' = s.count /\ rootPage' = rootPage /\ height' = height
      BY <2>1, <2>10
    <3>2. Shape(node', d2, rk2, height', {rootPage'}) /\ d2[rootPage'] = 1
      BY <2>7, <2>10, <3>1
    <3>3. Filled(node', Root') /\ Holds(node', d2, height', Holding')
      BY <2>7, <2>9, <3>1 DEF Filled
    <3>4. Accounts(node', used', numPages', junk')
      BY <2>1, <2>7, <3>1
    <3>5. top' \in Page
      <4>1. used' \ junk \subseteq Page \cup {0}
        BY <3>4, AccountsType
      <4> QED BY <4>1, <2>1, <1>2, TopIn DEF TypeOK
    <3> QED BY <3>2, <3>3, <3>4, <3>5, <2>8, <1>2, TreeInvNext
  <2>11. CASE ~s.done
    <3> DEFINE page == NewPage(s.used)
    <3>1. RootSplit(s)
      BY <2>1, <2>11
    <3>2. PICK g \in ReadForLargest(page, s.used) : node' = [s.node EXCEPT ![page] = NewRoot(s, g)]
      BY <3>1 DEF RootSplit
    <3>3. used' = s.used \cup {page} /\ numPages' = s.count + 1 /\ rootPage' = page /\ height' = height + 1
      BY <3>1 DEF RootSplit
    <3>4. g \in SepKey
      BY <3>2 DEF ReadForLargest, SepKey
    <3>5. (\A i \in 1 .. height : Full(node[path[i]])) => Cardinality(Page \ used) >= height + 1
      BY <2>3, SupplyIs DEF path
    <3> DEFINE m  == [s.node EXCEPT ![page] = NewRoot(s, g)]
               d3 == Deeper(d2, page)
    <3>6. /\ page \in Page /\ d3[page] = 1
          /\ Shape(m, d3, rk2, height + 1, {page})
          /\ Filled(m, {})
          /\ Holds(m, d3, height + 1, due \cup {e})
          /\ Accounts(m, s.used \cup {page}, s.count + 1, junk)
      BY ONLY <2>5, <2>6, <2>11, <3>4, <3>5, RootIs
    <3> HIDE DEF page, d3
    <3>7. Shape(node', d3, rk2, height', {rootPage'}) /\ d3[rootPage'] = 1
      BY <3>2, <3>3, <3>6
    <3>8. Filled(node', Root') /\ Holds(node', d3, height', Holding')
      BY <2>9, <3>2, <3>3, <3>6 DEF Filled
    <3>9. Accounts(node', used', numPages', junk')
      BY <2>1, <3>2, <3>3, <3>6
    <3>10. top' \in Page
      <4>1. used' \ junk \subseteq Page \cup {0}
        BY <3>9, AccountsType
      <4> QED BY <4>1, <2>1, <1>2, TopIn DEF TypeOK
    <3> QED BY <3>7, <3>8, <3>9, <3>10, <2>8, <1>2, TreeInvNext
  <2> QED BY <2>10, <2>11
<1> QED BY <1>3, <1>4

-----------------------------------------------------------------------------
(* Deleting.                                                                *)

\* A separator of an inner node becomes another key.
LEMMA KeptSet ==
  ASSUME NEW d, NEW rk, NEW tops, Shape(node, d, rk, height, tops),
         NEW m, RecordsKept(node, m, d, height), NEW p \in Page, d[p] > 0, d[p] < height,
         NEW i \in 1 .. Size(m[p]), NEW key \in SepKey
  PROVE  RecordsKept(node, [m EXCEPT ![p] = SetKey(m[p], i, key)], d, height)
<1> DEFINE n  == SetKey(m[p], i, key)
           m2 == [m EXCEPT ![p] = n]
<1>1. m \in Nodes /\ node[p] # None /\ height \in Nat
  BY LiveNode DEF RecordsKept, Shape
<1>2. OnlyKeysDiffer(node[p], m[p])
  BY <1>1 DEF RecordsKept
<1>3. OnlyKeysDiffer(m[p], n)
  BY <1>2, SetKeyIs DEF OnlyKeysDiffer
<1> HIDE DEF n
<1>4. OnlyKeysDiffer(node[p], n)
  BY <1>2, <1>3 DEF OnlyKeysDiffer
<1>5. n \in Node /\ n # None
  BY <1>4, NoneAssumption DEF OnlyKeysDiffer
<1>6. m2 \in Nodes /\ m2[p] = n /\ \A x \in Page \ {p} : m2[x] = m[x]
  BY <1>1, <1>5 DEF Nodes
<1> HIDE DEF m2
<1>7. ASSUME NEW x \in Page
      PROVE  /\ node[x] = None <=> m2[x] = None
             /\ d[x] = height => m2[x] = node[x]
             /\ node[x] # None => OnlyKeysDiffer(node[x], m2[x])
  <2>1. CASE x = p
    BY <2>1, <1>1, <1>4, <1>5, <1>6
  <2>2. CASE x # p
    BY <2>2, <1>6 DEF RecordsKept
  <2> QED BY <2>1, <2>2
<1> QED BY <1>6, <1>7 DEF RecordsKept, m2, n

\* Lowering changes keys only.
LEMMA LowerAtIs ==
  ASSUME NEW d, NEW rk, IsTree(d, rk), NEW path, NEW k, OnPath(path, d, k),
         NEW nodes, RecordsKept(node, nodes, d, height), NEW l \in 1 .. (height - 1)
  PROVE  RecordsKept(node, LowerAt(nodes, path, l, k), d, height)
<1> DEFINE p     == path[l]
           n     == nodes[p]
           child == nodes[path[l + 1]]
           i     == FindKey(n, k)
           last  == IF LargestKey(child) = k THEN Size(child) - 1 ELSE Size(child)
<1>1. /\ height \in Nat \ {0} /\ l \in 1 .. height /\ l + 1 \in 1 .. height /\ l > 0 /\ l < height
      /\ Shape(node, d, rk, height, {rootPage})
  BY DEF IsTree, Shape
<1>2. /\ p \in Page /\ d[p] = l /\ path[l + 1] \in Page /\ d[path[l + 1]] = l + 1
  BY <1>1 DEF OnPath
<1>3. n \in Node /\ child \in Node
  <2>1. node[p] # None /\ node[path[l + 1]] # None
    <3>1. l + 1 > 0
      BY <1>1
    <3> QED BY <3>1, <1>1, <1>2, LiveNode
  <2> QED BY <2>1, <1>2 DEF RecordsKept, OnlyKeysDiffer
<1>4. LowerAt(nodes, path, l, k) =
        IF i # 0 /\ last > 0 /\ (l = height - 1 \/ i = Size(n))
        THEN [nodes EXCEPT ![p] = SetKey(nodes[p], i, Key(child, last))] ELSE nodes
  BY DEF LowerAt
<1>5. CASE i # 0 /\ last > 0
  <2>1. Size(child) \in Nat
    BY <1>3, EntryParts
  <2>2. last \in 1 .. Size(child)
    BY <2>1, <1>5
  <2> HIDE DEF last, child
  <2>3. Key(child, last) \in SepKey
    BY <2>2, <1>3, EntryParts
  <2>4. i \in 0 .. Size(n) /\ Size(n) \in Nat
    BY <1>3, Positions, EntryParts
  <2> HIDE DEF i
  <2>5. i \in 1 .. Size(n)
    BY <2>4, <1>5
  <2>6. RecordsKept(node, [nodes EXCEPT ![p] = SetKey(nodes[p], i, Key(child, last))], d, height)
    <3> DEFINE key == Key(child, last)
    <3>1. /\ p \in Page /\ d[p] > 0 /\ d[p] < height
          /\ key \in SepKey /\ i \in 1 .. Size(nodes[p])
      BY <2>3, <2>5, <1>1, <1>2
    <3>2. Shape(node, d, rk, height, {rootPage}) /\ RecordsKept(node, nodes, d, height)
      BY <1>1
    <3> HIDE DEF key, p, n
    <3>3. RecordsKept(node, [nodes EXCEPT ![p] = SetKey(nodes[p], i, key)], d, height)
      BY ONLY <3>1, <3>2, KeptSet
    <3> QED BY <3>3 DEF key
  <2> HIDE DEF p, n
  <2> QED BY <2>6, <1>4
<1>6. CASE ~ (i # 0 /\ last > 0)
  BY <1>4, <1>6
<1> QED BY <1>5, <1>6

LEMMA LoweredIs ==
  ASSUME NEW d, NEW rk, IsTree(d, rk), NEW path, NEW k, OnPath(path, d, k), NEW levels
  PROVE  RecordsKept(node, Lowered(path, k, levels), d, height)
<1> DEFINE Kept == {m \in Nodes : RecordsKept(node, m, d, height)}
           low(m, l) == IF l \in levels THEN LowerAt(m, path, l, k) ELSE m
           G == [l \in 1 .. height |-> Kept]
           step == [l \in 1 .. height |-> [m \in Nodes |-> low(m, l)]]
<1>1. height \in Nat \ {0} /\ node \in Nodes
  BY DEF IsTree, Shape
<1>2. ASSUME NEW l \in 1 .. (height - 1), NEW m \in Kept PROVE low(m, l) \in Kept
  <2>1. RecordsKept(node, low(m, l), d, height)
    BY LowerAtIs
  <2> QED BY <2>1 DEF RecordsKept
<1>3. node \in Kept
  <2>1. \A p \in Page : node[p] # None => OnlyKeysDiffer(node[p], node[p])
    BY <1>1, SameKeys DEF Nodes
  <2> QED BY <2>1, <1>1 DEF RecordsKept
<1> HIDE DEF low
<1>4. Falls(height, Nodes, G, node, step)
  <2>1. \A l \in 1 .. height : G[l] \subseteq Nodes
    OBVIOUS
  <2>2. ASSUME NEW l \in 1 .. (height - 1), NEW m \in G[l + 1] PROVE step[l][m] \in G[l]
    <3>1. l \in 1 .. height /\ l + 1 \in 1 .. height
      BY <1>1
    <3>2. m \in Kept /\ m \in Nodes /\ G[l] = Kept
      BY <3>1, <2>2
    <3>3. step[l][m] = low(m, l)
      BY <3>1, <3>2
    <3> HIDE DEF G, step, Kept
    <3> QED BY <3>2, <3>3, <1>2
  <2>3. node \in G[height]
    BY <1>1, <1>3
  <2> HIDE DEF G, step, Kept
  <2> QED BY <2>1, <2>2, <2>3, <1>1 DEF Falls
<1>5. \E f \in [1 .. height -> Nodes] :
         \A l \in 1 .. height : f[l] = (IF l = height THEN node ELSE step[l][f[l + 1]]) /\ f[l] \in G[l]
  <2> HIDE DEF G, step
  <2> QED BY ONLY <1>4, Descent
<1>6. PICK f \in [1 .. height -> Nodes] :
         \A l \in 1 .. height : f[l] = (IF l = height THEN node ELSE step[l][f[l + 1]]) /\ f[l] \in G[l]
  BY <1>5
<1>7. f = [l \in 1 .. height |-> IF l = height THEN node
                                 ELSE IF l \in levels THEN LowerAt(f[l + 1], path, l, k) ELSE f[l + 1]]
  <2>1. ASSUME NEW l \in 1 .. height
        PROVE  f[l] = IF l = height THEN node
                      ELSE IF l \in levels THEN LowerAt(f[l + 1], path, l, k) ELSE f[l + 1]
    <3>1. CASE l = height
      BY <3>1, <1>6
    <3>2. CASE l # height
      <4>1. l + 1 \in 1 .. height
        BY <3>2, <1>1
      <4>2. step[l][f[l + 1]] = low(f[l + 1], l)
        BY <4>1
      <4>3. f[l] = low(f[l + 1], l)
        <5> HIDE DEF step
        <5> QED BY <3>2, <4>2, <1>6
      <4> QED BY <3>2, <4>3 DEF low
    <3> QED BY <3>1, <3>2
  <2> QED BY <2>1
<1> DEFINE after[l \in 1 .. height] ==
             IF l = height THEN node
             ELSE IF l \in levels THEN LowerAt(after[l + 1], path, l, k) ELSE after[l + 1]
<1>8. after = [l \in 1 .. height |-> IF l = height THEN node
                                     ELSE IF l \in levels THEN LowerAt(after[l + 1], path, l, k) ELSE after[l + 1]]
  BY <1>7
<1>9. Lowered(path, k, levels) = after[1]
  BY DEF Lowered
<1> HIDE DEF after
<1> DEFINE T == {l \in 1 .. height : after[l] \in Kept}
<1>10. 1 .. height \subseteq T
  <2>1. height \in T
    BY <1>1, <1>3, <1>8
  <2>2. ASSUME NEW l \in 1 .. (height - 1), l + 1 \in T PROVE l \in T
    <3>1. l \in 1 .. height /\ l # height
      BY <1>1
    <3>2. after[l] = low(after[l + 1], l)
      BY <3>1, <1>8 DEF low
    <3>3. after[l + 1] \in Kept
      BY <2>2
    <3> HIDE DEF Kept
    <3> QED BY <3>1, <3>2, <3>3, <1>2
  <2> HIDE DEF T
  <2> QED BY <2>1, <2>2, <1>1, Downward
<1>11. 1 \in 1 .. height
  BY <1>1
<1> QED BY <1>9, <1>10, <1>11

\* An entry of a node is removed, from a leaf or from a node above.
Lost(nd, d, h, p, i) == IF d[p] < h THEN {Addr(nd[p], i)} ELSE {}
Kept(nd, d, h, E, p, i) == IF d[p] = h THEN E \ {nd[p].entries[i]} ELSE E

Removed(nd, d, rk, h, tops, E, but, p, i, m) ==
  /\ Shape(m, d, rk, h, tops \cup Lost(nd, d, h, p, i))
  /\ m[p] = RemoveEntry(nd[p], i) /\ \A x \in Page \ {p} : m[x] = nd[x]
  /\ Live(m) = Live(nd)
  /\ Holds(nd, d, h, E) => Holds(m, d, h, Kept(nd, d, h, E, p, i))
  /\ Filled(nd, but) => Filled(m, but \cup {p})

LEMMA RemoveOne ==
  ASSUME NEW nd, NEW d, NEW rk, NEW h, NEW tops, Shape(nd, d, rk, h, tops), NEW E, NEW but,
         NEW p \in Page, d[p] > 0, NEW i \in 1 .. Size(nd[p])
  PROVE  Removed(nd, d, rk, h, tops, E, but, p, i, [nd EXCEPT ![p] = RemoveEntry(nd[p], i)])
<1> DEFINE n    == RemoveEntry(nd[p], i)
           m    == [nd EXCEPT ![p] = n]
           kids == Kids(nd, d, h)
           others == tops \cup Lost(nd, d, h, p, i)
<1>1. /\ nd[p] \in Node /\ nd[p] # None /\ Size(nd[p]) <= Capacity /\ (d[p] < h => Distinct(nd[p]))
      /\ d[p] \in 0 .. h /\ h \in Nat \ {0} /\ nd \in Nodes
  BY LiveNode DEF Shape
<1>2. /\ n \in Node /\ n.left = nd[p].left /\ n.right = nd[p].right
      /\ Size(n) = Size(nd[p]) - 1
      /\ ToSet(nd[p].entries) \subseteq ToSet(n.entries) \cup {nd[p].entries[i]}
      /\ Sorted(nd[p]) => Sorted(n)
      /\ Distinct(nd[p]) => Addresses(n) = Addresses(nd[p]) \ {Addr(nd[p], i)} /\ Distinct(n)
  BY <1>1, RemoveIs
<1>3. Size(n) <= Capacity /\ (d[p] < h => Distinct(n))
  <2>1. Size(nd[p]) \in Nat /\ Capacity \in Nat
    BY <1>1, EntryParts, NodeAssumption
  <2> HIDE DEF n
  <2> QED BY <2>1, <1>1, <1>2
<1> HIDE DEF n
<1>4. Tree([kids EXCEPT ![p] = IF d[p] < h THEN Addresses(n) ELSE {}], d, others)
  <2>1. Tree(kids, d, tops) /\ kids[p] = IF d[p] < h THEN Addresses(nd[p]) ELSE {}
    BY DEF Shape, Kids
  <2>2. CASE d[p] < h
    <3> DEFINE c == Addr(nd[p], i)
    <3>1. c \in kids[p]
      <4>1. c \in Addresses(nd[p])
        BY <1>1, EntryParts
      <4> QED BY <4>1, <2>1, <2>2
    <3>2. kids[p] \ {c} = IF d[p] < h THEN Addresses(n) ELSE {}
      BY <1>1, <1>2, <2>1, <2>2
    <3>3. others = tops \cup {c}
      BY <2>2 DEF Lost
    <3> HIDE DEF c, kids, others
    <3>4. Tree([kids EXCEPT ![p] = @ \ {c}], d, tops \cup {c})
      BY <2>1, <3>1, TreeLeave
    <3> QED BY <3>2, <3>3, <3>4
  <2>3. CASE ~ (d[p] < h)
    <3>1. others = tops
      BY <2>3 DEF Lost
    <3>2. [kids EXCEPT ![p] = {}] = kids
      <4>1. kids \in [Page -> SUBSET Page]
        BY <2>1 DEF Tree
      <4> HIDE DEF kids
      <4> QED BY <4>1, <2>1, <2>3
    <3> HIDE DEF kids, others
    <3> QED BY <3>1, <3>2, <2>1, <2>3
  <2> QED BY <2>2, <2>3
<1>5. Shape(m, d, rk, h, others)
  <2> HIDE DEF others
  <2> QED BY <1>2, <1>3, <1>4, ShapeNode
<1>6. m[p] = n /\ \A x \in Page \ {p} : m[x] = nd[x]
  BY <1>1 DEF Nodes
<1> HIDE DEF m
<1>7. Live(m) = Live(nd)
  BY <1>1, <1>2, <1>6, NoneAssumption DEF Live
<1>8. ASSUME Holds(nd, d, h, E) PROVE Holds(m, d, h, Kept(nd, d, h, E, p, i))
  <2>1. ASSUME NEW e \in Kept(nd, d, h, E, p, i)
        PROVE  \E x \in Page : d[x] = h /\ e \in ToSet(m[x].entries)
    <3>1. e \in E /\ (d[p] = h => e # nd[p].entries[i])
      BY <2>1 DEF Kept
    <3>2. PICK x \in Page : d[x] = h /\ e \in ToSet(nd[x].entries)
      BY <3>1, <1>8 DEF Holds
    <3>3. CASE x = p
      BY <3>1, <3>2, <3>3, <1>2, <1>6
    <3>4. CASE x # p
      BY <3>2, <3>4, <1>6
    <3> QED BY <3>3, <3>4
  <2>2. ASSUME NEW x \in Page, d[x] = h PROVE Sorted(m[x])
    BY <2>2, <1>2, <1>6, <1>8 DEF Holds
  <2> QED BY <2>1, <2>2 DEF Holds
<1>9. ASSUME Filled(nd, but) PROVE Filled(m, but \cup {p})
  BY <1>6, <1>9 DEF Filled
<1> QED BY <1>5, <1>6, <1>7, <1>8, <1>9 DEF Removed, m, n

\* The loop of a delete, which starts from nodes.
PruneContext(nodes, path, k) ==
  /\ path \in [1 .. height -> Page] /\ path[1] = rootPage /\ height \in Nat \ {0}
  /\ \A l \in 1 .. (height - 1) : LET i == ChildPos(node[path[l]], k)
                                  IN  /\ i \in 1 .. Size(nodes[path[l]])
                                      /\ Addr(nodes[path[l]], i) = path[l + 1]

\* At level l nothing has been done to the levels above it, and only the node
\* of the path may be empty.
Prune(s, nodes, path, l, E, d, rk) ==
  /\ s.node \in Nodes
  /\ Shape(s.node, d, rk, height, {rootPage}) /\ d[rootPage] = 1
  /\ Accounts(s.node, s.used, s.count, junk)
  /\ Holds(s.node, d, height, E)
  /\ Filled(s.node, {rootPage, path[l]})
  /\ \A i \in 1 .. l : d[path[i]] = i
  /\ \A i \in 1 .. (l - 1) : s.node[path[i]] = nodes[path[i]]

\* A page that has been given up.
PruneGiven(nd, d, h, E, q, p, m, d2) ==
  /\ \E rk2 : Shape(m, d2, rk2, h, {rootPage})
  /\ d2[rootPage] = 1
  /\ p \in Live(nd) /\ Live(m) = Live(nd) \ {p}
  /\ \A x \in Page : d[x] > 0 /\ d[x] < d[q] => m[x] = nd[x]
  /\ \A x \in Page : d[x] > 0 /\ d[x] <= d[q] => d2[x] = d[x]
  /\ Holds(nd, d, h, E) => Holds(m, d2, h, E)
  /\ Filled(nd, {rootPage, p}) => Filled(m, {rootPage, q})

LEMMA PruneOne ==
  ASSUME NEW nd, NEW d, NEW rk, NEW h, Shape(nd, d, rk, h, {rootPage}), d[rootPage] = 1, NEW E,
         NEW q \in Page, d[q] > 0, d[q] < h, NEW i \in 1 .. Size(nd[q]),
         NEW p \in Page, p = Addr(nd[q], i), d[p] = d[q] + 1, IsEmpty(nd[p])
  PROVE  PruneGiven(nd, d, h, E, q, p, TakenOut([nd EXCEPT ![q] = RemoveEntry(nd[q], i)], p), [d EXCEPT ![p] = 0])
<1> DEFINE m1 == [nd EXCEPT ![q] = RemoveEntry(nd[q], i)]
           m  == TakenOut(m1, p)
           d2 == [d EXCEPT ![p] = 0]
<1>1. /\ d \in [Page -> 0 .. h] /\ h \in Nat \ {0} /\ rootPage \in Page
      /\ p # q /\ p # rootPage /\ d[p] > 0 /\ d[q] \in Nat /\ d[q] # h
  <2>1. d \in [Page -> 0 .. h] /\ h \in Nat \ {0} /\ rootPage \in Page
    BY DEF Shape, Tree
  <2> QED BY <2>1
<1>2. Removed(nd, d, rk, h, {rootPage}, E, {rootPage, p}, q, i, m1)
  BY RemoveOne
<1>3. /\ Shape(m1, d, rk, h, {rootPage, p})
      /\ \A x \in Page \ {q} : m1[x] = nd[x]
      /\ Live(m1) = Live(nd)
      /\ Holds(nd, d, h, E) => Holds(m1, d, h, E)
      /\ Filled(nd, {rootPage, p}) => Filled(m1, {rootPage, p, q})
  <2> HIDE DEF m1
  <2>1. Lost(nd, d, h, q, i) = {p} /\ Kept(nd, d, h, E, q, i) = E
    BY <1>1 DEF Lost, Kept
  <2>2. {rootPage} \cup {p} = {rootPage, p} /\ {rootPage, p} \cup {q} = {rootPage, p, q}
    OBVIOUS
  <2> QED BY <2>1, <2>2, <1>2 DEF Removed
<1> HIDE DEF m1
<1>4. m1[p] = nd[p] /\ IsEmpty(m1[p])
  BY <1>1, <1>3
<1>5. Shape(m, d2, rk, h, {rootPage})
  <2>1. {rootPage, p} \ {p} = {rootPage} /\ p \in {rootPage, p}
    BY <1>1
  <2> DEFINE tops == {rootPage, p}
  <2>2. Shape(m1, d, rk, h, tops) /\ p \in tops /\ tops \ {p} = {rootPage}
    BY <2>1, <1>3
  <2> HIDE DEF tops
  <2>3. Shape(TakenOut(m1, p), [d EXCEPT ![p] = 0], rk, h, tops \ {p})
    BY ONLY <2>2, <1>4, ShapeFree
  <2> QED BY <2>2, <2>3
<1>6. d2[p] = 0 /\ \A x \in Page \ {p} : d2[x] = d[x]
  BY <1>1
<1> HIDE DEF d2
<1>7. /\ m[p] = None
      /\ \A x \in Page \ {p} : /\ m[x] = None <=> m1[x] = None
                               /\ m1[x] # None => m[x].entries = m1[x].entries
      /\ \A x \in Page : d[x] > 0 /\ d[x] # d[p] => m[x] = m1[x]
  <2>1. /\ m[p] = None
        /\ \A x \in Page \ {p} : /\ m[x] = None <=> m1[x] = None
                                 /\ m1[x] # None => m[x].entries = m1[x].entries
        /\ \A x \in Page \ {p} : x # m1[p].left /\ x # m1[p].right => m[x] = m1[x]
        /\ m1[p].left \in Page => d[m1[p].left] = d[p]
        /\ m1[p].right \in Page => d[m1[p].right] = d[p]
    BY <1>1, <1>3, TakenOutIs
  <2> HIDE DEF m
  <2>2. ASSUME NEW x \in Page, d[x] # d[p] PROVE m[x] = m1[x]
    <3>1. x # p /\ x # m1[p].left /\ x # m1[p].right
      BY <2>1, <2>2
    <3> QED BY <3>1, <2>1
  <2> QED BY <2>1, <2>2
<1> HIDE DEF m
<1>8. Live(m) = Live(nd) \ {p} /\ p \in Live(nd)
  <2>1. Live(m) = Live(m1) \ {p}
    BY <1>7 DEF Live
  <2>2. p \in Live(nd)
    BY <1>1, LiveNode DEF Live
  <2> QED BY <2>1, <2>2, <1>3
<1>9. \A x \in Page : d[x] > 0 /\ d[x] < d[q] => m[x] = nd[x]
  <2>1. ASSUME NEW x \in Page, d[x] > 0, d[x] < d[q] PROVE m[x] = nd[x]
    <3>1. d[x] \in Nat /\ d[x] # d[p] /\ x # q
      BY <2>1, <1>1
    <3> QED BY <3>1, <2>1, <1>3, <1>7
  <2> QED BY <2>1
<1>10. \A x \in Page : d[x] > 0 /\ d[x] <= d[q] => d2[x] = d[x]
  <2>1. ASSUME NEW x \in Page, d[x] <= d[q] PROVE x # p
    BY <2>1, <1>1
  <2> QED BY <2>1, <1>6
<1>11. d2[rootPage] = 1
  BY <1>1, <1>6
<1>12. ASSUME Holds(nd, d, h, E) PROVE Holds(m, d2, h, E)
  <2>1. ASSUME NEW e \in E PROVE \E x \in Page : d2[x] = h /\ e \in ToSet(m[x].entries)
    <3>1. PICK x \in Page : d[x] = h /\ e \in ToSet(m1[x].entries)
      BY <2>1, <1>3, <1>12 DEF Holds
    <3>2. m1[x] # None /\ m1[x] \in Node
      <4>1. d[x] > 0
        BY <3>1, <1>1
      <4> QED BY <4>1, <1>3, LiveNode
    <3>3. x # p
      <4>1. CASE x = p
        <5>1. ToSet(m1[x].entries) = {m1[x].entries[j] : j \in 1 .. Size(m1[x])} /\ Size(m1[x]) = 0
          BY <4>1, <3>2, <1>4, EntryParts DEF IsEmpty
        <5> QED BY <5>1, <3>1
      <4> QED BY <4>1
    <3>4. d2[x] = h /\ m[x].entries = m1[x].entries
      BY <3>1, <3>2, <3>3, <1>6, <1>7
    <3> QED BY <3>1, <3>4
  <2>2. ASSUME NEW x \in Page, d2[x] = h PROVE Sorted(m[x])
    <3>1. x # p /\ d[x] = h /\ d[x] > 0
      BY <2>2, <1>1, <1>6
    <3>2. m1[x] # None
      BY <3>1, <1>3, LiveNode
    <3>3. m1[x].entries = m[x].entries
      BY <3>1, <3>2, <1>7
    <3>4. Sorted(m1[x])
      BY <3>1, <1>3, <1>12 DEF Holds
    <3> QED BY ONLY <3>3, <3>4, SortedSame
  <2> QED BY <2>1, <2>2 DEF Holds
<1>13. ASSUME Filled(nd, {rootPage, p}) PROVE Filled(m, {rootPage, q})
  <2>1. ASSUME NEW x \in Page \ {rootPage, q}, m[x] # None PROVE ~IsEmpty(m[x])
    <3>1. x # p /\ m1[x] # None /\ m[x].entries = m1[x].entries
      BY <2>1, <1>7
    <3>2. ~IsEmpty(m1[x])
      BY <2>1, <3>1, <1>3, <1>13 DEF Filled
    <3> QED BY <3>1, <3>2 DEF IsEmpty, Size
  <2> QED BY <2>1 DEF Filled
<1> QED BY <1>5, <1>8, <1>9, <1>10, <1>11, <1>12, <1>13 DEF PruneGiven, m, d2, m1

LEMMA PruneStep ==
  ASSUME NEW nodes, NEW path, NEW k, PruneContext(nodes, path, k), NEW E, NEW d, NEW rk,
         NEW s, NEW l \in 1 .. (height - 1), Prune(s, nodes, path, l + 1, E, d, rk)
  PROVE  \E d2, rk2 : Prune(PruneAt(s, path, l + 1, k), nodes, path, l, E, d2, rk2)
<1> DEFINE p == path[l + 1]
           q == path[l]
           nd == s.node
           i == ChildPos(node[q], k)
           t == PruneAt(s, path, l + 1, k)
<1>1. /\ height \in Nat \ {0} /\ l \in 1 .. height /\ l + 1 \in 1 .. height /\ (l + 1) - 1 = l
      /\ l \in 1 .. (l + 1) /\ l + 1 \in 1 .. (l + 1) /\ l > 0 /\ l < height
  BY DEF PruneContext
<1>2. /\ nd \in Nodes /\ Shape(nd, d, rk, height, {rootPage}) /\ d[rootPage] = 1
      /\ Accounts(nd, s.used, s.count, junk) /\ Holds(nd, d, height, E)
      /\ Filled(nd, {rootPage, p})
      /\ \A j \in 1 .. (l + 1) : d[path[j]] = j
      /\ \A j \in 1 .. l : nd[path[j]] = nodes[path[j]]
  BY <1>1 DEF Prune
<1>3. p \in Page /\ q \in Page /\ d[p] = l + 1 /\ d[q] = l
  BY <1>1, <1>2 DEF PruneContext
<1>4. i \in 1 .. Size(nd[q]) /\ Addr(nd[q], i) = p
  <2>1. i \in 1 .. Size(nodes[q]) /\ Addr(nodes[q], i) = p
    BY DEF PruneContext
  <2>2. nd[q] = nodes[q]
    BY <1>1, <1>2
  <2> HIDE DEF i, nd, p, q
  <2> QED BY <2>1, <2>2
<1>5. \A j \in 1 .. (l - 1) : path[j] \in Page /\ d[path[j]] = j /\ nd[path[j]] = nodes[path[j]] /\ j > 0 /\ j < l
  <2>1. \A j \in 1 .. (l - 1) : j \in 1 .. height /\ j \in 1 .. l /\ j \in 1 .. (l + 1) /\ j > 0 /\ j < l
    BY <1>1
  <2> HIDE DEF nd
  <2> QED BY <2>1, <1>2 DEF PruneContext
<1>6. CASE ~IsEmpty(nd[p])
  <2>1. t = s
    BY <1>6 DEF PruneAt
  <2>2. Filled(nd, {rootPage, q})
    BY <1>2, <1>6 DEF Filled
  <2>3. \A j \in 1 .. l : d[path[j]] = j
    BY <1>1, <1>2
  <2>4. Prune(s, nodes, path, l, E, d, rk)
    BY <1>2, <1>5, <2>2, <2>3 DEF Prune
  <2> QED BY <2>1, <2>4
<1>7. CASE IsEmpty(nd[p])
  <2> DEFINE m  == TakenOut([nd EXCEPT ![q] = RemoveEntry(nd[q], i)], p)
             d2 == [d EXCEPT ![p] = 0]
  <2>1. t = [node |-> m, used |-> s.used \ {p}, count |-> s.count - 1]
    BY <1>1, <1>7 DEF PruneAt, Freed
  <2>2. PruneGiven(nd, d, height, E, q, p, m, d2)
    <3>1. d[q] > 0 /\ d[q] < height /\ d[p] = d[q] + 1
      BY <1>1, <1>3
    <3> HIDE DEF nd, p, q, i
    <3> QED BY ONLY <3>1, <1>2, <1>3, <1>4, <1>7, PruneOne
  <2> HIDE DEF m, d2, nd, p, q, i
  <2>3. PICK rk2 : Shape(m, d2, rk2, height, {rootPage})
    BY <2>2 DEF PruneGiven
  <2>4. /\ d2[rootPage] = 1
        /\ p \in Live(nd) /\ Live(m) = Live(nd) \ {p}
        /\ \A x \in Page : d[x] > 0 /\ d[x] < l => m[x] = nd[x]
        /\ \A x \in Page : d[x] > 0 /\ d[x] <= l => d2[x] = d[x]
        /\ Holds(m, d2, height, E) /\ Filled(m, {rootPage, q})
    BY <2>2, <1>2, <1>3 DEF PruneGiven
  <2>5. Accounts(m, s.used \ {p}, s.count - 1, junk)
    BY <2>4, <1>2, AccountsLose
  <2>6. \A j \in 1 .. l : d2[path[j]] = j
    <3>1. \A j \in 1 .. l : j \in 1 .. height /\ j \in 1 .. (l + 1) /\ j > 0 /\ j <= l
      BY <1>1
    <3>2. \A j \in 1 .. l : path[j] \in Page /\ d[path[j]] = j
      BY <3>1, <1>2 DEF PruneContext
    <3> QED BY <3>1, <3>2, <2>4
  <2>7. \A j \in 1 .. (l - 1) : m[path[j]] = nodes[path[j]]
    BY <1>5, <2>4
  <2>8. m \in Nodes
    BY <2>3 DEF Shape
  <2>9. Prune(t, nodes, path, l, E, d2, rk2)
    <3>1. t.node = m /\ t.used = s.used \ {p} /\ t.count = s.count - 1
      BY <2>1
    <3> HIDE DEF t
    <3> QED BY <3>1, <2>3, <2>4, <2>5, <2>6, <2>7, <2>8 DEF Prune, q
  <2> QED BY <2>9
<1> QED BY <1>6, <1>7

\* The loop of a delete.
PruneStates == [node : Nodes, used : SUBSET (Page \cup {0}), count : Nat]
PruneStart(nodes) == [node |-> nodes, used |-> used, count |-> numPages]

LEMMA PruneAtState ==
  ASSUME NEW s \in PruneStates, NEW path, NEW l, NEW k, NEW nodes, NEW m, NEW E, NEW d, NEW rk,
         Prune(PruneAt(s, path, l, k), nodes, path, m, E, d, rk)
  PROVE  PruneAt(s, path, l, k) \in PruneStates
<1> DEFINE t == PruneAt(s, path, l, k)
<1>1. t = s \/ t = [node |-> t.node, used |-> t.used, count |-> t.count]
  BY DEF PruneAt
<1> HIDE DEF t
<1>2. t.node \in Nodes /\ Accounts(t.node, t.used, t.count, junk)
  BY DEF Prune, t
<1>3. t.used \subseteq Page \cup {0} /\ t.count \in Nat
  BY <1>2, AccountsType
<1> QED BY <1>1, <1>2, <1>3 DEF PruneStates, t

LEMMA PruneUpIs ==
  ASSUME NEW nodes, NEW path, NEW k, PruneContext(nodes, path, k), NEW E, NEW d, NEW rk,
         Prune(PruneStart(nodes), nodes, path, height, E, d, rk)
  PROVE  \E d2, rk2 : Prune(PruneUp(nodes, path, k), nodes, path, 1, E, d2, rk2)
<1> DEFINE start == PruneStart(nodes)
           G == [l \in 1 .. height |->
                  {s \in PruneStates : \E d2, rk2 : Prune(s, nodes, path, l, E, d2, rk2)}]
           step == [l \in 1 .. height |-> [s \in PruneStates |-> PruneAt(s, path, l + 1, k)]]
<1>1. height \in Nat \ {0} /\ height \in Nat /\ height > 0 /\ height \in 1 .. height /\ 1 \in 1 .. height
  BY DEF PruneContext
<1>2. ASSUME NEW l \in 1 .. (height - 1), NEW s \in G[l + 1]
      PROVE  PruneAt(s, path, l + 1, k) \in G[l]
  <2>1. l + 1 \in 1 .. height /\ l \in 1 .. height
    BY <1>1
  <2>2. s \in PruneStates
    BY <2>1, <1>2
  <2>3. PICK d2, rk2 : Prune(s, nodes, path, l + 1, E, d2, rk2)
    BY <2>1, <1>2
  <2>4. \E d3, rk3 : Prune(PruneAt(s, path, l + 1, k), nodes, path, l, E, d3, rk3)
    BY <2>3, PruneStep
  <2>5. PruneAt(s, path, l + 1, k) \in PruneStates
    BY <2>2, <2>4, PruneAtState
  <2> QED BY <2>1, <2>4, <2>5
<1>3. start \in G[height] /\ start \in PruneStates
  <2>1. start = [node |-> nodes, used |-> used, count |-> numPages]
    BY DEF PruneStart
  <2>2. nodes \in Nodes /\ Accounts(nodes, used, numPages, junk)
    BY <2>1 DEF Prune
  <2>3. used \subseteq Page \cup {0} /\ numPages \in Nat
    BY <2>2, AccountsType
  <2>4. start \in PruneStates
    BY <2>1, <2>2, <2>3 DEF PruneStates
  <2> QED BY <2>4, <1>1
<1>4. Falls(height, PruneStates, G, start, step)
  <2>1. \A l \in 1 .. height : G[l] \subseteq PruneStates
    OBVIOUS
  <2>2. ASSUME NEW l \in 1 .. (height - 1), NEW s \in G[l + 1] PROVE step[l][s] \in G[l]
    <3>1. l \in 1 .. height /\ l + 1 \in 1 .. height
      BY <1>1
    <3>2. s \in PruneStates
      BY <3>1, <2>2
    <3>3. step[l][s] = PruneAt(s, path, l + 1, k)
      BY <3>1, <3>2
    <3> HIDE DEF G, step
    <3> QED BY <3>3, <2>2, <1>2
  <2> HIDE DEF G, step, start
  <2> QED BY <2>1, <2>2, <1>1, <1>3 DEF Falls
<1>5. \E f \in [1 .. height -> PruneStates] :
         \A l \in 1 .. height : f[l] = (IF l = height THEN start ELSE step[l][f[l + 1]]) /\ f[l] \in G[l]
  <2> HIDE DEF G, step, start
  <2> QED BY ONLY <1>4, Descent
<1>6. PICK f \in [1 .. height -> PruneStates] :
         \A l \in 1 .. height : f[l] = (IF l = height THEN start ELSE step[l][f[l + 1]]) /\ f[l] \in G[l]
  BY <1>5
<1> HIDE DEF start
<1>7. f = [l \in 1 .. height |-> IF l = height THEN start ELSE PruneAt(f[l + 1], path, l + 1, k)]
  <2>1. ASSUME NEW l \in 1 .. height
        PROVE  f[l] = IF l = height THEN start ELSE PruneAt(f[l + 1], path, l + 1, k)
    <3>1. CASE l = height
      BY <3>1, <1>6
    <3>2. CASE l # height
      <4>1. l + 1 \in 1 .. height
        BY <3>2, <1>1
      <4>2. step[l][f[l + 1]] = PruneAt(f[l + 1], path, l + 1, k)
        BY <4>1
      <4> HIDE DEF step
      <4> QED BY <3>2, <4>2, <1>6
    <3> QED BY <3>1, <3>2
  <2> QED BY <2>1
<1> DEFINE after[l \in 1 .. height] ==
             IF l = height THEN start ELSE PruneAt(after[l + 1], path, l + 1, k)
<1>8. after = [l \in 1 .. height |-> IF l = height THEN start ELSE PruneAt(after[l + 1], path, l + 1, k)]
  BY <1>7
<1>9. PruneUp(nodes, path, k) = after[1]
  BY DEF PruneUp, start, PruneStart
<1> HIDE DEF after
<1> DEFINE T == {l \in 1 .. height : after[l] \in G[l]}
<1>10. 1 .. height \subseteq T
  <2>1. height \in T
    <3>1. after[height] = start
      BY <1>1, <1>8
    <3> QED BY <3>1, <1>1, <1>3
  <2>2. ASSUME NEW l \in 1 .. (height - 1), l + 1 \in T PROVE l \in T
    <3>1. l \in 1 .. height /\ l # height
      BY <1>1
    <3>2. after[l] = PruneAt(after[l + 1], path, l + 1, k)
      BY <3>1, <1>8
    <3>3. after[l + 1] \in G[l + 1]
      BY <2>2
    <3> HIDE DEF G
    <3> QED BY <3>1, <3>2, <3>3, <1>2
  <2> HIDE DEF T
  <2> QED BY <2>1, <2>2, <1>1, Downward
<1>11. after[1] \in G[1]
  BY <1>1, <1>10
<1> QED BY <1>1, <1>9, <1>11

\* A step that changes what is due at most, and demands less.
LEMMA QuietKeeps ==
  ASSUME TreeInv, UNCHANGED <<node, header, treeLargest, aborted, top, junk>>, due' \subseteq due
  PROVE  TreeInv'
<1>1. /\ node' = node /\ used' = used /\ numPages' = numPages /\ rootPage' = rootPage
      /\ height' = height /\ treeLargest' = treeLargest /\ top' = top /\ junk' = junk
      /\ aborted' = aborted
  BY DEF header
<1>2. PICK d, rk : IsTree(d, rk) /\ Holds(node, d, height, Holding)
  BY DEF TreeInv
<1>3. Shape(node', d, rk, height', {rootPage'}) /\ d[rootPage'] = 1 /\ Filled(node', Root')
  BY <1>1, <1>2 DEF IsTree, Root
<1>4. Holds(node', d, height', Holding')
  BY <1>1, <1>2 DEF Holds, Holding
<1>5. Accounts(node', used', numPages', junk')
  BY <1>1 DEF TreeInv
<1>6. /\ treeLargest' \in Keys \cup {None} /\ aborted' \in BOOLEAN /\ top' \in Page
      /\ junk' \subseteq Unset /\ due' \subseteq Keys \X Rids
  BY <1>1 DEF TreeInv, TypeOK
<1> QED BY <1>3, <1>4, <1>5, <1>6, TreeInvNext

\* The root is empty, and there is no other node: an index as it was created.
LEMMA RootAlone ==
  ASSUME NEW nd, NEW d, NEW rk, NEW h, Shape(nd, d, rk, h, {rootPage}), d[rootPage] = 1,
         NEW bits, Accounts(nd, bits, 2, junk), NEW E, Holds(nd, d, h, E), IsEmpty(nd[rootPage])
  PROVE  Shape(nd, d, rk, 1, {rootPage}) /\ Holds(nd, d, 1, E)
<1>1. /\ h \in Nat \ {0} /\ nd \in Nodes /\ d \in [Page -> 0 .. h] /\ rootPage \in Page
      /\ \A p \in Page : d[p] = 0 <=> nd[p] = None
      /\ Tree(Kids(nd, d, h), d, {rootPage}) /\ Chain(Lefts(nd), Rights(nd), d, rk)
      /\ \A p \in Live(nd) : Size(nd[p]) <= Capacity
  BY DEF Shape, Tree
<1>2. Live(nd) = {rootPage}
  <2>1. IsFiniteSet(Live(nd)) /\ rootPage \in Live(nd)
    <3>1. Live(nd) \subseteq Page
      BY DEF Live
    <3> QED BY <3>1, <1>1, PageIsNumber, FS_Subset DEF Live
  <2>2. Cardinality(Live(nd)) = 1
    <3> DEFINE c == Cardinality(Live(nd))
    <3>1. c \in Nat
      BY <2>1, FS_CardinalityType
    <3>2. 2 = 1 + c
      BY DEF Accounts
    <3> HIDE DEF c
    <3>3. c = 1
      BY <3>1, <3>2
    <3> QED BY <3>3 DEF c
  <2> DEFINE L == Live(nd)
  <2>3. IsFiniteSet(L) /\ rootPage \in L /\ Cardinality(L) = 1
    BY <2>1, <2>2
  <2> HIDE DEF L
  <2>4. \E x : L = {x}
    BY <2>3, FS_Singleton
  <2> QED BY <2>3, <2>4 DEF L
<1>3. \A p \in Page : d[p] = IF p = rootPage THEN 1 ELSE 0
  BY <1>1, <1>2 DEF Live
<1>4. d \in [Page -> 0 .. 1]
  BY <1>1, <1>3
<1>5. Tree(Kids(nd, d, 1), d, {rootPage})
  <2>1. \A p \in Page : Kids(nd, d, 1)[p] = {}
    BY <1>3 DEF Kids
  <2>2. Kids(nd, d, 1) \in [Page -> SUBSET Page]
    <3>1. Kids(nd, d, 1) = [p \in Page |-> Kids(nd, d, 1)[p]]
      BY DEF Kids
    <3> QED BY <2>1, <3>1
  <2>3. d \in [Page -> Nat]
    BY <1>4
  <2> QED BY <2>1, <2>2, <2>3, <1>1, <1>3 DEF Tree
<1>6. Shape(nd, d, rk, 1, {rootPage})
  <2>1. \A p \in Live(nd) : ~ (d[p] < 1)
    BY <1>2, <1>1, <1>3
  <2> QED BY <2>1, <1>1, <1>4, <1>5 DEF Shape
<1>7. Holds(nd, d, 1, E)
  <2>1. \A p \in Page : d[p] = h => d[p] = 1
    BY <1>1, <1>3
  <2>2. Sorted(nd[rootPage])
    BY DEF IsEmpty, Sorted
  <2>3. \A p \in Page : d[p] = 1 => Sorted(nd[p])
    BY <2>2, <1>3
  <2> QED BY <2>1, <2>3 DEF Holds
<1> QED BY <1>6, <1>7

\* What the loop of a delete starts from.
LEMMA DeleteReady ==
  ASSUME NEW d, NEW rk, IsTree(d, rk), NEW E, Holds(node, d, height, E),
         Accounts(node, used, numPages, junk), NEW k, NEW path, OnPath(path, d, k),
         NEW kept, RecordsKept(node, kept, d, height),
         NEW i \in 1 .. Size(node[path[height]]), NEW nodes,
         nodes = [kept EXCEPT ![path[height]] = RemoveEntry(@, i)]
  PROVE  /\ PruneContext(nodes, path, k)
         /\ Prune(PruneStart(nodes), nodes, path, height, E \ {node[path[height]].entries[i]}, d, rk)
<1> DEFINE p == path[height]
           e == node[p].entries[i]
           s == PruneStart(nodes)
<1>1. /\ height \in Nat \ {0} /\ height \in 1 .. height /\ d[rootPage] = 1 /\ Filled(node, Root)
      /\ Shape(node, d, rk, height, {rootPage}) /\ kept \in Nodes
  BY DEF IsTree, Shape, RecordsKept
<1>2. /\ path \in [1 .. height -> Page] /\ path[1] = rootPage
      /\ \A l \in 1 .. height : path[l] \in Page /\ d[path[l]] = l
  BY DEF OnPath
<1>3. p \in Page /\ d[p] = height /\ d[p] > 0 /\ ~ (d[p] < height) /\ kept[p] = node[p]
  BY <1>1, <1>2 DEF RecordsKept
<1>4. Shape(kept, d, rk, height, {rootPage})
  BY <1>1, ShapeKeys
<1>5. Live(kept) = Live(node) /\ Holds(kept, d, height, E) /\ Filled(kept, Root)
  BY <1>1, KeysFacts
<1> HIDE DEF p
<1>6. nodes = [kept EXCEPT ![p] = RemoveEntry(kept[p], i)] /\ i \in 1 .. Size(kept[p])
  BY <1>3 DEF p
<1>7. Removed(kept, d, rk, height, {rootPage}, E, Root, p, i, nodes)
  <2>1. Removed(kept, d, rk, height, {rootPage}, E, Root, p, i, [kept EXCEPT ![p] = RemoveEntry(kept[p], i)])
    BY ONLY <1>3, <1>4, <1>6, RemoveOne
  <2> QED BY ONLY <2>1, <1>6
<1>8. /\ Shape(nodes, d, rk, height, {rootPage})
      /\ \A x \in Page \ {p} : nodes[x] = kept[x]
      /\ Live(nodes) = Live(node)
      /\ Holds(nodes, d, height, E \ {e})
      /\ Filled(nodes, {rootPage, p})
  <2>1. Lost(kept, d, height, p, i) = {} /\ Kept(kept, d, height, E, p, i) = E \ {e}
    BY <1>3 DEF Lost, Kept
  <2>2. Filled(nodes, Root \cup {p})
    BY <1>5, <1>7 DEF Removed
  <2>3. Filled(nodes, {rootPage, p})
    BY <2>2 DEF Filled, Root
  <2> HIDE DEF e
  <2> QED BY <2>1, <2>3, <1>5, <1>7 DEF Removed
<1>9. Accounts(nodes, used, numPages, junk)
  BY <1>8 DEF Accounts
<1>10. s.node = nodes /\ s.used = used /\ s.count = numPages
  BY DEF PruneStart
<1> HIDE DEF s, e
<1>11. ASSUME NEW l \in 1 .. (height - 1)
       PROVE  LET j == ChildPos(node[path[l]], k)
              IN  j \in 1 .. Size(nodes[path[l]]) /\ Addr(nodes[path[l]], j) = path[l + 1]
  <2> DEFINE q == path[l]
             j == ChildPos(node[q], k)
  <2>1. l \in 1 .. height /\ l # height /\ l > 0
    BY <1>1
  <2>2. q \in Page /\ d[q] = l /\ q # p
    BY <2>1, <1>2, <1>3
  <2>3. j \in 1 .. Size(node[q]) /\ path[l + 1] = Addr(node[q], j)
    BY DEF OnPath
  <2>4. OnlyKeysDiffer(node[q], kept[q])
    <3>1. node[q] # None
      BY <2>1, <2>2, <1>1, LiveNode
    <3> QED BY <3>1, <2>2 DEF RecordsKept
  <2>5. nodes[q] = kept[q]
    BY <2>2, <1>8
  <2> HIDE DEF q, j
  <2>6. j \in 1 .. Size(nodes[q]) /\ Addr(nodes[q], j) = path[l + 1]
    BY <2>3, <2>4, <2>5 DEF OnlyKeysDiffer
  <2> QED BY <2>6 DEF q, j
<1>12. PruneContext(nodes, path, k)
  BY <1>1, <1>2, <1>11 DEF PruneContext
<1>13. Prune(s, nodes, path, height, E \ {e}, d, rk)
  <2>1. nodes \in Nodes
    BY <1>8 DEF Shape
  <2> QED BY <2>1, <1>1, <1>2, <1>8, <1>9, <1>10 DEF Prune, p
<1> QED BY <1>12, <1>13 DEF s, e, p

LEMMA DeleteKeeps ==
  ASSUME TreeInv, NEW k \in Keys, NEW r \in Rids, DeleteEntry(k, r)
  PROVE  TreeInv'
<1> DEFINE path == FindLeaf(k)
           pos  == FindEntry(node[path[height]], k, r)
           E    == due \ {<<k, r>>}
<1>1. /\ ~aborted /\ due' = E /\ due' \subseteq due /\ due' \subseteq Keys \X Rids
      /\ TypeOK /\ Accounts(node, used, numPages, junk)
  BY DEF DeleteEntry, TreeInv, TypeOK
<1>2. CASE NotFound(k, r)
  <2>1. UNCHANGED <<node, header, treeLargest, aborted, top, junk>>
    BY <1>2 DEF NotFound
  <2> QED BY <2>1, <1>1, QuietKeeps
<1>3. CASE Abort
  BY <1>1, <1>3, AbortKeeps
<1>4. CASE Found(k, r) /\ ~Abort
  <2>1. PICK kept \in Lowerings(path, k, pos) :
          LET s == PruneUp([kept EXCEPT ![path[height]] = RemoveEntry(@, pos)], path, k)
          IN  /\ ~ (IsEmpty(s.node[rootPage]) /\ s.count # 2)
              /\ node' = s.node /\ used' = s.used /\ numPages' = s.count
              /\ height' = IF IsEmpty(s.node[rootPage]) THEN 1 ELSE height
              /\ UNCHANGED <<rootPage, treeLargest, aborted, top, junk>>
    BY <1>4 DEF Found
  <2>2. pos # 0
    BY <1>4 DEF Found
  <2> DEFINE nodes == [kept EXCEPT ![path[height]] = RemoveEntry(@, pos)]
             s == PruneUp(nodes, path, k)
  <2>3. /\ IsEmpty(s.node[rootPage]) => s.count = 2
        /\ node' = s.node /\ used' = s.used /\ numPages' = s.count
        /\ height' = IF IsEmpty(s.node[rootPage]) THEN 1 ELSE height
        /\ rootPage' = rootPage /\ treeLargest' = treeLargest /\ aborted' = aborted /\ top' = top /\ junk' = junk
    BY <2>1
  <2>4. PICK d, rk : IsTree(d, rk) /\ Holds(node, d, height, due)
    BY <1>1 DEF TreeInv, Holding
  <2>5. height \in Nat \ {0} /\ height \in 1 .. height /\ Shape(node, d, rk, height, {rootPage})
    BY <2>4 DEF IsTree, Shape
  <2>6. OnPath(path, d, k)
    BY <2>4, PathIs
  <2>7. RecordsKept(node, kept, d, height)
    <3>1. CASE kept = node
      <4>1. node \in Nodes
        BY <2>5 DEF Shape
      <4>2. \A p \in Page : node[p] # None => OnlyKeysDiffer(node[p], node[p])
        BY <4>1, SameKeys DEF Nodes
      <4> QED BY <3>1, <4>1, <4>2 DEF RecordsKept
    <3>2. CASE \E levels : kept = Lowered(path, k, levels)
      BY <3>2, <2>4, <2>6, LoweredIs
    <3>3. kept = node \/ \E levels : kept = Lowered(path, k, levels)
      BY <2>1 DEF Lowerings
    <3> QED BY <3>1, <3>2, <3>3
  <2>8. node[path[height]] \in Node
    <3>1. path[height] \in Page /\ d[path[height]] = height /\ height > 0
      BY <2>5, <2>6 DEF OnPath
    <3> QED BY <3>1, <2>5, LiveNode
  <2>9. pos \in 1 .. Size(node[path[height]]) /\ node[path[height]].entries[pos] = <<k, r>>
    <3> DEFINE n == node[path[height]]
               x == FindEntry(n, k, r)
    <3>1. x \in 0 .. Size(n) /\ x # 0 /\ n.entries[x] = <<k, r>> /\ Size(n) \in Nat
      BY <2>2, <2>8, Positions, EntryParts
    <3> HIDE DEF x, n
    <3>2. x \in 1 .. Size(n)
      BY <3>1
    <3> QED BY <3>1, <3>2 DEF x, n
  <2> HIDE DEF path, pos
  <2>10. /\ PruneContext(nodes, path, k)
         /\ Prune(PruneStart(nodes), nodes, path, height, due \ {node[path[height]].entries[pos]}, d, rk)
    BY <1>1, <2>4, <2>6, <2>7, <2>9, DeleteReady
  <2>11. Prune(PruneStart(nodes), nodes, path, height, E, d, rk)
    BY <2>9, <2>10
  <2> HIDE DEF nodes, E
  <2>12. PICK d2, rk2 : Prune(s, nodes, path, 1, E, d2, rk2)
    BY <2>10, <2>11, PruneUpIs
  <2> HIDE DEF s
  <2>13. /\ Shape(s.node, d2, rk2, height, {rootPage}) /\ d2[rootPage] = 1
         /\ Accounts(s.node, s.used, s.count, junk)
         /\ Holds(s.node, d2, height, E) /\ Filled(s.node, {rootPage})
    <3>1. path[1] = rootPage
      BY <2>10 DEF PruneContext
    <3>2. Filled(s.node, {rootPage, path[1]})
      BY <2>12 DEF Prune
    <3>3. Filled(s.node, {rootPage})
      BY <3>1, <3>2 DEF Filled
    <3> QED BY <3>3, <2>12 DEF Prune
  <2>14. /\ treeLargest' \in Keys \cup {None} /\ aborted' \in BOOLEAN /\ top' \in Page
         /\ junk' \subseteq Unset /\ Holding' = E
    BY <1>1, <2>3 DEF TypeOK, Holding
  <2>15. Accounts(node', used', numPages', junk')
    BY <2>3, <2>13
  <2>16. CASE IsEmpty(s.node[rootPage])
    <3>1. height' = 1 /\ s.count = 2
      BY <2>3, <2>16
    <3>2. Shape(s.node, d2, rk2, 1, {rootPage}) /\ Holds(s.node, d2, 1, E)
      BY <3>1, <2>13, <2>16, RootAlone
    <3>3. Filled(node', Root')
      BY <3>1, <2>3, <2>13 DEF Root
    <3>4. Shape(node', d2, rk2, height', {rootPage'}) /\ d2[rootPage'] = 1 /\ Holds(node', d2, height', Holding')
      BY <3>1, <3>2, <2>3, <2>13, <2>14
    <3> QED BY <3>3, <3>4, <2>14, <2>15, <1>1, TreeInvNext
  <2>17. CASE ~IsEmpty(s.node[rootPage])
    <3>1. height' = height
      BY <2>3, <2>17
    <3>2. Filled(node', Root')
      BY <2>3, <2>13, <2>17 DEF Filled
    <3>3. Shape(node', d2, rk2, height', {rootPage'}) /\ d2[rootPage'] = 1 /\ Holds(node', d2, height', Holding')
      BY <3>1, <2>3, <2>13, <2>14
    <3> QED BY <3>2, <3>3, <2>14, <2>15, <1>1, TreeInvNext
  <2> QED BY <2>16, <2>17
<1> QED BY <1>2, <1>3, <1>4 DEF DeleteEntry

-----------------------------------------------------------------------------
(* Scans (IndexScan).  The leaves, from the entries above them.             *)
LEMMA BelowIs ==
  ASSUME NEW d, NEW rk, IsTree(d, rk), NEW l \in 1 .. (height - 1), NEW pages, NEW X, NEW a, NEW b,
         Spans(pages, Page, X, a, b), \A p \in X : d[p] = l
  PROVE  Spans(Below(pages), Page, UNION {Addresses(node[p]) : p \in X},
               Addr(node[a], 1), Addr(node[b], Size(node[b])))
<1> DEFINE N == Len(pages)
           ss == [j \in DOMAIN pages |-> [i \in DOMAIN node[pages[j]].entries |-> Addr(node[pages[j]], i)]]
           U == UNION {Addresses(node[p]) : p \in X}
<1>1. /\ N \in Nat /\ N > 0 /\ DOMAIN pages = 1 .. N /\ pages[1] = a /\ pages[N] = b
      /\ X = {pages[j] : j \in 1 .. N}
      /\ height \in Nat \ {0} /\ l \in Nat
  <2>1. pages \in Seq(Page) /\ N > 0 /\ ToSet(pages) = X /\ pages[1] = a /\ pages[N] = b
    BY DEF Spans
  <2>2. N \in Nat /\ DOMAIN pages = 1 .. N
    BY <2>1, LenProperties
  <2>3. ToSet(pages) = {pages[j] : j \in 1 .. N}
    BY <2>2 DEF ToSet
  <2> QED BY <2>1, <2>2, <2>3 DEF IsTree, Shape
<1>2. ASSUME NEW j \in 1 .. N
      PROVE  /\ pages[j] \in X /\ node[pages[j]] \in Node
             /\ Size(node[pages[j]]) \in Nat /\ Size(node[pages[j]]) > 0
             /\ DOMAIN node[pages[j]].entries = 1 .. Size(node[pages[j]])
             /\ Addresses(node[pages[j]]) = {Addr(node[pages[j]], i) : i \in 1 .. Size(node[pages[j]])}
             /\ Addresses(node[pages[j]]) \subseteq Page
  <2> DEFINE p == pages[j]
  <2>1. p \in X /\ p \in Page
    <3>1. pages \in Seq(Page)
      BY DEF Spans
    <3> QED BY <3>1, <1>1, ElementOfSeq
  <2>2. d[p] > 0 /\ d[p] < height
    BY <2>1, <1>1
  <2> HIDE DEF p
  <2>3. node[p] \in Node /\ ~IsEmpty(node[p]) /\ \A x \in Addresses(node[p]) : x \in Page
    BY <2>1, <2>2, InnerNode
  <2>4. Size(node[p]) \in Nat /\ DOMAIN node[p].entries = 1 .. Size(node[p])
        /\ Addresses(node[p]) = {Addr(node[p], i) : i \in 1 .. Size(node[p])}
    BY <2>3, EntryParts
  <2>5. Size(node[p]) > 0
    BY <2>3, <2>4 DEF IsEmpty
  <2> QED BY <2>1, <2>3, <2>4, <2>5 DEF p
<1>3. ASSUME NEW j \in 1 .. N
      PROVE  /\ ss[j] \in Seq(Page) /\ Len(ss[j]) = Size(node[pages[j]])
             /\ ToSet(ss[j]) = Addresses(node[pages[j]])
             /\ \A i \in 1 .. Size(node[pages[j]]) : ss[j][i] = Addr(node[pages[j]], i)
  <2> DEFINE n == node[pages[j]]
             t == [i \in 1 .. Size(n) |-> Addr(n, i)]
  <2>1. ss[j] = t
    BY <1>1, <1>2
  <2>2. /\ Size(n) \in Nat /\ Addresses(n) \subseteq Page
        /\ Addresses(n) = {Addr(n, i) : i \in 1 .. Size(n)}
    BY <1>2
  <2> HIDE DEF n
  <2>3. t \in [1 .. Size(n) -> Page]
    BY <2>2
  <2>4. t \in Seq(Page) /\ Len(t) = Size(n) /\ DOMAIN t = 1 .. Size(n)
    BY <2>2, <2>3
  <2>5. ToSet(t) = Addresses(n)
    BY <2>2, <2>4 DEF ToSet
  <2> HIDE DEF ss
  <2> QED BY <2>1, <2>4, <2>5 DEF n
<1>4. ss \in Seq(Seq(Page)) /\ Len(ss) = N
  <2>1. ss \in [1 .. N -> Seq(Page)]
    BY <1>1, <1>3
  <2> HIDE DEF ss
  <2> QED BY <2>1, <1>1
<1> HIDE DEF ss, N
<1>5. U = UNION {ToSet(ss[j]) : j \in 1 .. N}
  <2>1. {Addresses(node[p]) : p \in X} = {Addresses(node[pages[j]]) : j \in 1 .. N}
    BY <1>1
  <2>2. {Addresses(node[pages[j]]) : j \in 1 .. N} = {ToSet(ss[j]) : j \in 1 .. N}
    BY <1>3
  <2> QED BY <2>1, <2>2
<1> HIDE DEF U
<1>6. Spans(FlattenSeq(ss), Page, U, ss[1][1], ss[N][Len(ss[N])])
  <2>1. \A j \in 1 .. Len(ss) : Len(ss[j]) > 0
    BY <1>2, <1>3, <1>4
  <2>2. ss \in Seq(Seq(Page)) /\ Len(ss) = N /\ N > 0 /\ U = UNION {ToSet(ss[j]) : j \in 1 .. N}
    BY <1>1, <1>4, <1>5
  <2> QED BY ONLY <2>1, <2>2, FlattenIs
<1>7. ss[1][1] = Addr(node[a], 1) /\ ss[N][Len(ss[N])] = Addr(node[b], Size(node[b]))
  <2>1. 1 \in 1 .. N /\ N \in 1 .. N
    BY <1>1
  <2>2. 1 \in 1 .. Size(node[pages[1]]) /\ Size(node[pages[N]]) \in 1 .. Size(node[pages[N]])
    BY <2>1, <1>2
  <2> QED BY <2>1, <2>2, <1>1, <1>3
<1> QED BY <1>6, <1>7 DEF Below, ss, U, N

\* The way along the outer entries.
OuterPath(path, d, c) ==
  /\ path \in [1 .. height -> Page] /\ FindOuterLeaf(c) = path[height]
  /\ \A l \in 1 .. height :
       /\ d[path[l]] = l
       /\ path[l] = IF l = 1 THEN rootPage ELSE Addr(node[path[l - 1]], Outer(c, path[l - 1]))

LEMMA OuterPathIs ==
  ASSUME NEW d, NEW rk, IsTree(d, rk), NEW c \in Scans
  PROVE  \E path : OuterPath(path, d, c)
<1> DEFINE Down(p) == Addr(node[p], Outer(c, p))
           G == [l \in 1 .. height |-> {p \in Page : d[p] = l}]
           step == [l \in 1 .. height |-> [p \in Page |-> Down(p)]]
<1>1. height \in Nat \ {0} /\ rootPage \in Page /\ d[rootPage] = 1
  BY DEF IsTree, Shape, Tree
<1>2. ASSUME NEW l \in 2 .. height, NEW p \in Page, d[p] = l - 1
      PROVE  Down(p) \in Page /\ d[Down(p)] = l
  <2>1. d[p] > 0 /\ d[p] < height /\ d[p] + 1 = l
    BY <1>1, <1>2
  <2>2. node[p] \in Node /\ ~IsEmpty(node[p]) /\ \A x \in Addresses(node[p]) : x \in Page /\ d[x] = d[p] + 1
    BY <2>1, InnerNode
  <2>3. Size(node[p]) \in Nat /\ Addresses(node[p]) = {Addr(node[p], i) : i \in 1 .. Size(node[p])}
    BY <2>2, EntryParts
  <2>4. Outer(c, p) \in 1 .. Size(node[p])
    BY <2>2, <2>3 DEF Outer, IsEmpty
  <2> QED BY <2>1, <2>2, <2>3, <2>4
<1> HIDE DEF Down
<1>3. Rises(height, Page, G, rootPage, step)
  <2>1. \A l \in 1 .. height : G[l] \subseteq Page
    OBVIOUS
  <2>2. rootPage \in G[1]
    BY <1>1
  <2>3. ASSUME NEW l \in 2 .. height, NEW p \in G[l - 1] PROVE step[l][p] \in G[l]
    <3>1. l - 1 \in 1 .. height /\ l \in 1 .. height
      BY <1>1
    <3>2. p \in Page /\ d[p] = l - 1
      BY <3>1, <2>3
    <3> QED BY <3>1, <3>2, <1>2
  <2> HIDE DEF G, step
  <2> QED BY <2>1, <2>2, <2>3, <1>1 DEF Rises
<1>4. PICK f \in [1 .. height -> Page] :
         \A l \in 1 .. height : f[l] = (IF l = 1 THEN rootPage ELSE step[l][f[l - 1]]) /\ f[l] \in G[l]
  <2> HIDE DEF G, step
  <2> QED BY ONLY <1>3, Ascent
<1>5. f = [l \in 1 .. height |-> IF l = 1 THEN rootPage ELSE Addr(node[f[l - 1]], Outer(c, f[l - 1]))]
  <2>1. ASSUME NEW l \in 1 .. height, l # 1 PROVE step[l][f[l - 1]] = Down(f[l - 1])
    <3>1. l - 1 \in 1 .. height
      BY <1>1, <2>1
    <3> QED BY <3>1
  <2> HIDE DEF step
  <2> QED BY <2>1, <1>4 DEF Down
<1> DEFINE path[l \in 1 .. height] == IF l = 1 THEN rootPage ELSE Addr(node[path[l - 1]], Outer(c, path[l - 1]))
<1>6. path = [l \in 1 .. height |-> IF l = 1 THEN rootPage ELSE Addr(node[path[l - 1]], Outer(c, path[l - 1]))]
  BY <1>5
<1>7. FindOuterLeaf(c) = path[height]
  BY DEF FindOuterLeaf
<1> HIDE DEF path
<1> DEFINE T == {l \in 1 .. height : path[l] \in Page /\ d[path[l]] = l}
<1>8. 1 .. height \subseteq T
  <2>1. 1 \in T
    BY <1>1, <1>6
  <2>2. ASSUME NEW l \in 1 .. (height - 1), l \in T PROVE l + 1 \in T
    <3>1. l + 1 \in 2 .. height /\ (l + 1) - 1 = l /\ l + 1 \in 1 .. height /\ l + 1 # 1
      BY <1>1
    <3>2. path[l + 1] = Down(path[l])
      BY <3>1, <1>6 DEF Down
    <3> QED BY <3>1, <3>2, <2>2, <1>2
  <2> HIDE DEF T
  <2> QED BY <2>1, <2>2, <1>1, Upward
<1>9. path \in [1 .. height -> Page]
  BY <1>6, <1>8
<1>10. \A l \in 1 .. height : path[l] = IF l = 1 THEN rootPage ELSE Addr(node[path[l - 1]], Outer(c, path[l - 1]))
  BY <1>6
<1>11. \A l \in 1 .. height : d[path[l]] = l
  BY <1>8
<1> HIDE DEF T
<1>12. OuterPath(path, d, c)
  BY <1>7, <1>9, <1>10, <1>11 DEF OuterPath
<1> QED BY <1>12

\* Leaves has the pages of the last level; FindOuterLeaf finds its first or last.
LEMMA LeavesAre ==
  ASSUME NEW d, NEW rk, IsTree(d, rk), NEW c \in Scans
  PROVE  /\ Leaves \in Seq(Page) /\ Len(Leaves) \in Nat \ {0} /\ DOMAIN Leaves = 1 .. Len(Leaves)
         /\ Level[height] = {Leaves[j] : j \in 1 .. Len(Leaves)}
         /\ FindOuterLeaf(c) = Leaves[IF c.desc THEN Len(Leaves) ELSE 1]
         /\ height = 1 => Len(Leaves) = 1
<1> DEFINE c2 == [c EXCEPT !.desc = ~c.desc]
<1>1. /\ c2 \in Scans /\ c.desc \in BOOLEAN /\ c2.desc = ~c.desc
      /\ height \in Nat \ {0} /\ rootPage \in Page
  BY DEF Scans, IsTree, Shape, Tree
<1> HIDE DEF c2
<1>2. PICK path1 : OuterPath(path1, d, c)
  BY OuterPathIs
<1>3. PICK path2 : OuterPath(path2, d, c2)
  BY <1>1, OuterPathIs
<1> DEFINE first(l) == IF c.desc THEN path2[l] ELSE path1[l]
           last(l)  == IF c.desc THEN path1[l] ELSE path2[l]
           Of(l)    == {p \in Page : d[p] = l}
           G == [l \in 1 .. height |-> {t \in Seq(Page) : Spans(t, Page, Of(l), first(l), last(l))}]
           step == [l \in 1 .. height |-> [t \in Seq(Page) |-> Below(t)]]
<1>4. first(1) = rootPage /\ last(1) = rootPage
  BY <1>1, <1>2, <1>3 DEF OuterPath
<1>5. ASSUME NEW l \in 2 .. height
      PROVE  first(l) = Addr(node[first(l - 1)], 1) /\ last(l) = Addr(node[last(l - 1)], Size(node[last(l - 1)]))
  <2>1. l \in 1 .. height /\ l # 1
    BY <1>1
  <2>2. /\ path1[l] = Addr(node[path1[l - 1]], IF c.desc THEN Size(node[path1[l - 1]]) ELSE 1)
        /\ path2[l] = Addr(node[path2[l - 1]], IF c2.desc THEN Size(node[path2[l - 1]]) ELSE 1)
    BY <2>1, <1>2, <1>3 DEF OuterPath, Outer
  <2>3. CASE c.desc
    BY <2>2, <2>3, <1>1
  <2>4. CASE ~c.desc
    BY <2>2, <2>4, <1>1
  <2> QED BY <2>3, <2>4
<1>6. /\ \A l \in 1 .. height : Level[l] = Of(l)
      /\ \A l \in 2 .. height : Of(l) = UNION {Addresses(node[p]) : p \in Of(l - 1)}
      /\ Of(1) = {rootPage}
  <2>1. \A l \in 1 .. height : Level[l] = Of(l)
    BY LevelIs
  <2>2. Level = [l \in 1 .. height |-> IF l = 1 THEN {rootPage} ELSE UNION {Addresses(node[p]) : p \in Level[l - 1]}]
    BY LevelsAre
  <2>3. \A l \in 2 .. height : l \in 1 .. height /\ l - 1 \in 1 .. height /\ l # 1
    BY <1>1
  <2> HIDE DEF Of
  <2>4. \A l \in 2 .. height : Level[l] = UNION {Addresses(node[p]) : p \in Level[l - 1]}
    BY <2>2, <2>3
  <2>5. Level[1] = {rootPage} /\ 1 \in 1 .. height
    BY <2>2, <1>1
  <2> QED BY <2>1, <2>3, <2>4, <2>5
<1>7. \A l \in 1 .. height : \A p \in Of(l) : d[p] = l
  OBVIOUS
<1> HIDE DEF first, last, Of
<1>8. Rises(height, Seq(Page), G, <<rootPage>>, step)
  <2>1. <<rootPage>> \in Seq(Page) /\ Spans(<<rootPage>>, Page, Of(1), first(1), last(1))
    <3>1. <<rootPage>> \in Seq(Page) /\ Len(<<rootPage>>) = 1 /\ <<rootPage>>[1] = rootPage
          /\ DOMAIN <<rootPage>> = 1 .. 1
      BY <1>1
    <3>2. ToSet(<<rootPage>>) = {rootPage}
      BY <3>1 DEF ToSet
    <3> QED BY <3>1, <3>2, <1>4, <1>6 DEF Spans
  <2>2. ASSUME NEW l \in 2 .. height, NEW t \in G[l - 1] PROVE step[l][t] \in G[l]
    <3>1. l - 1 \in 1 .. (height - 1) /\ l - 1 \in 1 .. height /\ l \in 1 .. height
      BY <1>1
    <3>2. t \in Seq(Page) /\ Spans(t, Page, Of(l - 1), first(l - 1), last(l - 1))
      BY <3>1
    <3>3. Spans(Below(t), Page, UNION {Addresses(node[p]) : p \in Of(l - 1)},
                Addr(node[first(l - 1)], 1), Addr(node[last(l - 1)], Size(node[last(l - 1)])))
      <4>1. \A p \in Of(l - 1) : d[p] = l - 1
        BY <3>1, <1>7
      <4> QED BY ONLY <3>1, <3>2, <4>1, IsTree(d, rk), BelowIs
    <3>4. Spans(Below(t), Page, Of(l), first(l), last(l))
      BY <3>3, <1>5, <1>6
    <3>5. Below(t) \in Seq(Page)
      BY <3>4 DEF Spans
    <3> QED BY <3>1, <3>2, <3>4, <3>5
  <2>3. \A l \in 1 .. height : G[l] \subseteq Seq(Page)
    OBVIOUS
  <2>4. <<rootPage>> \in G[1]
    <3>1. 1 \in 1 .. height
      BY <1>1
    <3>2. G[1] = {t \in Seq(Page) : Spans(t, Page, Of(1), first(1), last(1))}
      BY <3>1
    <3> HIDE DEF G
    <3> QED BY <2>1, <3>2
  <2> HIDE DEF G, step
  <2> QED BY <2>1, <2>2, <2>3, <2>4, <1>1 DEF Rises
<1>9. PICK f \in [1 .. height -> Seq(Page)] :
         \A l \in 1 .. height : f[l] = (IF l = 1 THEN <<rootPage>> ELSE step[l][f[l - 1]]) /\ f[l] \in G[l]
  <2> HIDE DEF G, step
  <2> QED BY ONLY <1>8, Ascent
<1>10. f = [l \in 1 .. height |-> IF l = 1 THEN <<rootPage>> ELSE Below(f[l - 1])]
  <2>1. ASSUME NEW l \in 1 .. height, l # 1 PROVE step[l][f[l - 1]] = Below(f[l - 1])
    <3>1. l - 1 \in 1 .. height
      BY <1>1, <2>1
    <3> QED BY <3>1
  <2> HIDE DEF step, G
  <2> QED BY <2>1, <1>9
<1> DEFINE level[l \in 1 .. height] == IF l = 1 THEN <<rootPage>> ELSE Below(level[l - 1])
<1>11. level = [l \in 1 .. height |-> IF l = 1 THEN <<rootPage>> ELSE Below(level[l - 1])]
  BY <1>10
<1>12. Leaves = level[height]
  BY DEF Leaves
<1> HIDE DEF level
<1> DEFINE T == {l \in 1 .. height : level[l] \in G[l]}
<1>13. 1 .. height \subseteq T
  <2>1. 1 \in T
    <3>1. level[1] = <<rootPage>>
      BY <1>1, <1>11
    <3> HIDE DEF G, step
    <3>2. <<rootPage>> \in G[1]
      BY <1>1, <1>8 DEF Rises
    <3>3. 1 \in 1 .. height /\ level[1] \in G[1]
      BY <3>1, <3>2, <1>1
    <3> QED BY <3>3
  <2>2. ASSUME NEW l \in 1 .. (height - 1), l \in T PROVE l + 1 \in T
    <3>1. l + 1 \in 2 .. height /\ (l + 1) - 1 = l /\ l + 1 \in 1 .. height /\ l + 1 # 1 /\ l \in 1 .. height
      BY <1>1
    <3>2. level[l + 1] = Below(level[l])
      BY <3>1, <1>11
    <3>3. level[l] \in G[l] /\ level[l] \in Seq(Page)
      BY <3>1, <2>2
    <3>4. step[l + 1][level[l]] = Below(level[l])
      BY <3>1, <3>3
    <3> HIDE DEF G, step
    <3>5. step[l + 1][level[l]] \in G[l + 1]
      BY <3>1, <3>3, <1>8 DEF Rises
    <3> QED BY <3>1, <3>2, <3>4, <3>5
  <2> HIDE DEF T
  <2> QED BY <2>1, <2>2, <1>1, Upward
<1>14. Spans(Leaves, Page, Of(height), first(height), last(height))
  <2>1. height \in 1 .. height
    BY <1>1
  <2> QED BY <2>1, <1>12, <1>13
<1>15. Leaves \in Seq(Page) /\ Len(Leaves) > 0 /\ ToSet(Leaves) = Of(height)
       /\ Leaves[1] = first(height) /\ Leaves[Len(Leaves)] = last(height)
  BY <1>14 DEF Spans
<1>16. Len(Leaves) \in Nat /\ DOMAIN Leaves = 1 .. Len(Leaves)
  BY <1>15, LenProperties
<1>17. Level[height] = {Leaves[j] : j \in 1 .. Len(Leaves)}
  <2>1. ToSet(Leaves) = {Leaves[j] : j \in 1 .. Len(Leaves)}
    BY <1>16 DEF ToSet
  <2>2. height \in 1 .. height
    BY <1>1
  <2>3. Level[height] = Of(height)
    BY <2>2, <1>6
  <2> QED BY <2>1, <2>3, <1>15
<1>18. FindOuterLeaf(c) = Leaves[IF c.desc THEN Len(Leaves) ELSE 1]
  BY <1>1, <1>2, <1>15 DEF OuterPath, first, last
<1>19. height = 1 => Len(Leaves) = 1
  BY <1>1, <1>11, <1>12
<1> QED BY <1>15, <1>16, <1>17, <1>18, <1>19

\* What a scan finds along the chain: the leaves, the first first.
Chained(L, n) ==
  /\ n \in 1 .. MaxPage /\ L \in [1 .. n -> Page] /\ Level[height] = {L[j] : j \in 1 .. n}
  /\ \A j \in 1 .. n :
       /\ node[L[j]] \in Node /\ Sorted(node[L[j]]) /\ (n > 1 => ~IsEmpty(node[L[j]]))
       /\ node[L[j]].left = IF j = 1 THEN NoPage ELSE L[j - 1]
       /\ node[L[j]].right = IF j = n THEN NoPage ELSE L[j + 1]
       /\ \A k \in (j + 1) .. n : \A a \in 1 .. Size(node[L[j]]), b \in 1 .. Size(node[L[k]]) :
            Key(node[L[j]], a) < Key(node[L[k]], b)

LEMMA ChainedIs ==
  ASSUME TreeInv, LeavesInOrder(Leaves)
  PROVE  Chained(Leaves, Len(Leaves))
<1> DEFINE L == Leaves
           n == Len(L)
           K(j, a) == Key(node[L[j]], a)
           sz(j) == Size(node[L[j]])
<1>1. PICK d, rk : IsTree(d, rk)
  BY DEF TreeInv
<1>2. /\ L \in Seq(Page) /\ n \in Nat \ {0} /\ DOMAIN L = 1 .. n
      /\ Level[height] = {L[j] : j \in 1 .. n}
      /\ height = 1 => n = 1
  <2>1. [op |-> "NO", value |-> None, desc |-> FALSE] \in Scans
    BY DEF Scans
  <2> QED BY <2>1, <1>1, LeavesAre
<1>3. L \in [1 .. n -> Page]
  BY <1>2, LenProperties
<1>4. height \in Nat \ {0} /\ MaxPage \in Nat \ {0} /\ SepKey \subseteq Int
  BY <1>1, IndexAssumption DEF IsTree, Shape, SepKey
<1>5. ASSUME NEW j \in 1 .. n
      PROVE  /\ L[j] \in Page /\ L[j] \in Level[height]
             /\ node[L[j]] \in Node /\ Sorted(node[L[j]]) /\ sz(j) \in Nat
             /\ \A a \in 1 .. sz(j) : K(j, a) \in Int
  <2>1. L[j] \in Level[height]
    BY <1>2
  <2>2. L[j] \in Page /\ node[L[j]] \in Node /\ Sorted(node[L[j]])
    BY <2>1, LeavesSorted
  <2>3. sz(j) \in Nat /\ \A a \in 1 .. sz(j) : K(j, a) \in SepKey
    BY <2>2, EntryParts
  <2> QED BY <2>1, <2>2, <2>3, <1>4
<1>6. ASSUME NEW j \in 1 .. n, n > 1 PROVE sz(j) > 0
  <2>1. height # 1
    BY <1>2, <1>6
  <2>2. L[j] \in Page /\ node[L[j]] \in Node
    BY <1>5
  <2>3. ~IsEmpty(node[L[j]])
    BY <2>1, <2>2, <1>1, NoneAssumption DEF IsTree, Filled, Root
  <2> QED BY <2>3, <1>5 DEF IsEmpty
<1>7. ASSUME NEW j \in 2 .. n
      PROVE  /\ node[L[j]].left = L[j - 1] /\ node[L[j - 1]].right = L[j]
             /\ K(j - 1, sz(j - 1)) < K(j, 1)
  BY DEF LeavesInOrder, LargestKey
<1> HIDE DEF L, n, K, sz
<1>8. ASSUME NEW j \in 1 .. n, NEW a \in 1 .. sz(j), NEW b \in 1 .. sz(j), a < b
      PROVE  K(j, a) < K(j, b)
  <2>1. Sorted(node[L[j]])
    BY <1>5
  <2> QED BY <2>1, <1>8 DEF Sorted, K, sz
\* Keys increase from leaf to leaf.
<1> DEFINE T == {j \in 1 .. n : \A i \in 1 .. (j - 1) : \A a \in 1 .. sz(i), b \in 1 .. sz(j) : K(i, a) < K(j, b)}
<1>9. 1 .. n \subseteq T
  <2>1. 1 \in T
    BY <1>2
  <2>2. ASSUME NEW j \in 1 .. (n - 1), j \in T PROVE j + 1 \in T
    <3>1. j \in 1 .. n /\ j + 1 \in 1 .. n /\ j + 1 \in 2 .. n /\ (j + 1) - 1 = j /\ n > 1 /\ n \in Nat
      BY <1>2
    <3>2. sz(j) \in Nat /\ sz(j) > 0 /\ sz(j + 1) \in Nat /\ sz(j + 1) > 0
      BY <3>1, <1>5, <1>6
    <3>3. K(j, sz(j)) < K(j + 1, 1)
      BY <3>1, <1>7
    <3>4. ASSUME NEW a \in 1 .. sz(j), NEW b \in 1 .. sz(j + 1) PROVE K(j, a) < K(j + 1, b)
      <4>1. /\ K(j, a) \in Int /\ K(j, sz(j)) \in Int /\ K(j + 1, 1) \in Int /\ K(j + 1, b) \in Int
        BY <3>1, <3>2, <1>5
      <4>2. a = sz(j) \/ K(j, a) < K(j, sz(j))
        BY <3>1, <3>2, <1>8
      <4>3. b = 1 \/ K(j + 1, 1) < K(j + 1, b)
        BY <3>1, <3>2, <1>8
      <4> QED BY <4>1, <4>2, <4>3, <3>3
    <3>5. ASSUME NEW i \in 1 .. j, NEW a \in 1 .. sz(i), NEW b \in 1 .. sz(j + 1) PROVE K(i, a) < K(j + 1, b)
      <4>1. CASE i = j
        BY <4>1, <3>4
      <4>2. CASE i # j
        <5>1. i \in 1 .. (j - 1) /\ i \in 1 .. n /\ 1 \in 1 .. sz(j)
          BY <4>2, <3>1, <3>2
        <5>2. K(i, a) < K(j, 1)
          BY <5>1, <2>2
        <5>3. K(j, 1) < K(j + 1, b)
          BY <5>1, <3>4
        <5>4. K(i, a) \in Int /\ K(j, 1) \in Int /\ K(j + 1, b) \in Int
          BY <5>1, <3>1, <1>5
        <5> QED BY <5>2, <5>3, <5>4
      <4> QED BY <4>1, <4>2
    <3> QED BY <3>1, <3>5
  <2> HIDE DEF T
  <2> QED BY <2>1, <2>2, <1>2, Upward
<1>10. ASSUME NEW j \in 1 .. n, NEW k \in (j + 1) .. n, NEW a \in 1 .. sz(j), NEW b \in 1 .. sz(k)
       PROVE  K(j, a) < K(k, b)
  <2>1. k \in 1 .. n /\ j \in 1 .. (k - 1)
    BY <1>2
  <2>2. k \in T
    BY <2>1, <1>9
  <2> QED BY <2>1, <2>2
\* No leaf is twice in the chain.
<1>11. ASSUME NEW j \in 1 .. n, NEW k \in (j + 1) .. n PROVE L[j] # L[k]
  <2>1. k \in 1 .. n /\ n > 1
    BY <1>2
  <2>2. 1 \in 1 .. sz(j) /\ 1 \in 1 .. sz(k)
    BY <2>1, <1>5, <1>6
  <2>3. K(j, 1) < K(k, 1) /\ K(j, 1) \in Int
    BY <2>2, <1>5, <1>10
  <2> QED BY <2>3 DEF K
<1>12. ASSUME NEW j \in 1 .. n, NEW k \in 1 .. n, L[j] = L[k] PROVE j = k
  <2>1. j \in (k + 1) .. n \/ k \in (j + 1) .. n \/ j = k
    BY <1>2
  <2> QED BY <2>1, <1>11, <1>12
<1>13. n \in 1 .. MaxPage
  <2>1. L \in Injection(1 .. n, Page)
    BY <1>3, <1>12 DEF Injection, IsInjective
  <2>2. IsFiniteSet(Page) /\ Cardinality(Page) = MaxPage /\ Cardinality(1 .. n) = n
    <3>1. 1 \in Int /\ MaxPage \in Int /\ n \in Int /\ ~(1 > MaxPage) /\ ~(1 > n) /\ MaxPage - 1 + 1 = MaxPage /\ n - 1 + 1 = n
      BY <1>2, <1>4
    <3> QED BY <3>1, FS_Interval DEF Page
  <2>3. n <= MaxPage
    BY <2>1, <2>2, FS_Injection
  <2> QED BY <2>3, <1>2, <1>4
\* The first and the last of the chain.
<1>14. Linked(Level[height])
  <2>1. height \in 1 .. height
    BY <1>4
  <2> QED BY <2>1, <1>1, LevelLinked
<1>15. NoPage \notin Page
  BY PageIsNumber
<1>16. node[L[1]].left = NoPage
  <2> DEFINE heads == {p \in Level[height] : node[p].left = NoPage}
  <2>1. heads # {}
    <3>1. Cardinality(heads) = 1
      BY <1>14 DEF Linked
    <3> HIDE DEF heads
    <3> QED BY <3>1, FS_EmptySet
  <2>2. PICK j \in 1 .. n : node[L[j]].left = NoPage
    BY <2>1, <1>2
  <2>3. j = 1
    <3>1. CASE j # 1
      <4>1. j \in 2 .. n /\ j - 1 \in 1 .. n
        BY <3>1, <1>2
      <4> QED BY <4>1, <2>2, <1>5, <1>7, <1>15
    <3> QED BY <3>1
  <2> QED BY <2>2, <2>3
<1>17. node[L[n]].right = NoPage
  <2>1. SUFFICES ASSUME node[L[n]].right # NoPage PROVE FALSE
    OBVIOUS
  <2>2. n \in 1 .. n /\ L[n] \in Page /\ L[n] \in Level[height]
    BY <1>2, <1>5
  <2>3. node[L[n]].right \in Level[height] /\ node[node[L[n]].right].left = L[n]
    BY <2>1, <2>2, <1>14 DEF Linked
  <2>4. PICK j \in 1 .. n : node[L[n]].right = L[j]
    BY <2>3, <1>2
  <2>5. CASE j = 1
    BY <2>2, <2>3, <2>4, <2>5, <1>15, <1>16
  <2>6. CASE j # 1
    <3>1. j \in 2 .. n /\ j - 1 \in 1 .. n /\ j - 1 # n
      BY <2>6, <1>2
    <3>2. L[j - 1] = L[n]
      BY <3>1, <2>3, <2>4, <1>7
    <3> QED BY <3>1, <3>2, <2>2, <1>12
  <2> QED BY <2>5, <2>6
<1>18. ASSUME NEW j \in 1 .. n
       PROVE  /\ node[L[j]].left = IF j = 1 THEN NoPage ELSE L[j - 1]
              /\ node[L[j]].right = IF j = n THEN NoPage ELSE L[j + 1]
  <2>1. j # 1 => node[L[j]].left = L[j - 1]
    <3>1. j # 1 => j \in 2 .. n
      BY <1>2
    <3> QED BY <3>1, <1>7
  <2>2. j # n => node[L[j]].right = L[j + 1]
    <3>1. j # n => j + 1 \in 2 .. n /\ (j + 1) - 1 = j
      BY <1>2
    <3> QED BY <3>1, <1>7
  <2> QED BY <2>1, <2>2, <1>16, <1>17
<1>19. Chained(L, n)
  <2>1. ASSUME NEW j \in 1 .. n, NEW k \in (j + 1) .. n,
               NEW a \in 1 .. Size(node[L[j]]), NEW b \in 1 .. Size(node[L[k]])
        PROVE  Key(node[L[j]], a) < Key(node[L[k]], b)
    BY <1>10 DEF K, sz
  <2>2. ASSUME NEW j \in 1 .. n, n > 1 PROVE ~IsEmpty(node[L[j]])
    <3>1. sz(j) > 0 /\ sz(j) \in Nat
      BY <2>2, <1>5, <1>6
    <3> QED BY <3>1 DEF IsEmpty, sz
  <2> QED BY <2>1, <2>2, <1>2, <1>3, <1>5, <1>13, <1>18 DEF Chained
<1> QED BY <1>19 DEF n, L

\* The pages of the leaves in the order a scan comes to them; a scan meets x
\* before y.
Before(c, x, y) == IF c.desc THEN x > y ELSE x < y

Along(c, W, n) ==
  /\ n \in 1 .. MaxPage /\ W \in [1 .. n -> Page] /\ Level[height] = {W[j] : j \in 1 .. n}
  /\ FindOuterLeaf(c) = W[1]
  /\ \A j \in 1 .. n :
       /\ node[W[j]] \in Node /\ Sorted(node[W[j]]) /\ (n > 1 => ~IsEmpty(node[W[j]]))
       /\ (IF c.desc THEN node[W[j]].left ELSE node[W[j]].right) = IF j = n THEN NoPage ELSE W[j + 1]
       /\ \A k \in (j + 1) .. n : \A a \in 1 .. Size(node[W[j]]), b \in 1 .. Size(node[W[k]]) :
            Before(c, Key(node[W[j]], a), Key(node[W[k]], b))

Way(c) == [j \in 1 .. Len(Leaves) |-> Leaves[IF c.desc THEN Len(Leaves) + 1 - j ELSE j]]

LEMMA WayIs ==
  ASSUME TreeInv, LeavesInOrder(Leaves), NEW c \in Scans
  PROVE  Along(c, Way(c), Len(Leaves))
<1> DEFINE L == Leaves
           n == Len(L)
           at(j) == IF c.desc THEN n + 1 - j ELSE j
           W == [j \in 1 .. n |-> L[at(j)]]
<1>1. Chained(L, n)
  BY ChainedIs
<1>2. FindOuterLeaf(c) = L[IF c.desc THEN n ELSE 1]
  <2>1. PICK d, rk : IsTree(d, rk)
    BY DEF TreeInv
  <2> QED BY <2>1, LeavesAre
<1>3. c.desc \in BOOLEAN
  BY DEF Scans
<1> HIDE DEF L
<1>4. n \in Nat \ {0} /\ n \in 1 .. MaxPage /\ L \in [1 .. n -> Page]
  <2> HIDE DEF n
  <2>1. n \in 1 .. MaxPage /\ L \in [1 .. n -> Page]
    BY <1>1 DEF Chained
  <2>2. MaxPage \in Nat
    BY IndexAssumption
  <2> QED BY <2>1, <2>2
<1> HIDE DEF n
<1>5. ASSUME NEW j \in 1 .. n PROVE at(j) \in 1 .. n /\ at(at(j)) = j /\ W[j] = L[at(j)]
  BY <1>3, <1>4
<1>6. W \in [1 .. n -> Page]
  BY <1>4, <1>5
<1>7. Level[height] = {W[j] : j \in 1 .. n}
  <2>1. \A j \in 1 .. n : L[j] = W[at(j)]
    BY <1>5
  <2> HIDE DEF W, at
  <2>2. {W[j] : j \in 1 .. n} = {L[j] : j \in 1 .. n}
    BY <2>1, <1>5
  <2> QED BY <2>2, <1>1 DEF Chained
<1>8. FindOuterLeaf(c) = W[1]
  <2>1. 1 \in 1 .. n /\ at(1) = IF c.desc THEN n ELSE 1
    BY <1>3, <1>4
  <2> QED BY <2>1, <1>2, <1>5
<1>9. ASSUME NEW j \in 1 .. n
      PROVE  /\ node[W[j]] \in Node /\ Sorted(node[W[j]]) /\ (n > 1 => ~IsEmpty(node[W[j]]))
             /\ (IF c.desc THEN node[W[j]].left ELSE node[W[j]].right) = IF j = n THEN NoPage ELSE W[j + 1]
  <2> DEFINE i == at(j)
  <2>1. i \in 1 .. n /\ W[j] = L[i]
    BY <1>5
  <2>2. j # n => W[j + 1] = L[at(j + 1)]
    <3>1. j # n => j + 1 \in 1 .. n
      BY <1>4
    <3> QED BY <3>1, <1>5
  <2>3. /\ c.desc => ((i = 1) <=> (j = n)) /\ i - 1 = at(j + 1)
        /\ ~c.desc => ((i = n) <=> (j = n)) /\ i + 1 = at(j + 1)
    BY <1>4
  <2> HIDE DEF i, W, at
  <2>4. /\ node[L[i]] \in Node /\ Sorted(node[L[i]]) /\ (n > 1 => ~IsEmpty(node[L[i]]))
        /\ node[L[i]].left = IF i = 1 THEN NoPage ELSE L[i - 1]
        /\ node[L[i]].right = IF i = n THEN NoPage ELSE L[i + 1]
    BY <2>1, <1>1 DEF Chained
  <2>5. CASE c.desc
    BY <2>1, <2>2, <2>3, <2>4, <2>5
  <2>6. CASE ~c.desc
    BY <2>1, <2>2, <2>3, <2>4, <2>6
  <2> QED BY <2>5, <2>6
<1>10. ASSUME NEW j \in 1 .. n, NEW k \in (j + 1) .. n,
              NEW a \in 1 .. Size(node[W[j]]), NEW b \in 1 .. Size(node[W[k]])
       PROVE  Before(c, Key(node[W[j]], a), Key(node[W[k]], b))
  <2>1. k \in 1 .. n /\ j < k
    BY <1>4
  <2>2. W[j] = L[at(j)] /\ W[k] = L[at(k)] /\ at(j) \in 1 .. n /\ at(k) \in 1 .. n
    BY <2>1, <1>5
  <2> HIDE DEF W
  <2>3. CASE c.desc
    <3>1. at(j) \in (at(k) + 1) .. n
      BY <2>1, <2>2, <2>3, <1>4
    <3> HIDE DEF at
    <3>2. Key(node[W[k]], b) < Key(node[W[j]], a)
      BY <3>1, <2>2, <1>1 DEF Chained
    <3>3. Key(node[W[k]], b) \in Int /\ Key(node[W[j]], a) \in Int
      <4>1. node[W[k]] \in Node /\ node[W[j]] \in Node
        BY <2>1, <1>9
      <4> QED BY <4>1, EntryParts, IndexAssumption DEF SepKey
    <3> QED BY <3>2, <3>3, <2>3 DEF Before
  <2>4. CASE ~c.desc
    BY <2>1, <2>2, <2>4, <1>1 DEF Chained, Before
  <2> QED BY <2>3, <2>4
<1>11. Along(c, W, n)
  <2> HIDE DEF W
  <2> QED BY <1>4, <1>6, <1>7, <1>8, <1>9, <1>10 DEF Along
<1> QED BY <1>11 DEF Way, n, L

\* The entries up to a stop, and those of the index.
Upto(W, j) == UNION {ToSet(node[W[i]].entries) : i \in 1 .. j}

LEMMA UptoIs ==
  ASSUME NEW c \in Scans, NEW W, NEW n, Along(c, W, n)
  PROVE  /\ n \in Nat \ {0} /\ n <= MaxPage /\ Stored = Upto(W, n) /\ Upto(W, 0) = {}
         /\ \A e \in Stored : e[1] \in Int
         /\ \A j \in 1 .. n : /\ Upto(W, j) \subseteq Stored
                              /\ Upto(W, j) = Upto(W, j - 1) \cup ToSet(node[W[j]].entries)
                              /\ \A x \in Upto(W, j), y \in Stored \ Upto(W, j) : Before(c, x[1], y[1])
                              /\ \A x \in Upto(W, j - 1), y \in ToSet(node[W[j]].entries) : Before(c, x[1], y[1])
<1> DEFINE E(j) == ToSet(node[W[j]].entries)
<1>1. n \in Nat \ {0} /\ n <= MaxPage
  BY IndexAssumption DEF Along
<1>2. Level[height] = {W[j] : j \in 1 .. n}
  BY DEF Along
<1>3. Stored = Upto(W, n) /\ Upto(W, 0) = {}
  BY <1>1, <1>2 DEF Stored, Upto
<1>4. ASSUME NEW j \in 1 .. n, NEW e \in E(j)
      PROVE  e[1] \in Int /\ \E a \in 1 .. Size(node[W[j]]) : e[1] = Key(node[W[j]], a)
  <2>1. node[W[j]] \in Node
    BY DEF Along
  <2> DEFINE m == node[W[j]]
  <2>2. m \in Node /\ e \in ToSet(m.entries)
    BY <2>1
  <2> HIDE DEF m
  <2>3. PICK a \in 1 .. Size(m) : e = m.entries[a]
    BY <2>2, EntryParts
  <2>4. e[1] = Key(m, a) /\ Key(m, a) \in SepKey
    BY <2>2, <2>3, EntryParts DEF Key
  <2> QED BY <2>4, IndexAssumption DEF SepKey, m
<1>5. ASSUME NEW j \in 1 .. n, NEW k \in 1 .. n, j < k, NEW x \in E(j), NEW y \in E(k)
      PROVE  Before(c, x[1], y[1]) /\ x[1] \in Int /\ y[1] \in Int
  <2>1. PICK a \in 1 .. Size(node[W[j]]) : x[1] = Key(node[W[j]], a)
    BY <1>4
  <2>2. PICK b \in 1 .. Size(node[W[k]]) : y[1] = Key(node[W[k]], b)
    BY <1>4
  <2>3. k \in (j + 1) .. n
    BY <1>1, <1>5
  <2>4. Before(c, Key(node[W[j]], a), Key(node[W[k]], b))
    BY <2>3 DEF Along
  <2> QED BY <2>1, <2>2, <2>4, <1>4
<1>6. \A e \in Stored : e[1] \in Int
  BY <1>3, <1>4 DEF Upto
<1>7. ASSUME NEW j \in 1 .. n
      PROVE  /\ Upto(W, j) \subseteq Stored
             /\ Upto(W, j) = Upto(W, j - 1) \cup E(j)
             /\ \A x \in Upto(W, j), y \in Stored \ Upto(W, j) : Before(c, x[1], y[1])
             /\ \A x \in Upto(W, j - 1), y \in E(j) : Before(c, x[1], y[1])
  <2>1. 1 .. j \subseteq 1 .. n /\ 1 .. j = 1 .. (j - 1) \cup {j} /\ 1 .. (j - 1) \subseteq 1 .. n
    BY <1>1
  <2>2. \A I : UNION {E(i) : i \in I \cup {j}} = (UNION {E(i) : i \in I}) \cup E(j)
    OBVIOUS
  <2>3. Upto(W, j) = Upto(W, j - 1) \cup E(j)
    BY <2>1, <2>2 DEF Upto
  <2>4. Upto(W, j) \subseteq Stored
    BY <2>1, <1>3 DEF Upto
  <2>5. ASSUME NEW x \in Upto(W, j), NEW y \in Stored \ Upto(W, j) PROVE Before(c, x[1], y[1])
    <3>1. PICK i \in 1 .. j : x \in E(i)
      BY DEF Upto
    <3>2. PICK k \in 1 .. n : y \in E(k)
      BY <1>3 DEF Upto
    <3>3. k \notin 1 .. j
      BY <3>2 DEF Upto
    <3>4. i \in 1 .. n /\ i < k
      BY <3>3, <1>1
    <3> QED BY <3>1, <3>2, <3>4, <1>5
  <2>6. ASSUME NEW x \in Upto(W, j - 1), NEW y \in E(j) PROVE Before(c, x[1], y[1])
    <3>1. PICK i \in 1 .. (j - 1) : x \in E(i)
      BY DEF Upto
    <3>2. i \in 1 .. n /\ i < j
      BY <1>1
    <3> QED BY <3>1, <3>2, <1>5
  <2> QED BY <2>3, <2>4, <2>5, <2>6
<1> QED BY <1>1, <1>3, <1>6, <1>7

\* The positions of a node that a scan may begin at.
Entered(c, p) == IF c.desc THEN 0 .. Size(node[p]) ELSE 1 .. (Size(node[p]) + 1)

LEMMA EntriesAre ==
  ASSUME NEW c \in Scans, NEW at, NEW n, n = node[at.page], n \in Node, Sorted(n), at.from \in Entered(c, at.page),
         NEW es, es = Entries(c, at)
  PROVE  /\ Len(es) \in Nat /\ DOMAIN es = 1 .. Len(es)
         /\ \A e \in ToSet(n.entries) : e[1] \in Int
         /\ ToSet(es) = {es[i] : i \in 1 .. Len(es)}
         /\ ToSet(es) = {n.entries[i] : i \in IF c.desc THEN 1 .. at.from ELSE at.from .. Size(n)}
         /\ ToSet(es) \subseteq ToSet(n.entries)
         /\ \A i, k \in 1 .. Len(es) : i < k => Before(c, es[i][1], es[k][1])
         /\ \A x \in ToSet(n.entries) \ ToSet(es) : \A k \in 1 .. Len(es) : Before(c, x[1], es[k][1])
<1> DEFINE from   == at.from
           N      == IF c.desc THEN from ELSE Size(n) + 1 - from
           pos(i) == IF c.desc THEN from + 1 - i ELSE from + i - 1
           P      == IF c.desc THEN 1 .. from ELSE from .. Size(n)
<1>1. Size(n) \in Nat /\ c.desc \in BOOLEAN /\ DOMAIN n.entries = 1 .. Size(n)
      /\ ToSet(n.entries) = {n.entries[i] : i \in 1 .. Size(n)}
      /\ \A i \in 1 .. Size(n) : n.entries[i][1] = Key(n, i) /\ Key(n, i) \in Int
  <2>1. SepKey \subseteq Int
    BY IndexAssumption DEF SepKey
  <2> QED BY <2>1, EntryParts DEF Scans, Key
<1>2. from \in Int /\ N \in Nat /\ P \subseteq 1 .. Size(n)
  BY <1>1 DEF Entered
<1>3. es = [i \in 1 .. N |-> n.entries[pos(i)]]
  BY DEF Entries
<1> HIDE DEF from
<1>4. ASSUME NEW i \in 1 .. N PROVE pos(i) \in P /\ es[i] = n.entries[pos(i)]
  <2>1. pos(i) \in P
    BY <1>1, <1>2
  <2> QED BY <2>1, <1>3
<1>5. \A q \in P : \E i \in 1 .. N : q = pos(i)
  <2> SUFFICES ASSUME NEW q \in P PROVE \E i \in 1 .. N : q = pos(i)
    OBVIOUS
  <2>1. CASE c.desc
    <3>1. from + 1 - q \in 1 .. N /\ q = pos(from + 1 - q)
      BY <2>1, <1>1, <1>2
    <3> QED BY <3>1
  <2>2. CASE ~c.desc
    <3>1. q - from + 1 \in 1 .. N /\ q = pos(q - from + 1)
      BY <2>2, <1>1, <1>2
    <3> QED BY <3>1
  <2> QED BY <2>1, <2>2
<1>6. DOMAIN es = 1 .. N /\ Len(es) = N
  BY <1>2, <1>3
<1> DEFINE before(a, b) == IF c.desc THEN a > b ELSE a < b
<1>7. ASSUME NEW a \in 1 .. Size(n), NEW b \in 1 .. Size(n), before(a, b)
      PROVE  Before(c, n.entries[a][1], n.entries[b][1])
  BY <1>1, <1>7 DEF Before, Sorted
<1>8. ASSUME NEW i \in 1 .. N, NEW k \in 1 .. N, i < k PROVE before(pos(i), pos(k))
  BY <1>2, <1>8
<1>9. ASSUME NEW a \in 1 .. Size(n), a \notin P, NEW b \in P PROVE before(a, b)
  BY <1>1, <1>2, <1>9
<1> HIDE DEF N, P, before, pos
<1>10. ToSet(es) = {es[i] : i \in 1 .. N}
  BY <1>6 DEF ToSet
<1>11. ToSet(es) = {n.entries[i] : i \in P}
  BY <1>4, <1>5, <1>10
<1>12. \A i, k \in 1 .. N : i < k => Before(c, es[i][1], es[k][1])
  BY <1>2, <1>4, <1>7, <1>8
<1>13. ASSUME NEW x \in ToSet(n.entries) \ ToSet(es), NEW k \in 1 .. N PROVE Before(c, x[1], es[k][1])
  <2>1. PICK a \in 1 .. Size(n) : x = n.entries[a]
    BY <1>1
  <2>2. a \notin P
    BY <2>1, <1>11
  <2>3. pos(k) \in P /\ es[k] = n.entries[pos(k)] /\ pos(k) \in 1 .. Size(n)
    BY <1>2, <1>4
  <2> QED BY <2>1, <2>2, <2>3, <1>7, <1>9
<1>14. ToSet(es) \subseteq ToSet(n.entries) /\ \A e \in ToSet(n.entries) : e[1] \in Int
  BY <1>1, <1>2, <1>11
<1> QED BY <1>2, <1>6, <1>10, <1>11, <1>12, <1>13, <1>14 DEF P, from

\* What a scan has to return that passes over S, and what it has when it has
\* looked at P, but for S.
Match(c, S) == {e \in Stored \ S : CheckFunction(c.op, e[1], c.value)}

ScanStates == [at : [page : Page, from : Int], found : Seq(Stored), eof : BOOLEAN]

Good(c, S, s, P) ==
  /\ s \in ScanStates /\ InOrder(c, s.found)
  /\ ~s.eof => S \subseteq P
  /\ ToSet(s.found) = IF s.eof THEN Match(c, S) ELSE Match(c, S) \cap P

LEMMA ScanIs ==
  ASSUME NEW c \in Scans
  PROVE  /\ c.desc \in BOOLEAN
         /\ \/ c.op = "NO" /\ c.value = None
            \/ c.op \in {"EQ", "NE", "LT", "GE", "GT", "LE"} /\ c.value \in Keys /\ c.value \in Int /\ c.value # None
<1>1. Values \subseteq Keys /\ Keys \subseteq Int /\ None \notin Int
  BY ScanAssumption, IndexAssumption
<1> QED BY <1>1 DEF Scans

\* Behind an entry that ends a scan nothing matches.
LEMMA NothingBehind ==
  ASSUME NEW c \in Scans, NEW x \in Int, NEW y \in Int, NEW z \in Int,
         Before(c, x, y), CheckFunction(c.op, x, c.value), EarlyExit(c, y), Before(c, y, z)
  PROVE  ~CheckFunction(c.op, z, c.value)
<1>1. c.desc \in BOOLEAN /\ c.op \in {"EQ", "LT", "GE", "GT", "LE"} /\ c.value \in Int
  BY ScanIs DEF EarlyExit
<1>2. CASE c.op = "EQ"
  BY <1>1, <1>2 DEF Before, CheckFunction, EarlyExit
<1>3. CASE c.op = "LT"
  BY <1>1, <1>3 DEF Before, CheckFunction, EarlyExit
<1>4. CASE c.op = "LE"
  BY <1>1, <1>4 DEF Before, CheckFunction, EarlyExit
<1>5. CASE c.op = "GT"
  BY <1>1, <1>5 DEF Before, CheckFunction, EarlyExit
<1>6. CASE c.op = "GE"
  BY <1>1, <1>6 DEF Before, CheckFunction, EarlyExit
<1> QED BY <1>1, <1>2, <1>3, <1>4, <1>5, <1>6

LEMMA LookedKeeps ==
  ASSUME NEW c \in Scans, \A e \in Stored : e[1] \in Int, NEW S, NEW s, NEW P \in SUBSET Stored, Good(c, S, s, P),
         NEW e \in Stored, \A x \in P : Before(c, x[1], e[1]),
         \A y \in Stored \ (P \cup {e}) : Before(c, e[1], y[1])
  PROVE  Good(c, S, Looked(c, s, e), P \cup {e}) /\ Looked(c, s, e).at = s.at
<1> DEFINE t == Looked(c, s, e)
           F == s.found
<1>1. /\ s \in ScanStates /\ F \in Seq(Stored) /\ Len(F) \in Nat /\ DOMAIN F = 1 .. Len(F)
      /\ InOrder(c, F) /\ ToSet(F) = IF s.eof THEN Match(c, S) ELSE Match(c, S) \cap P
      /\ ~s.eof => S \subseteq P /\ e \notin S
      /\ ToSet(F) = {F[i] : i \in 1 .. Len(F)}
  <2>1. F \in Seq(Stored) /\ s \in ScanStates
    BY DEF Good, ScanStates
  <2>2. Len(F) \in Nat /\ DOMAIN F = 1 .. Len(F)
    BY <2>1, LenProperties
  <2>3. ToSet(F) = {F[i] : i \in 1 .. Len(F)}
    BY <2>2 DEF ToSet
  <2>4. e \notin P
    <3>1. ~Before(c, e[1], e[1])
      BY DEF Before
    <3> QED BY <3>1
  <2> QED BY <2>1, <2>2, <2>3, <2>4 DEF Good
<1>2. CASE s.eof
  BY <1>1, <1>2 DEF Looked, Good
<1>3. CASE ~s.eof /\ CheckFunction(c.op, e[1], c.value)
  <2> DEFINE G == Append(F, e)
  <2>1. t = [s EXCEPT !.found = G]
    BY <1>3 DEF Looked
  <2>2. /\ G \in Seq(Stored) /\ Len(G) = Len(F) + 1 /\ DOMAIN G = 1 .. (Len(F) + 1)
        /\ G[Len(F) + 1] = e /\ \A i \in 1 .. Len(F) : G[i] = F[i]
    BY <1>1, AppendProperties
  <2> HIDE DEF G, F
  <2>3. ToSet(G) = {G[i] : i \in 1 .. (Len(F) + 1)}
    BY <2>2 DEF ToSet
  <2>4. \A i \in 1 .. (Len(F) + 1) : i \in 1 .. Len(F) \/ i = Len(F) + 1
    BY <1>1
  <2>5. ToSet(G) = ToSet(F) \cup {e}
    <3>1. 1 .. (Len(F) + 1) = 1 .. Len(F) \cup {Len(F) + 1}
      BY <1>1
    <3> QED BY <3>1, <2>2, <2>3, <1>1
  <2>6. ToSet(G) = Match(c, S) \cap (P \cup {e})
    BY <2>5, <1>1, <1>3 DEF Match
  <2>7. InOrder(c, G)
    <3>1. ASSUME NEW i \in 1 .. (Len(F) + 1), NEW j \in 1 .. (Len(F) + 1), i < j
          PROVE  Before(c, G[i][1], G[j][1])
      <4>1. i \in 1 .. Len(F)
        BY <3>1, <1>1
      <4>2. CASE j = Len(F) + 1
        <5>1. F[i] \in P
          BY <4>1, <1>1, <1>3
        <5> QED BY <5>1, <4>1, <4>2, <2>2
      <4>3. CASE j # Len(F) + 1
        <5>1. j \in 1 .. Len(F)
          BY <4>3, <2>4
        <5> QED BY <4>1, <5>1, <3>1, <2>2, <1>1 DEF InOrder, Before
      <4> QED BY <4>2, <4>3
    <3> QED BY <3>1, <2>2 DEF InOrder, Before
  <2>8. t \in ScanStates /\ t.found = G /\ t.eof = s.eof /\ t.at = s.at
    BY <2>1, <2>2, <1>1 DEF ScanStates
  <2> QED BY <2>6, <2>7, <2>8, <1>3 DEF Good
<1>4. CASE ~s.eof /\ ~CheckFunction(c.op, e[1], c.value)
  <2> DEFINE stop == F # << >> /\ EarlyExit(c, e[1])
  <2>1. t = [s EXCEPT !.eof = stop]
    BY <1>4 DEF Looked
  <2>2. stop \in BOOLEAN
    BY DEF EarlyExit
  <2>3. t \in ScanStates /\ t.found = F /\ t.eof = stop /\ t.at = s.at
    BY <2>1, <2>2, <1>1 DEF ScanStates
  <2>4. Match(c, S) \cap (P \cup {e}) = Match(c, S) \cap P
    BY <1>4 DEF Match
  <2>5. ASSUME stop PROVE Match(c, S) \subseteq P
    <3>1. SUFFICES ASSUME NEW z \in Match(c, S), z \notin P PROVE FALSE
      OBVIOUS
    <3>2. z \in Stored /\ z # e /\ CheckFunction(c.op, z[1], c.value)
      BY <1>4 DEF Match
    <3>3. Len(F) # 0
      <4> HIDE DEF F
      <4> QED BY <2>5, <1>1, EmptySeq
    <3>4. F[1] \in Match(c, S) \cap P
      <4> HIDE DEF F
      <4> QED BY <3>3, <1>1, <1>4
    <3> DEFINE x == F[1]
    <3>5. x \in P /\ x \in Stored /\ CheckFunction(c.op, x[1], c.value)
      BY <3>4 DEF Match
    <3> HIDE DEF x
    <3>6. /\ x[1] \in Int /\ e[1] \in Int /\ z[1] \in Int
          /\ Before(c, x[1], e[1]) /\ Before(c, e[1], z[1]) /\ EarlyExit(c, e[1])
      BY <3>1, <3>2, <3>5, <2>5
    <3> QED BY <3>2, <3>5, <3>6, NothingBehind
  <2> HIDE DEF stop, F
  <2>6. CASE stop
    BY <2>3, <2>5, <2>6, <1>1, <1>4 DEF Good
  <2>7. CASE ~stop
    BY <2>3, <2>4, <2>7, <1>1, <1>4 DEF Good
  <2> QED BY <2>3, <2>6, <2>7
<1> QED BY <1>2, <1>3, <1>4

\* The entries es of a node, one after the other: those of P come before them,
\* all others behind them.
Between(c, P, es) ==
  /\ P \subseteq Stored /\ Len(es) \in Nat /\ ToSet(es) = {es[i] : i \in 1 .. Len(es)} /\ ToSet(es) \subseteq Stored
  /\ \A i, k \in 1 .. Len(es) : i < k => Before(c, es[i][1], es[k][1])
  /\ \A x \in P, k \in 1 .. Len(es) : Before(c, x[1], es[k][1])
  /\ \A k \in 1 .. Len(es) : \A y \in Stored \ (P \cup ToSet(es)) : Before(c, es[k][1], y[1])

IsSeen(seen, c, s, es) == seen = [i \in 0 .. Len(es) |-> IF i = 0 THEN s ELSE Looked(c, seen[i - 1], es[i])]

LEMMA SeenKeeps ==
  ASSUME NEW c \in Scans, \A e \in Stored : e[1] \in Int, NEW S, NEW s, NEW P, Good(c, S, s, P),
         NEW es, Between(c, P, es)
  PROVE  /\ \E seen : IsSeen(seen, c, s, es)
         /\ \A seen : IsSeen(seen, c, s, es) => /\ Good(c, S, seen[Len(es)], P \cup ToSet(es))
                                                /\ seen[Len(es)].at = s.at
<1> DEFINE N     == Len(es)
           Of(i) == P \cup {es[k] : k \in 1 .. i}
           G     == [i \in 0 .. N |-> {t \in ScanStates : Good(c, S, t, Of(i)) /\ t.at = s.at}]
           step  == [i \in 1 .. N |-> [t \in ScanStates |-> Looked(c, t, es[i])]]
<1>1. /\ N \in Nat /\ P \subseteq Stored /\ s \in ScanStates /\ ToSet(es) = {es[i] : i \in 1 .. N}
      /\ \A i \in 1 .. N : es[i] \in Stored
  BY DEF Between, Good
<1>2. Of(0) = P /\ Of(N) = P \cup ToSet(es)
  BY <1>1
<1>3. ASSUME NEW i \in 1 .. N, NEW t \in ScanStates, Good(c, S, t, Of(i - 1)), t.at = s.at
      PROVE  LET u == Looked(c, t, es[i]) IN u \in ScanStates /\ Good(c, S, u, Of(i)) /\ u.at = s.at
  <2> DEFINE Q == Of(i - 1)
             e == es[i]
  <2>1. 1 .. i = 1 .. (i - 1) \cup {i} /\ \A k \in 1 .. (i - 1) : k \in 1 .. N /\ k < i
    BY <1>1
  <2>2. Of(i) = Q \cup {e}
    BY <2>1
  <2>3. Q \in SUBSET Stored /\ e \in Stored
    BY <2>1, <1>1
  <2>4. \A x \in Q : Before(c, x[1], e[1])
    BY <2>1 DEF Between
  <2>5. ASSUME NEW y \in Stored \ (Q \cup {e}) PROVE Before(c, e[1], y[1])
    <3>1. CASE y \in ToSet(es)
      <4>1. PICK k \in 1 .. N : y = es[k]
        BY <3>1, <1>1
      <4>2. k \notin 1 .. i
        BY <4>1, <2>1
      <4>3. i < k
        BY <4>2, <1>1
      <4> QED BY <4>1, <4>3 DEF Between
    <3>2. CASE y \notin ToSet(es)
      <4>1. y \notin P
        OBVIOUS
      <4> QED BY <3>2, <4>1 DEF Between
    <3> QED BY <3>1, <3>2
  <2>6. Good(c, S, t, Q)
    BY <1>3
  <2> HIDE DEF Q, e
  <2>7. Good(c, S, Looked(c, t, e), Q \cup {e}) /\ Looked(c, t, e).at = t.at
    BY <2>3, <2>4, <2>5, <2>6, LookedKeeps, SMTT(60)
  <2> HIDE DEF Of
  <2>8. Good(c, S, Looked(c, t, e), Of(i)) /\ Looked(c, t, e).at = s.at
    BY <2>2, <2>7, <1>3
  <2> QED BY <2>8 DEF Good, e
<1> HIDE DEF N, Of
<1>4. Stays(N, ScanStates, G, s, step)
  <2>1. s \in G[0]
    BY <1>1, <1>2
  <2>2. ASSUME NEW i \in 1 .. N, NEW t \in G[i - 1] PROVE step[i][t] \in G[i]
    <3>1. i - 1 \in 0 .. N /\ i \in 0 .. N
      BY <1>1
    <3>2. t \in ScanStates /\ Good(c, S, t, Of(i - 1)) /\ t.at = s.at
      BY <3>1, <2>2
    <3> QED BY <3>1, <3>2, <1>3
  <2>3. \A i \in 0 .. N : G[i] \subseteq ScanStates
    OBVIOUS
  <2> HIDE DEF G, step
  <2> QED BY <2>1, <2>2, <2>3, <1>1 DEF Stays
<1>5. PICK f \in [0 .. N -> ScanStates] :
         \A i \in 0 .. N : f[i] = (IF i = 0 THEN s ELSE step[i][f[i - 1]]) /\ f[i] \in G[i]
  <2> HIDE DEF G, step
  <2> QED BY ONLY <1>4, Stages
<1>6. IsSeen(f, c, s, es)
  <2>1. ASSUME NEW i \in 0 .. N, i # 0 PROVE step[i][f[i - 1]] = Looked(c, f[i - 1], es[i])
    <3>1. i \in 1 .. N /\ i - 1 \in 0 .. N
      BY <1>1, <2>1
    <3> QED BY <3>1
  <2> HIDE DEF step
  <2>2. f = [i \in 0 .. N |-> IF i = 0 THEN s ELSE Looked(c, f[i - 1], es[i])]
    BY <2>1, <1>5
  <2> QED BY <2>2 DEF IsSeen, N
<1>7. ASSUME NEW seen, IsSeen(seen, c, s, es)
      PROVE  Good(c, S, seen[N], P \cup ToSet(es)) /\ seen[N].at = s.at
  <2> DEFINE T == {i \in 0 .. N : seen[i] \in ScanStates /\ Good(c, S, seen[i], Of(i)) /\ seen[i].at = s.at}
  <2>1. \A i \in 0 .. N : seen[i] = IF i = 0 THEN s ELSE Looked(c, seen[i - 1], es[i])
    BY <1>7 DEF IsSeen, N
  <2>2. 0 \in T
    BY <2>1, <1>1, <1>2
  <2>3. ASSUME NEW i \in 1 .. N, i - 1 \in T PROVE i \in T
    <3>1. i \in 0 .. N /\ i # 0
      BY <1>1
    <3>2. seen[i] = Looked(c, seen[i - 1], es[i])
      BY <3>1, <2>1
    <3> QED BY <3>1, <3>2, <2>3, <1>3
  <2> HIDE DEF T
  <2>4. \A i \in 0 .. N : i \in T
    BY <2>2, <2>3, <1>1, Throughout
  <2>5. N \in T
    BY <2>4, <1>1
  <2> QED BY <2>5, <1>2 DEF T
<1> QED BY <1>6, <1>7 DEF N

\* A scan that has ended, or that has come to its j-th stop.
Stands(c, S, W, n, j, s) ==
  \/ s.eof /\ Good(c, S, s, Stored)
  \/ /\ ~s.eof /\ j \in 1 .. n /\ s.at.page = W[j] /\ s.at.from \in Entered(c, W[j])
     /\ Good(c, S, s, Upto(W, j) \ ToSet(Entries(c, s.at)))

EndsRight(c, S, W, n, last) == \A i \in 1 .. n : W[i] = last => Match(c, S) \subseteq Upto(W, i)

LEMMA NodeEntered ==
  ASSUME NEW c \in Scans, NEW W, NEW n, Along(c, W, n), NEW j \in 1 .. n
  PROVE  LET at == EnterNode(c, W[j])
         IN  /\ at \in [page : Page, from : Int] /\ at.page = W[j] /\ at.from \in Entered(c, W[j])
             /\ Upto(W, j) \ ToSet(Entries(c, at)) = Upto(W, j - 1)
<1> DEFINE at == EnterNode(c, W[j])
           m  == node[W[j]]
           E  == ToSet(m.entries)
<1>1. W[j] \in Page /\ m \in Node /\ Sorted(m) /\ c.desc \in BOOLEAN
  BY ScanIs DEF Along
<1>2. Size(m) \in Nat /\ E = {m.entries[i] : i \in 1 .. Size(m)}
  <2> HIDE DEF m
  <2> QED BY <1>1, EntryParts
<1>3. at = [page |-> W[j], from |-> IF c.desc THEN Size(m) ELSE 1]
  BY DEF EnterNode, Outer
<1>4. at.page = W[j] /\ at.from \in Entered(c, W[j]) /\ at \in [page : Page, from : Int]
  BY <1>1, <1>2, <1>3 DEF Entered
<1>5. ToSet(Entries(c, at)) = E
  <2>1. m = node[at.page] /\ at.from \in Entered(c, at.page)
    BY <1>4
  <2>2. (IF c.desc THEN 1 .. at.from ELSE at.from .. Size(m)) = 1 .. Size(m)
    BY <1>1, <1>3
  <2>3. ToSet(Entries(c, at)) = {m.entries[i] : i \in IF c.desc THEN 1 .. at.from ELSE at.from .. Size(m)}
    <3> HIDE DEF at, m
    <3> QED BY <2>1, <1>1, EntriesAre
  <2> HIDE DEF at, m
  <2> QED BY <2>2, <2>3, <1>2
<1>6. /\ Upto(W, j) = Upto(W, j - 1) \cup E
      /\ \A x \in Upto(W, j - 1), y \in E : Before(c, x[1], y[1])
      /\ \A x \in E : x[1] \in Int
  <2>1. Upto(W, j) \subseteq Stored /\ \A e \in Stored : e[1] \in Int
    BY UptoIs
  <2>2. Upto(W, j) = Upto(W, j - 1) \cup E /\ \A x \in Upto(W, j - 1), y \in E : Before(c, x[1], y[1])
    BY UptoIs
  <2> QED BY <2>1, <2>2
<1> HIDE DEF E
<1>7. \A x \in Upto(W, j - 1) : x \notin E
  <2>1. \A i \in Int : ~Before(c, i, i)
    BY DEF Before
  <2>2. \A x \in E : ~Before(c, x[1], x[1])
    BY <2>1, <1>6
  <2> QED BY <2>2, <1>6
<1>8. Upto(W, j) \ ToSet(Entries(c, at)) = Upto(W, j - 1)
  BY <1>5, <1>6, <1>7
<1> QED BY <1>4, <1>8

LEMMA NodeKeeps ==
  ASSUME NEW c \in Scans, NEW S, NEW W, NEW n, Along(c, W, n), NEW last, EndsRight(c, S, W, n, last),
         NEW j, NEW s, Stands(c, S, W, n, j, s)
  PROVE  Stands(c, S, W, n, j + 1, NodeScanned(c, s, last))
<1>1. CASE s.eof
  BY <1>1 DEF NodeScanned, Stands
<1>2. CASE ~s.eof
  <2> DEFINE es == Entries(c, s.at)
             m  == node[W[j]]
             E  == ToSet(m.entries)
             P  == Upto(W, j) \ ToSet(es)
  <2>1. j \in 1 .. n /\ s.at.page = W[j] /\ s.at.from \in Entered(c, W[j]) /\ Good(c, S, s, P)
    BY <1>2 DEF Stands
  <2>2. m \in Node /\ Sorted(m) /\ m = node[s.at.page] /\ s.at.from \in Entered(c, s.at.page)
    BY <2>1 DEF Along
  <2>3. /\ Len(es) \in Nat /\ ToSet(es) = {es[i] : i \in 1 .. Len(es)} /\ ToSet(es) \subseteq E
        /\ \A i, k \in 1 .. Len(es) : i < k => Before(c, es[i][1], es[k][1])
        /\ \A x \in E \ ToSet(es) : \A k \in 1 .. Len(es) : Before(c, x[1], es[k][1])
    <3> HIDE DEF m
    <3> QED BY <2>2, EntriesAre
  <2>4. /\ n \in Nat /\ Stored = Upto(W, n) /\ \A e \in Stored : e[1] \in Int
        /\ Upto(W, j) \subseteq Stored /\ Upto(W, j) = Upto(W, j - 1) \cup E
        /\ \A x \in Upto(W, j), y \in Stored \ Upto(W, j) : Before(c, x[1], y[1])
        /\ \A x \in Upto(W, j - 1), y \in E : Before(c, x[1], y[1])
    <3>1. /\ n \in Nat /\ Stored = Upto(W, n) /\ \A e \in Stored : e[1] \in Int
      BY UptoIs
    <3> QED BY <3>1, <2>1, UptoIs
  <2> HIDE DEF es, E
  <2>5. \A k \in 1 .. Len(es) : es[k] \in ToSet(es) /\ es[k] \in E /\ es[k] \in Upto(W, j)
    BY <2>3, <2>4
  <2>6. Between(c, P, es)
    <3>1. P \subseteq Stored /\ ToSet(es) \subseteq Stored
      BY <2>3, <2>4
    <3>2. ASSUME NEW x \in P, NEW k \in 1 .. Len(es) PROVE Before(c, x[1], es[k][1])
      <4>1. x \in Upto(W, j - 1) \/ x \in E \ ToSet(es)
        BY <2>4
      <4> QED BY <4>1, <2>3, <2>4, <2>5
    <3>3. ASSUME NEW k \in 1 .. Len(es), NEW y \in Stored \ (P \cup ToSet(es)) PROVE Before(c, es[k][1], y[1])
      <4>1. y \in Stored \ Upto(W, j)
        OBVIOUS
      <4> QED BY <4>1, <2>4, <2>5
    <3> QED BY <3>1, <3>2, <3>3, <2>3 DEF Between
  <2>7. P \cup ToSet(es) = Upto(W, j)
    BY <2>3, <2>4
  <2> HIDE DEF P
  <2> DEFINE seen[i \in 0 .. Len(es)] == IF i = 0 THEN s ELSE Looked(c, seen[i - 1], es[i])
             t == seen[Len(es)]
             next == IF c.desc THEN m.left ELSE m.right
  <2>8. NodeScanned(c, s, last) =
          IF t.eof \/ W[j] = last \/ next = NoPage THEN [t EXCEPT !.eof = TRUE] ELSE [t EXCEPT !.at = EnterNode(c, next)]
    BY <1>2, <2>1 DEF NodeScanned, es
  <2>9. Good(c, S, t, Upto(W, j))
    <3>1. /\ \E f : IsSeen(f, c, s, es)
          /\ \A f : IsSeen(f, c, s, es) => Good(c, S, f[Len(es)], P \cup ToSet(es))
      BY <2>1, <2>4, <2>6, SeenKeeps
    <3>2. IsSeen(seen, c, s, es)
      BY <3>1 DEF IsSeen
    <3> HIDE DEF seen
    <3> QED BY <3>1, <3>2, <2>7
  <2> HIDE DEF seen
  <2> HIDE DEF t
  <2>10. /\ t \in ScanStates /\ InOrder(c, t.found) /\ (~t.eof => S \subseteq Upto(W, j))
         /\ ToSet(t.found) = IF t.eof THEN Match(c, S) ELSE Match(c, S) \cap Upto(W, j)
    BY <2>9 DEF Good
  <2>11. next = IF j = n THEN NoPage ELSE W[j + 1]
    BY <2>1 DEF Along
  <2> HIDE DEF next, m
  <2>12. CASE t.eof \/ W[j] = last \/ next = NoPage
    <3> DEFINE u == [t EXCEPT !.eof = TRUE]
    <3>1. u \in ScanStates /\ u.found = t.found /\ u.eof = TRUE
      BY <2>10 DEF ScanStates
    <3>2. ASSUME ~t.eof PROVE Match(c, S) \subseteq Upto(W, j)
      <4>1. CASE W[j] = last
        BY <4>1, <2>1 DEF EndsRight
      <4>2. CASE next = NoPage
        <5>1. j = n
          <6>1. j # n => j + 1 \in 1 .. n
            BY <2>1, <2>4
          <6>2. j # n => W[j + 1] \in Page
            BY <6>1 DEF Along
          <6> QED BY <6>2, <4>2, <2>11, PageIsNumber
        <5> QED BY <5>1, <2>4 DEF Match
      <4> QED BY <4>1, <4>2, <3>2, <2>12
    <3>3. ToSet(t.found) = Match(c, S)
      BY <3>2, <2>10
    <3> HIDE DEF u
    <3>4. Good(c, S, u, Stored) /\ u.eof
      BY <3>1, <3>3, <2>10 DEF Good
    <3> QED BY <3>4, <2>8, <2>12 DEF Stands, u
  <2>13. CASE ~(t.eof \/ W[j] = last \/ next = NoPage)
    <3> DEFINE at == EnterNode(c, W[j + 1])
               u  == [t EXCEPT !.at = at]
    <3>1. j + 1 \in 1 .. n /\ (j + 1) - 1 = j /\ next = W[j + 1]
      BY <2>1, <2>4, <2>11, <2>13
    <3>2. /\ at \in [page : Page, from : Int] /\ at.page = W[j + 1] /\ at.from \in Entered(c, W[j + 1])
          /\ Upto(W, j + 1) \ ToSet(Entries(c, at)) = Upto(W, j)
      <4> DEFINE i == j + 1
      <4>1. i \in 1 .. n /\ i - 1 = j
        BY <3>1
      <4> HIDE DEF i
      <4>2. /\ EnterNode(c, W[i]) \in [page : Page, from : Int] /\ EnterNode(c, W[i]).page = W[i]
            /\ EnterNode(c, W[i]).from \in Entered(c, W[i])
            /\ Upto(W, i) \ ToSet(Entries(c, EnterNode(c, W[i]))) = Upto(W, i - 1)
        BY <4>1, NodeEntered
      <4> QED BY <4>1, <4>2 DEF i
    <3> HIDE DEF at
    <3>3. u \in ScanStates /\ u.found = t.found /\ u.eof = t.eof /\ ~u.eof /\ u.at = at
      BY <3>2, <2>10, <2>13 DEF ScanStates
    <3> HIDE DEF u
    <3>4. Good(c, S, u, Upto(W, j))
      BY <3>3, <2>10, <2>13 DEF Good
    <3>5. Stands(c, S, W, n, j + 1, u)
      BY <3>1, <3>2, <3>3, <3>4 DEF Stands
    <3> QED BY <3>1, <3>5, <2>8, <2>13 DEF u, at
  <2> QED BY <2>12, <2>13
<1> QED BY <1>1, <1>2

\* A scan that begins before all that matches and ends behind it.
Opened(c, S, W, n, start, a) ==
  /\ start.eof \in BOOLEAN /\ (start.eof => Match(c, S) = {})
  /\ a \in 1 .. n /\ start.at \in [page : Page, from : Int]
  /\ start.at.page = W[a] /\ start.at.from \in Entered(c, W[a])
  /\ ~start.eof => S \subseteq Upto(W, a) \ ToSet(Entries(c, start.at))
  /\ Match(c, S) \cap (Upto(W, a) \ ToSet(Entries(c, start.at))) = {}
  /\ EndsRight(c, S, W, n, start.last)

LEMMA ReturnedIs ==
  ASSUME NEW c \in Scans, NEW S, NEW W, NEW n, Along(c, W, n), NEW pos,
         NEW start, start = OpOptimize(c, pos), NEW a, Opened(c, S, W, n, start, a)
  PROVE  ToSet(Returned(c, pos)) = Match(c, S) /\ InOrder(c, Returned(c, pos))
<1>0. /\ start.eof \in BOOLEAN /\ (start.eof => Match(c, S) = {})
      /\ a \in 1 .. n /\ start.at \in [page : Page, from : Int]
      /\ start.at.page = W[a] /\ start.at.from \in Entered(c, W[a])
      /\ ~start.eof => S \subseteq Upto(W, a) \ ToSet(Entries(c, start.at))
      /\ Match(c, S) \cap (Upto(W, a) \ ToSet(Entries(c, start.at))) = {}
      /\ EndsRight(c, S, W, n, start.last)
  BY DEF Opened
<1> USE <1>0
<1> DEFINE s    == [at |-> start.at, found |-> << >>, eof |-> start.eof]
           G    == [i \in 0 .. MaxPage |-> {t \in ScanStates : Stands(c, S, W, n, a + i, t)}]
           step == [i \in 1 .. MaxPage |-> [t \in ScanStates |-> NodeScanned(c, t, start.last)]]
<1>1. MaxPage \in Nat \ {0} /\ n \in Nat /\ n <= MaxPage /\ a \in Nat /\ a > 0
  <2>1. n \in Nat /\ n <= MaxPage
    BY UptoIs
  <2> QED BY <2>1, IndexAssumption
<1>2. s \in ScanStates /\ Stands(c, S, W, n, a, s)
  <2>1. s \in ScanStates /\ s.at = start.at /\ s.found = << >> /\ s.eof = start.eof
    BY DEF ScanStates
  <2>2. InOrder(c, << >>) /\ ToSet(<< >>) = {}
    BY DEF InOrder, ToSet
  <2> HIDE DEF s
  <2>3. CASE start.eof
    BY <2>1, <2>2, <2>3 DEF Stands, Good
  <2>4. CASE ~start.eof
    BY <2>1, <2>2, <2>4 DEF Stands, Good
  <2> QED BY <2>1, <2>3, <2>4
<1> HIDE DEF s
<1>3. ASSUME NEW i \in 1 .. MaxPage, NEW t, Stands(c, S, W, n, a + (i - 1), t)
      PROVE  NodeScanned(c, t, start.last) \in ScanStates /\ Stands(c, S, W, n, a + i, NodeScanned(c, t, start.last))
  <2>1. (a + (i - 1)) + 1 = a + i
    BY <1>1
  <2>2. Stands(c, S, W, n, a + i, NodeScanned(c, t, start.last))
    BY <1>3, <2>1, NodeKeeps
  <2> QED BY <2>2 DEF Stands, Good
<1>4. Stays(MaxPage, ScanStates, G, s, step)
  <2>1. s \in G[0]
    BY <1>1, <1>2
  <2>2. ASSUME NEW i \in 1 .. MaxPage, NEW t \in G[i - 1] PROVE step[i][t] \in G[i]
    <3>1. i - 1 \in 0 .. MaxPage /\ i \in 0 .. MaxPage
      BY <1>1
    <3>2. t \in ScanStates /\ Stands(c, S, W, n, a + (i - 1), t)
      BY <3>1, <2>2
    <3> QED BY <3>1, <3>2, <1>3
  <2>3. \A i \in 0 .. MaxPage : G[i] \subseteq ScanStates
    OBVIOUS
  <2> HIDE DEF G, step
  <2> QED BY <2>1, <2>2, <2>3, <1>1 DEF Stays
<1>5. PICK f \in [0 .. MaxPage -> ScanStates] :
         \A i \in 0 .. MaxPage : f[i] = (IF i = 0 THEN s ELSE step[i][f[i - 1]]) /\ f[i] \in G[i]
  <2> HIDE DEF G, step
  <2> QED BY ONLY <1>4, Stages
<1>6. f = [i \in 0 .. MaxPage |-> IF i = 0 THEN s ELSE NodeScanned(c, f[i - 1], start.last)]
  <2>1. ASSUME NEW i \in 0 .. MaxPage, i # 0 PROVE step[i][f[i - 1]] = NodeScanned(c, f[i - 1], start.last)
    <3>1. i \in 1 .. MaxPage /\ i - 1 \in 0 .. MaxPage
      BY <1>1, <2>1
    <3> QED BY <3>1
  <2> HIDE DEF step
  <2> QED BY <2>1, <1>5
<1> DEFINE after[i \in 0 .. MaxPage] == IF i = 0 THEN s ELSE NodeScanned(c, after[i - 1], start.last)
<1>7. after = [i \in 0 .. MaxPage |-> IF i = 0 THEN s ELSE NodeScanned(c, after[i - 1], start.last)]
  BY <1>6
<1>8. Returned(c, pos) = after[MaxPage].found
  BY DEF Returned, s
<1> HIDE DEF after
<1> DEFINE T == {i \in 0 .. MaxPage : Stands(c, S, W, n, a + i, after[i])}
<1>9. \A i \in 0 .. MaxPage : i \in T
  <2>1. 0 \in T
    BY <1>1, <1>2, <1>7
  <2>2. ASSUME NEW i \in 1 .. MaxPage, i - 1 \in T PROVE i \in T
    <3>1. i \in 0 .. MaxPage /\ i # 0
      BY <1>1
    <3>2. after[i] = NodeScanned(c, after[i - 1], start.last)
      BY <3>1, <1>7
    <3> QED BY <3>1, <3>2, <2>2, <1>3
  <2> HIDE DEF T
  <2> QED BY <2>1, <2>2, <1>1, Throughout
<1>10. Stands(c, S, W, n, a + MaxPage, after[MaxPage]) /\ ~(a + MaxPage \in 1 .. n)
  <2>1. MaxPage \in T
    BY <1>1, <1>9
  <2> QED BY <2>1, <1>1
<1>11. after[MaxPage].eof /\ Good(c, S, after[MaxPage], Stored)
  BY <1>10 DEF Stands
<1> QED BY <1>8, <1>11 DEF Good

\* A key of a sorted node is found; the entries on either side of the leaf of a
\* value have smaller and larger keys.
LEMMA FindKeyIs ==
  ASSUME NEW n \in Node, Sorted(n), NEW k \in Int
  PROVE  LET i == FindKey(n, k)
         IN  i \in 0 .. Size(n) /\ IF i = 0 THEN \A e \in ToSet(n.entries) : e[1] # k ELSE Key(n, i) = k
<1> DEFINE S == AtMost(n, k)
           N == Size(n)
<1>1. /\ N \in Nat /\ \A i \in 1 .. N : Key(n, i) \in Int /\ n.entries[i][1] = Key(n, i)
      /\ ToSet(n.entries) = {n.entries[i] : i \in 1 .. N}
  <2>1. SepKey \subseteq Int
    BY IndexAssumption DEF SepKey
  <2> QED BY <2>1, EntryParts DEF Key
<1>2. S = {i \in 1 .. N : Key(n, i) <= k}
  BY EntryParts DEF AtMost
<1>3. FindKey(n, k) = IF S # {} /\ Key(n, Max(S)) = k THEN Max(S) ELSE 0
  BY DEF FindKey
<1>4. FindKey(n, k) \in 0 .. N
  BY Positions
<1>5. S # {} => Max(S) \in S /\ \A y \in S : y <= Max(S)
  <2>1. S \subseteq Nat /\ \A y \in S : y <= N
    BY <1>1, <1>2
  <2> HIDE DEF S
  <2> QED BY <1>1, <2>1, GreatestNat
<1> HIDE DEF S, N
<1>6. ASSUME NEW i \in 1 .. N, Key(n, i) = k PROVE S # {} /\ Max(S) = i
  <2>1. i \in S
    BY <1>1, <1>2, <1>6
  <2>2. Max(S) \in 1 .. N /\ Key(n, Max(S)) <= k /\ i <= Max(S)
    BY <2>1, <1>2, <1>5
  <2>3. ~(i < Max(S))
    <3>1. i < Max(S) => Key(n, i) < Key(n, Max(S))
      BY <2>2 DEF Sorted, N
    <3> QED BY <3>1, <2>2, <1>1, <1>6
  <2> QED BY <2>1, <2>2, <2>3, <1>1
<1>7. CASE FindKey(n, k) = 0
  <2>1. ASSUME NEW e \in ToSet(n.entries) PROVE e[1] # k
    <3>1. PICK i \in 1 .. N : e = n.entries[i]
      BY <1>1
    <3>2. SUFFICES ASSUME Key(n, i) = k PROVE FALSE
      BY <3>1, <1>1
    <3>3. FindKey(n, k) = i
      BY <3>2, <1>3, <1>6
    <3> QED BY <3>3, <1>1, <1>7
  <2> QED BY <2>1, <1>4, <1>7 DEF N
<1>8. CASE FindKey(n, k) # 0
  BY <1>3, <1>4, <1>8 DEF N
<1> QED BY <1>7, <1>8

LEMMA SidesAre ==
  ASSUME TreeInv, Searchable(Leaves), NEW c \in Scans, NEW v \in Keys, NEW g \in 1 .. Len(Leaves),
         LeafOf(v) = Way(c)[g]
  PROVE  /\ \A x \in Upto(Way(c), g - 1) : Before(c, x[1], v)
         /\ \A y \in Stored \ Upto(Way(c), g) : Before(c, v, y[1])
<1> DEFINE L  == Leaves
           n  == Len(L)
           W  == Way(c)
           at == IF c.desc THEN n + 1 - g ELSE g
<1>1. Along(c, W, n) /\ c.desc \in BOOLEAN
  BY WayIs, ScanIs DEF Searchable
<1>2. n \in Nat \ {0} /\ v \in Int
  <2>1. n \in Nat \ {0}
    <3> HIDE DEF n
    <3> QED BY <1>1, UptoIs
  <2> QED BY <2>1, IndexAssumption
<1>3. \A j \in 1 .. n : W[j] = L[IF c.desc THEN n + 1 - j ELSE j]
  BY DEF Way
<1>4. at \in 1 .. n /\ LeafOf(v) = L[at]
  BY <1>1, <1>2, <1>3
<1>5. /\ at > 1 => LargestKey(node[L[at - 1]]) < v
      /\ at < n => Key(node[L[at + 1]], 1) > v
  <2>1. DOMAIN L = 1 .. n
    <3>1. PICK d, rk : IsTree(d, rk)
      BY DEF TreeInv
    <3> QED BY <3>1, LeavesAre
  <2> HIDE DEF at
  <2> QED BY <2>1, <1>4 DEF Searchable
<1>6. ASSUME NEW j \in 1 .. n, n > 1
      PROVE  LET m == node[W[j]]
             IN  /\ m \in Node /\ 1 \in 1 .. Size(m) /\ Size(m) \in 1 .. Size(m)
                 /\ \A i \in 1 .. Size(m) : /\ Key(m, i) \in Int
                                            /\ Key(m, 1) <= Key(m, i) /\ Key(m, i) <= Key(m, Size(m))
  <2> DEFINE m == node[W[j]]
  <2>1. m \in Node /\ ~IsEmpty(m) /\ Sorted(m)
    BY <1>1, <1>6 DEF Along
  <2> HIDE DEF m
  <2>2. /\ Size(m) \in Nat /\ Size(m) # 0
        /\ \A i \in 1 .. Size(m) : Key(m, i) \in Int
    <3>1. SepKey \subseteq Int
      BY IndexAssumption DEF SepKey
    <3> QED BY <3>1, <2>1, EntryParts DEF IsEmpty
  <2>3. 1 \in 1 .. Size(m) /\ Size(m) \in 1 .. Size(m)
    BY <2>2
  <2>4. ASSUME NEW i \in 1 .. Size(m) PROVE Key(m, 1) <= Key(m, i) /\ Key(m, i) <= Key(m, Size(m))
    <3>1. i = 1 \/ Key(m, 1) < Key(m, i)
      BY <2>1, <2>3 DEF Sorted
    <3>2. i = Size(m) \/ Key(m, i) < Key(m, Size(m))
      BY <2>1, <2>2, <2>3 DEF Sorted
    <3> QED BY <3>1, <3>2, <2>2, <2>3
  <2> QED BY <2>1, <2>2, <2>3, <2>4 DEF m
\* The stop before it and the next.
<1>7. g > 1 => \A i \in 1 .. Size(node[W[g - 1]]) : Before(c, Key(node[W[g - 1]], i), v)
  <2>1. SUFFICES ASSUME g > 1, NEW i \in 1 .. Size(node[W[g - 1]])
                 PROVE  Before(c, Key(node[W[g - 1]], i), v)
    OBVIOUS
  <2> DEFINE m == node[W[g - 1]]
  <2>2. g - 1 \in 1 .. n /\ n > 1
    BY <2>1, <1>2
  <2>3. /\ Key(m, i) \in Int /\ Key(m, 1) \in Int /\ Key(m, Size(m)) \in Int
        /\ Key(m, 1) <= Key(m, i) /\ Key(m, i) <= Key(m, Size(m))
    BY <2>1, <2>2, <1>6
  <2>4. CASE c.desc
    <3>1. at < n /\ m = node[L[at + 1]]
      BY <2>1, <2>2, <2>4, <1>2, <1>3
    <3> HIDE DEF at, m
    <3>2. Key(m, 1) > v
      BY <3>1, <1>5
    <3>3. Before(c, Key(m, i), v)
      BY <3>2, <2>3, <2>4, <1>2 DEF Before
    <3> QED BY <3>3 DEF m
  <2>5. CASE ~c.desc
    <3>1. at > 1 /\ m = node[L[at - 1]]
      BY <2>1, <2>2, <2>5, <1>2, <1>3
    <3> HIDE DEF at, m
    <3>2. Key(m, Size(m)) < v
      BY <3>1, <1>5 DEF LargestKey
    <3>3. Before(c, Key(m, i), v)
      BY <3>2, <2>3, <2>5, <1>2 DEF Before
    <3> QED BY <3>3 DEF m
  <2> QED BY <2>4, <2>5, <1>1
<1>8. g < n => \A i \in 1 .. Size(node[W[g + 1]]) : Before(c, v, Key(node[W[g + 1]], i))
  <2>1. SUFFICES ASSUME g < n, NEW i \in 1 .. Size(node[W[g + 1]])
                 PROVE  Before(c, v, Key(node[W[g + 1]], i))
    OBVIOUS
  <2> DEFINE m == node[W[g + 1]]
  <2>2. g + 1 \in 1 .. n /\ n > 1
    BY <2>1, <1>2
  <2>3. /\ Key(m, i) \in Int /\ Key(m, 1) \in Int /\ Key(m, Size(m)) \in Int
        /\ Key(m, 1) <= Key(m, i) /\ Key(m, i) <= Key(m, Size(m))
    BY <2>1, <2>2, <1>6
  <2>4. CASE c.desc
    <3>1. at > 1 /\ m = node[L[at - 1]]
      BY <2>1, <2>2, <2>4, <1>2, <1>3
    <3> HIDE DEF at, m
    <3>2. Key(m, Size(m)) < v
      BY <3>1, <1>5 DEF LargestKey
    <3>3. Before(c, v, Key(m, i))
      BY <3>2, <2>3, <2>4, <1>2 DEF Before
    <3> QED BY <3>3 DEF m
  <2>5. CASE ~c.desc
    <3>1. at < n /\ m = node[L[at + 1]]
      BY <2>1, <2>2, <2>5, <1>2, <1>3
    <3> HIDE DEF at, m
    <3>2. Key(m, 1) > v
      BY <3>1, <1>5
    <3>3. Before(c, v, Key(m, i))
      BY <3>2, <2>3, <2>5, <1>2 DEF Before
    <3> QED BY <3>3 DEF m
  <2> QED BY <2>4, <2>5, <1>1
<1> HIDE DEF at, n, W
<1>9. ASSUME NEW j \in 1 .. n, NEW e \in ToSet(node[W[j]].entries)
      PROVE  e[1] \in Int /\ \E i \in 1 .. Size(node[W[j]]) : e[1] = Key(node[W[j]], i)
  <2> DEFINE m == node[W[j]]
  <2>1. m \in Node /\ e \in ToSet(m.entries)
    BY <1>1, <1>9 DEF Along
  <2> HIDE DEF m
  <2>2. PICK i \in 1 .. Size(m) : e = m.entries[i]
    BY <2>1, EntryParts
  <2>3. e[1] = Key(m, i) /\ Key(m, i) \in SepKey
    BY <2>1, <2>2, EntryParts DEF Key
  <2> QED BY <2>3, IndexAssumption DEF SepKey, m
<1>10. ASSUME NEW j \in 1 .. n, NEW k \in 1 .. n, j < k,
              NEW x \in ToSet(node[W[j]].entries), NEW y \in ToSet(node[W[k]].entries)
       PROVE  Before(c, x[1], y[1])
  <2>1. PICK a \in 1 .. Size(node[W[j]]) : x[1] = Key(node[W[j]], a)
    BY <1>9
  <2>2. PICK b \in 1 .. Size(node[W[k]]) : y[1] = Key(node[W[k]], b)
    BY <1>9
  <2>3. k \in (j + 1) .. n
    BY <1>2, <1>10
  <2>4. Before(c, Key(node[W[j]], a), Key(node[W[k]], b))
    BY <2>3, <1>1 DEF Along
  <2> QED BY <2>1, <2>2, <2>4
<1>11. \A x, y, z \in Int : Before(c, x, y) /\ Before(c, y, z) => Before(c, x, z)
  BY DEF Before
<1>12. g \in 1 .. n
  BY DEF n
<1>13. ASSUME NEW j \in 1 .. n, NEW e \in ToSet(node[W[j]].entries)
       PROVE  (j < g => Before(c, e[1], v)) /\ (g < j => Before(c, v, e[1]))
  <2>1. ASSUME j < g PROVE Before(c, e[1], v)
    <3>1. g - 1 \in 1 .. n /\ g > 1 /\ n > 1 /\ (j = g - 1 \/ j < g - 1)
      BY <2>1, <1>2, <1>12
    <3>2. CASE j = g - 1
      BY <3>1, <3>2, <1>7, <1>9
    <3>3. CASE j < g - 1
      <4> DEFINE z == node[W[g - 1]].entries[1]
      <4>1. z \in ToSet(node[W[g - 1]].entries) /\ z[1] = Key(node[W[g - 1]], 1) /\ 1 \in 1 .. Size(node[W[g - 1]])
        <5> DEFINE m == node[W[g - 1]]
        <5>1. m \in Node /\ 1 \in 1 .. Size(m)
          BY <3>1, <1>6
        <5> HIDE DEF m
        <5>2. ToSet(m.entries) = {m.entries[i] : i \in 1 .. Size(m)}
          BY <5>1, EntryParts
        <5>3. m.entries[1] \in ToSet(m.entries) /\ m.entries[1][1] = Key(m, 1)
          BY <5>1, <5>2 DEF Key
        <5> QED BY <5>1, <5>3 DEF m
      <4> HIDE DEF z
      <4>2. Before(c, e[1], z[1]) /\ Before(c, z[1], v) /\ z[1] \in Int
        BY <4>1, <3>1, <3>3, <1>6, <1>7, <1>10
      <4> QED BY <4>2, <1>2, <1>9, <1>11
    <3> QED BY <3>1, <3>2, <3>3
  <2>2. ASSUME g < j PROVE Before(c, v, e[1])
    <3>1. g + 1 \in 1 .. n /\ g < n /\ n > 1 /\ (j = g + 1 \/ g + 1 < j)
      BY <2>2, <1>2, <1>12
    <3>2. CASE j = g + 1
      BY <3>1, <3>2, <1>8, <1>9
    <3>3. CASE g + 1 < j
      <4> DEFINE z == node[W[g + 1]].entries[1]
      <4>1. z \in ToSet(node[W[g + 1]].entries) /\ z[1] = Key(node[W[g + 1]], 1) /\ 1 \in 1 .. Size(node[W[g + 1]])
        <5> DEFINE m == node[W[g + 1]]
        <5>1. m \in Node /\ 1 \in 1 .. Size(m)
          BY <3>1, <1>6
        <5> HIDE DEF m
        <5>2. ToSet(m.entries) = {m.entries[i] : i \in 1 .. Size(m)}
          BY <5>1, EntryParts
        <5>3. m.entries[1] \in ToSet(m.entries) /\ m.entries[1][1] = Key(m, 1)
          BY <5>1, <5>2 DEF Key
        <5> QED BY <5>1, <5>3 DEF m
      <4> HIDE DEF z
      <4>2. Before(c, z[1], e[1]) /\ Before(c, v, z[1]) /\ z[1] \in Int
        BY <4>1, <3>1, <3>3, <1>6, <1>8, <1>10
      <4> QED BY <4>2, <1>2, <1>9, <1>11
    <3> QED BY <3>1, <3>2, <3>3
  <2> QED BY <2>1, <2>2
<1>14. ASSUME NEW x \in Upto(W, g - 1) PROVE Before(c, x[1], v)
  <2>1. PICK j \in 1 .. (g - 1) : x \in ToSet(node[W[j]].entries)
    BY DEF Upto
  <2>2. j \in 1 .. n /\ j < g
    BY <1>2, <1>12
  <2> QED BY <2>1, <2>2, <1>13
<1>15. ASSUME NEW y \in Stored \ Upto(W, g) PROVE Before(c, v, y[1])
  <2>1. Stored = Upto(W, n)
    BY <1>1, UptoIs
  <2>2. PICK j \in 1 .. n : y \in ToSet(node[W[j]].entries)
    BY <2>1 DEF Upto
  <2>3. j \notin 1 .. g
    BY <2>2 DEF Upto
  <2>4. g < j
    BY <2>3, <1>2, <1>12
  <2> QED BY <2>2, <2>4, <1>13
<1> QED BY <1>14, <1>15 DEF W

LEMMA LeafOfIs ==
  ASSUME TreeInv, NEW v
  PROVE  LeafOf(v) \in Level[height]
<1>1. PICK d, rk : IsTree(d, rk)
  BY DEF TreeInv
<1>2. height \in 1 .. height /\ height \in Nat
  BY <1>1 DEF IsTree, Shape
<1>3. LeafOf(v) \in Page /\ d[LeafOf(v)] = height
  BY <1>1, <1>2, PathIs DEF OnPath, LeafOf
<1> QED BY <1>1, <1>2, <1>3, LevelIs

LEMMA ScanReturns ==
  ASSUME TreeInv, Searchable(Leaves), NEW c \in Scans, NEW pos \in FoundAt(c)
  PROVE  ToSet(Returned(c, pos)) = Match(c, Missed(c, pos)) /\ InOrder(c, Returned(c, pos))
<1> DEFINE W     == Way(c)
           n     == Len(Leaves)
           v     == c.value
           start == OpOptimize(c, pos)
           E(g)  == ToSet(node[W[g]].entries)
           S     == Missed(c, pos)
<1>1. Along(c, W, n)
  BY WayIs DEF Searchable
<1> HIDE DEF W, n
<1>2. /\ n \in Nat \ {0} /\ 1 \in 1 .. n /\ Upto(W, 0) = {} /\ Stored = Upto(W, n)
      /\ \A e \in Stored : e[1] \in Int
      /\ \A j \in 1 .. n : W[j] \in Page /\ Upto(W, j) \subseteq Stored /\ Upto(W, j) = Upto(W, j - 1) \cup E(j)
  <2>1. /\ n \in Nat \ {0} /\ Upto(W, 0) = {} /\ Stored = Upto(W, n) /\ \A e \in Stored : e[1] \in Int
    BY <1>1, UptoIs
  <2>2. \A j \in 1 .. n : Upto(W, j) \subseteq Stored /\ Upto(W, j) = Upto(W, j - 1) \cup E(j)
    BY <1>1, UptoIs
  <2>3. \A j \in 1 .. n : W[j] \in Page
    BY <1>1 DEF Along
  <2>4. 1 \in 1 .. n
    BY <2>1
  <2> QED BY <2>1, <2>2, <2>3, <2>4
<1>3. c.desc \in BOOLEAN /\ \/ c.op = "NO" /\ v = None
                            \/ c.op \in {"EQ", "NE", "LT", "GE", "GT", "LE"} /\ v \in Keys /\ v \in Int /\ v # None
  BY ScanIs
\* What the scan passes over.
<1>16. ~EndsUnfound(c) \/ pos # 0 => S = {}
  BY DEF Missed
<1>17. ASSUME EndsUnfound(c), pos = 0, NEW g, LeafOf(v) = W[g] PROVE S = E(g)
  BY <1>17 DEF Missed
<1> HIDE DEF S
<1>18. start = OpOptimize(c, pos)
  OBVIOUS
\* The end that OpOptimize does not choose.
<1>4. /\ Outermost(c) \in [page : Page, from : Int] /\ Outermost(c).page = W[1]
      /\ Outermost(c).from \in Entered(c, W[1])
      /\ Match(c, S) \cap (Upto(W, 1) \ ToSet(Entries(c, Outermost(c)))) = {}
  <2>1. Outermost(c) = EnterNode(c, W[1])
    BY <1>1 DEF Outermost, Along
  <2>2. /\ EnterNode(c, W[1]) \in [page : Page, from : Int] /\ EnterNode(c, W[1]).page = W[1]
        /\ EnterNode(c, W[1]).from \in Entered(c, W[1])
        /\ Upto(W, 1) \ ToSet(Entries(c, EnterNode(c, W[1]))) = Upto(W, 1 - 1)
    BY <1>1, <1>2, NodeEntered
  <2> QED BY <2>1, <2>2, <1>2
<1>5. EndsRight(c, S, W, n, NoPage)
  BY <1>2, PageIsNumber DEF EndsRight
\* The leaf of the value.
<1>6. ASSUME v \in Keys PROVE \E g \in 1 .. n : LeafOf(v) = W[g]
  BY LeafOfIs, <1>1 DEF Along
<1>7. ASSUME v \in Keys, NEW g \in 1 .. n, LeafOf(v) = W[g]
      PROVE  /\ \A x \in Upto(W, g - 1) : Before(c, x[1], v)
             /\ \A y \in Stored \ Upto(W, g) : Before(c, v, y[1])
  <2>1. g \in 1 .. Len(Leaves) /\ LeafOf(v) = Way(c)[g]
    BY <1>7 DEF W, n
  <2> HIDE DEF v
  <2> QED BY <2>1, <1>7, SidesAre DEF W
<1>8. ASSUME v \in Keys, NEW g \in 1 .. n, LeafOf(v) = W[g]
      PROVE  /\ node[W[g]] \in Node /\ Sorted(node[W[g]]) /\ Size(node[W[g]]) \in Nat
             /\ E(g) = {node[W[g]].entries[i] : i \in 1 .. Size(node[W[g]])}
             /\ LET i == FindKey(node[W[g]], v)
                IN  i \in 0 .. Size(node[W[g]])
                    /\ IF i = 0 THEN \A e \in E(g) : e[1] # v ELSE node[W[g]].entries[i][1] = v
  <2> DEFINE m == node[W[g]]
  <2>1. m \in Node /\ Sorted(m)
    BY <1>1 DEF Along
  <2>2. v \in Int
    BY <1>8, IndexAssumption
  <2> HIDE DEF m, v
  <2>3. LET i == FindKey(m, v)
        IN  i \in 0 .. Size(m) /\ IF i = 0 THEN \A e \in ToSet(m.entries) : e[1] # v ELSE Key(m, i) = v
    BY <2>1, <2>2, FindKeyIs
  <2>4. Size(m) \in Nat /\ ToSet(m.entries) = {m.entries[i] : i \in 1 .. Size(m)}
    BY <2>1, EntryParts
  <2> QED BY <2>1, <2>3, <2>4 DEF m, Key
<1>9. ASSUME v \in Keys, (c.op \in {"LE", "LT", "EQ"} /\ ~c.desc) \/ (c.op = "GT" /\ c.desc)
      PROVE  EndsRight(c, S, W, n, LeafOf(v))
  <2>1. ASSUME NEW g \in 1 .. n, LeafOf(v) = W[g], NEW y \in Match(c, S), y \notin Upto(W, g) PROVE FALSE
    <3>1. y \in Stored /\ CheckFunction(c.op, y[1], v)
      BY <2>1 DEF Match
    <3>2. Before(c, v, y[1]) /\ y[1] \in Int /\ v \in Int
      BY <3>1, <2>1, <1>2, <1>7, <1>9, IndexAssumption
    <3> HIDE DEF v
    <3> QED BY <3>1, <3>2, <1>9 DEF Before, CheckFunction
  <2> QED BY <2>1 DEF EndsRight
<1>10. ASSUME c.op = "EQ", pos = 0 PROVE Match(c, S) = {}
  <2>1. v \in Keys /\ v \in Int
    BY <1>3, <1>10
  <2>2. PICK g \in 1 .. n : LeafOf(v) = W[g]
    BY <2>1, <1>6
  <2>3. S = E(g)
    BY <2>2, <1>10, <1>17 DEF EndsUnfound
  <2>4. ASSUME NEW y \in Match(c, S) PROVE FALSE
    <3>1. y \in Stored /\ y \notin S /\ y[1] = v
      BY <1>10 DEF Match, CheckFunction
    <3>2. ~Before(c, v, y[1]) /\ ~Before(c, y[1], v)
      BY <3>1, <2>1 DEF Before
    <3>3. y \in E(g)
      BY <3>1, <3>2, <2>1, <2>2, <1>2, <1>7
    <3> QED BY <3>1, <3>3, <2>3
  <2> QED BY <2>4
\* The ways OpOptimize begins and ends a scan.
<1>11. CASE c.op \in {"NO", "NE", "GE"}
  <2>1. start = [at |-> Outermost(c), last |-> NoPage, eof |-> FALSE]
    BY <1>3, <1>11 DEF OpOptimize
  <2> HIDE DEF start
  <2>2. start.at = Outermost(c) /\ start.last = NoPage /\ start.eof = FALSE
    BY <2>1
  <2>3. S = {}
    BY <1>11, <1>16 DEF EndsUnfound
  <2>4. Opened(c, S, W, n, start, 1)
    BY <2>2, <2>3, <1>2, <1>4, <1>5 DEF Opened
  <2> HIDE DEF start
  <2> QED BY <2>4, <1>1, <1>18, ReturnedIs DEF S
<1>12. CASE c.op = "GT" /\ c.desc
  <2>1. start = [at |-> Outermost(c), last |-> LeafOf(v), eof |-> FALSE] /\ v \in Keys
    BY <1>3, <1>12 DEF OpOptimize
  <2> HIDE DEF start
  <2>2. start.at = Outermost(c) /\ start.last = LeafOf(v) /\ start.eof = FALSE
    BY <2>1
  <2>3. EndsRight(c, S, W, n, start.last)
    BY <2>1, <2>2, <1>9, <1>12
  <2>4. S = {}
    BY <1>12, <1>16 DEF EndsUnfound
  <2>5. Opened(c, S, W, n, start, 1)
    BY <2>2, <2>3, <2>4, <1>2, <1>4 DEF Opened
  <2> HIDE DEF start
  <2> QED BY <2>5, <1>1, <1>18, ReturnedIs DEF S
<1>13. CASE c.op \in {"LE", "LT", "EQ"} /\ ~c.desc
  <2>1. start = [at |-> Outermost(c), last |-> LeafOf(v), eof |-> c.op = "EQ" /\ pos = 0] /\ v \in Keys
    BY <1>3, <1>13 DEF OpOptimize
  <2> HIDE DEF start
  <2>2. start.at = Outermost(c) /\ start.last = LeafOf(v) /\ start.eof = (c.op = "EQ" /\ pos = 0)
    BY <2>1
  <2>3. EndsRight(c, S, W, n, start.last)
    BY <2>1, <2>2, <1>9, <1>13
  <2>4. start.eof \in BOOLEAN /\ (start.eof => Match(c, S) = {})
    BY <2>2, <1>10
  <2>5. ~start.eof => S = {}
    BY <2>2, <1>13, <1>16 DEF EndsUnfound
  <2>6. Opened(c, S, W, n, start, 1)
    BY <2>2, <2>3, <2>4, <2>5, <1>2, <1>4 DEF Opened
  <2> HIDE DEF start
  <2> QED BY <2>6, <1>1, <1>18, ReturnedIs DEF S
<1>14. CASE c.op \in {"LE", "LT", "EQ"} /\ c.desc
  <2>1. start = [at |-> [page |-> LeafOf(v), from |-> pos], last |-> NoPage, eof |-> c.op = "EQ" /\ pos = 0]
        /\ v \in Keys /\ v \in Int
    BY <1>3, <1>14 DEF OpOptimize
  <2> HIDE DEF start
  <2>2. PICK g \in 1 .. n : LeafOf(v) = W[g]
    BY <2>1, <1>6
  <2> DEFINE at == [page |-> W[g], from |-> pos]
             m  == node[W[g]]
             es == Entries(c, at)
  <2>3. start.at = at /\ start.last = NoPage /\ start.eof = (c.op = "EQ" /\ pos = 0)
    BY <2>1, <2>2
  <2>4. start.eof \in BOOLEAN /\ (start.eof => Match(c, S) = {})
    BY <2>3, <1>10
  <2>5. /\ pos = 0 \/ pos = FindKey(m, v)
        /\ pos # 0 => S = {}
        /\ pos = 0 => S = E(g)
    <3>1. EndsUnfound(c)
      BY <1>14 DEF EndsUnfound
    <3> QED BY <3>1, <2>2, <1>16, <1>17 DEF FoundAt
  <2>6. pos \in 0 .. Size(m) /\ Size(m) \in Nat
    BY <2>1, <2>2, <2>5, <1>8
  <2>7. /\ at \in [page : Page, from : Int] /\ at.page = W[g] /\ at.from \in Entered(c, W[g])
    BY <2>6, <1>2, <1>14 DEF Entered
  <2>8. ASSUME NEW x \in Match(c, S), x \in Upto(W, g), x \notin ToSet(es) PROVE FALSE
    <3>1. x \in Stored /\ x \notin S /\ CheckFunction(c.op, x[1], v) /\ x[1] \in Int
      BY <1>2 DEF Match
    <3>2. ~Before(c, x[1], v)
      <4> HIDE DEF v
      <4> QED BY <3>1, <2>1, <1>14 DEF Before, CheckFunction
    <3>3. x \in E(g)
      BY <3>1, <3>2, <2>1, <2>2, <2>8, <1>2, <1>7
    <3>4. pos # 0
      BY <3>1, <3>3, <2>5
    <3>5. m \in Node /\ Sorted(m) /\ m.entries[pos][1] = v
      BY <3>4, <2>1, <2>2, <2>5, <1>8
    <3>6. /\ ToSet(es) = {es[i] : i \in 1 .. Len(es)}
          /\ ToSet(es) = {m.entries[i] : i \in IF c.desc THEN 1 .. at.from ELSE at.from .. Size(m)}
          /\ \A z \in ToSet(m.entries) \ ToSet(es) : \A k \in 1 .. Len(es) : Before(c, z[1], es[k][1])
      <4>1. m = node[at.page] /\ at.from \in Entered(c, at.page)
        BY <2>7
      <4> HIDE DEF m, at
      <4> QED BY <4>1, <3>5, EntriesAre
    <3>7. m.entries[pos] \in ToSet(es)
      <4>1. pos \in 1 .. at.from
        BY <3>4, <2>6
      <4> HIDE DEF m, at, es
      <4> QED BY <4>1, <3>6, <1>14
    <3> HIDE DEF es
    <3>8. PICK k \in 1 .. Len(es) : es[k] = m.entries[pos]
      BY <3>6, <3>7
    <3>9. Before(c, x[1], v)
      BY <3>3, <3>5, <3>6, <3>8, <2>8
    <3> QED BY <3>2, <3>9
  <2>9. Match(c, S) \cap (Upto(W, g) \ ToSet(Entries(c, start.at))) = {}
    BY <2>3, <2>8
  <2>10. S \subseteq Upto(W, g) \ ToSet(Entries(c, start.at))
    <3>1. CASE pos # 0
      BY <3>1, <2>5
    <3>2. CASE pos = 0
      <4>1. m = node[at.page] /\ at.from \in Entered(c, at.page) /\ m \in Node /\ Sorted(m)
        BY <2>1, <2>2, <2>7, <1>8
      <4>2. at.from = 0
        BY <3>2
      <4> HIDE DEF m, at
      <4>3. ToSet(es) = {m.entries[i] : i \in IF c.desc THEN 1 .. at.from ELSE at.from .. Size(m)}
        BY <4>1, EntriesAre
      <4>4. ToSet(es) = {}
        <5>1. 1 .. 0 = {}
          OBVIOUS
        <5> QED BY <5>1, <4>2, <4>3, <1>14
      <4>5. S \subseteq Upto(W, g)
        BY <3>2, <2>5, <1>2
      <4> QED BY <4>4, <4>5, <2>3
    <3> QED BY <3>1, <3>2
  <2> HIDE DEF at, m
  <2>11. Opened(c, S, W, n, start, g)
    BY <2>3, <2>4, <2>7, <2>9, <2>10, <1>5 DEF Opened
  <2> HIDE DEF start
  <2> QED BY <2>11, <1>1, <1>18, ReturnedIs DEF S
<1>15. CASE c.op = "GT" /\ ~c.desc
  <2>1. start = [at |-> [page |-> LeafOf(v), from |-> pos + 1], last |-> NoPage, eof |-> FALSE]
        /\ v \in Keys /\ v \in Int
    BY <1>3, <1>15 DEF OpOptimize
  <2> HIDE DEF start
  <2>2. PICK g \in 1 .. n : LeafOf(v) = W[g]
    BY <2>1, <1>6
  <2> DEFINE at == [page |-> W[g], from |-> pos + 1]
             m  == node[W[g]]
             es == Entries(c, at)
  <2>3. start.at = at /\ start.last = NoPage /\ start.eof = FALSE
    BY <2>1, <2>2
  <2>4. (pos = FindKey(m, v) \/ pos = 0) /\ S = {}
    BY <2>2, <1>15, <1>16 DEF FoundAt, EndsUnfound
  <2>5. pos \in 0 .. Size(m) /\ Size(m) \in Nat
    BY <2>1, <2>2, <2>4, <1>8
  <2>6. /\ at \in [page : Page, from : Int] /\ at.page = W[g] /\ at.from \in Entered(c, W[g])
    BY <2>5, <1>2, <1>15 DEF Entered
  <2>7. ASSUME NEW x \in Match(c, S), x \in Upto(W, g), x \notin ToSet(es) PROVE FALSE
    <3>1. x \in Stored /\ CheckFunction(c.op, x[1], v) /\ x[1] \in Int
      BY <1>2 DEF Match
    <3>2. x[1] > v
      <4> HIDE DEF v
      <4> QED BY <3>1, <2>1, <1>15 DEF CheckFunction
    <3>3. x \in E(g)
      <4>1. ~Before(c, x[1], v)
        BY <3>1, <3>2, <2>1, <1>15 DEF Before
      <4> QED BY <4>1, <2>1, <2>2, <2>7, <1>2, <1>7
    <3>4. /\ m \in Node /\ Sorted(m) /\ (pos # 0 => m.entries[pos][1] = v)
          /\ E(g) = {m.entries[i] : i \in 1 .. Size(m)}
      BY <2>1, <2>2, <2>4, <1>8
    <3>5. ToSet(es) = {m.entries[i] : i \in IF c.desc THEN 1 .. at.from ELSE at.from .. Size(m)}
      <4>1. m = node[at.page] /\ at.from \in Entered(c, at.page)
        BY <2>6
      <4> HIDE DEF m, at
      <4> QED BY <4>1, <3>4, EntriesAre
    <3>6. PICK i \in 1 .. Size(m) : x = m.entries[i]
      BY <3>3, <3>4
    <3>7. ~(i \in (pos + 1) .. Size(m))
      BY <3>5, <3>6, <2>7, <1>15
    <3>8. i <= pos /\ pos # 0 /\ pos \in 1 .. Size(m)
      BY <3>6, <3>7, <2>5
    <3>9. i = pos \/ Key(m, i) < Key(m, pos)
      BY <3>4, <3>6, <3>8, <2>5 DEF Sorted
    <3>10. x[1] = Key(m, i) /\ v = Key(m, pos)
      BY <3>4, <3>6, <3>8 DEF Key
    <3> HIDE DEF m, v
    <3> QED BY <3>1, <3>2, <3>9, <3>10, <2>1
  <2>8. Match(c, S) \cap (Upto(W, g) \ ToSet(Entries(c, start.at))) = {}
    BY <2>3, <2>7
  <2> HIDE DEF at, m
  <2>9. Opened(c, S, W, n, start, g)
    BY <2>3, <2>4, <2>6, <2>8, <1>5 DEF Opened
  <2> HIDE DEF start
  <2> QED BY <2>9, <1>1, <1>18, ReturnedIs DEF S
<1> QED BY <1>3, <1>11, <1>12, <1>13, <1>14, <1>15

-----------------------------------------------------------------------------
(* The theorems.                                                            *)

LEMMA TreeInvStep == TreeInv /\ [Next]_vars => TreeInv'
<1> SUFFICES ASSUME TreeInv, [Next]_vars PROVE TreeInv'
  OBVIOUS
<1>1. ASSUME NEW k \in Keys \ {e[1] : e \in Stored}, NEW r \in Rids, PageSupply(k), InsertEntry(k, r)
      PROVE  TreeInv'
  <2>1. k \in Keys /\ \A e \in Stored : e[1] # k
    OBVIOUS
  <2> QED BY <2>1, <1>1, InsertKeeps
<1>2. ASSUME NEW k \in Keys, NEW r \in Rids, DeleteEntry(k, r) PROVE TreeInv'
  BY <1>2, DeleteKeeps
<1>3. CASE UNCHANGED vars
  <2>1. UNCHANGED <<node, header, treeLargest, aborted, top, junk>> /\ due' \subseteq due
    BY <1>3 DEF vars
  <2> QED BY <2>1, QuietKeeps
<1> QED BY <1>1, <1>2, <1>3 DEF Next

LEMMA AlwaysTreeInv == Spec => []TreeInv
BY TreeInvInit, TreeInvStep, PTL DEF Spec

(* For every capacity, set of keys and number of pages, and every choice    *)
(* the code leaves to memory: nodes keep within their pages, whose numbers  *)
(* and neighbours are within the index, and the root is a node              *)
(* (ix.cc:62-313).                                                          *)
THEOREM TypeCorrect == Spec => []TypeOK
<1>1. TreeInv => TypeOK
  BY DEF TreeInv
<1> QED BY <1>1, AlwaysTreeInv, PTL

(* Splits and pruning, several levels of them in one call, keep the nodes   *)
(* of each level one chain, linked both ways (ix.cc:114-118, 263-286).      *)
THEOREM LevelsStayChained == Spec => []ChainIsLevel
BY TreeInvImplies, AlwaysTreeInv, PTL

(* The bitmap and the page count of the header agree with the tree, each    *)
(* page of which is entered once in the level above: no page is lost, none  *)
(* is shared, none is given out while it is in use (ix.cc:374-388,          *)
(* 466-475).                                                                *)
THEOREM HeaderAgrees == Spec => []PagesAccounted
BY TreeInvImplies, AlwaysTreeInv, PTL

(* Whatever separators say, and whichever of them FindKey misses: an entry  *)
(* that was inserted is in a leaf of the tree until it is asked to be       *)
(* deleted (ix.cc:62-313).                                                  *)
THEOREM NoEntryLost == Spec => []EntriesKept
BY TreeInvImplies, AlwaysTreeInv, PTL

(* The loop of DeleteEnrty leaves no node but the root without entries, so  *)
(* that the first and the last key of a node that is read are there         *)
(* (ix.cc:247-292).                                                         *)
THEOREM OnlyRootEmpties == Spec => []NoEmptyNode
BY TreeInvImplies, AlwaysTreeInv, PTL

(* A scan that begins in the middle, at the entry OpOptimize chooses, and   *)
(* ends at the leaf it chooses or at the first entry past a match, returns  *)
(* what matches, each entry once and in order, wherever the separators are  *)
(* right: all of it but, where FindKey answers that it has not found the    *)
(* value, what matches EQ or a descending LT or LE in the leaf of the value *)
(* (ix.cc:812-1105).                                                        *)
THEOREM ScansReturnWhatMatches == Spec => []ScanReturnsMatching
<1>1. TreeInv => ScanReturnsMatching
  <2>1. SUFFICES ASSUME TreeInv, Searchable(Leaves), NEW c \in Scans, NEW pos \in FoundAt(c)
                 PROVE  /\ ToSet(Returned(c, pos)) =
                             {e \in Stored \ Missed(c, pos) : CheckFunction(c.op, e[1], c.value)}
                        /\ InOrder(c, Returned(c, pos))
    BY DEF ScanReturnsMatching
  <2> QED BY <2>1, ScanReturns DEF Match
<1> QED BY <1>1, AlwaysTreeInv, PTL

=============================================================================
