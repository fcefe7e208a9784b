------------------------ MODULE BufPageManagerProof ------------------------
(***************************************************************************)
(* Proofs about BufPageManager and the FileManager it calls for every      *)
(* number of files, pages, contents, ids, descriptors, frames and chains.  *)
(*                                                                         *)
(* Whatever callers do with files and frames, the page table stays         *)
(* coherent, the replacement list complete and types correct.  The table,  *)
(* the list and the dirty marks are an inductive invariant by themselves,  *)
(* without the disk or the ids: what each operation does to a chain or to  *)
(* the list is one of four changes of a sequence, stated first.            *)
(*                                                                         *)
(* For disciplined callers: ids tell the open files apart and reach the    *)
(* file of their name, a dirty page can be written back, a page found in   *)
(* a frame is that of the file, and the manager implements PageStore.      *)
(***************************************************************************)
EXTENDS BufPageManager, DataLemmas, FiniteSetTheorems, TLAPS

\* MyLinkList::del.
LEMMA WithoutFacts ==
  ASSUME NEW S, NEW s \in Seq(S), NEW f
  PROVE  /\ Without(s, f) \in Seq(S)
         /\ ToSet(Without(s, f)) \subseteq ToSet(s)
         /\ ToSet(s) \ {f} \subseteq ToSet(Without(s, f))
         /\ f \in ToSet(s) => Len(Without(s, f)) = Len(s) - 1
         /\ IsInjective(s) => IsInjective(Without(s, f)) /\ f \notin ToSet(Without(s, f))
<1> DEFINE at == {i \in DOMAIN s : s[i] = f}
<1>0. DOMAIN s = 1 .. Len(s) /\ Len(s) \in Nat
  OBVIOUS
<1>1. CASE at = {}
  <2>1. Without(s, f) = s /\ f \notin ToSet(s)
    BY <1>1 DEF Without, ToSet
  <2> QED BY <2>1
<1>2. CASE at # {}
  <2> DEFINE m == Min(at)
             w == Without(s, f)
  <2>1. m \in 1 .. Len(s) /\ s[m] = f
    <3>1. at \subseteq Nat
      BY <1>0
    <3>2. m \in at
      BY ONLY <1>2, <3>1, LeastNat
    <3> QED BY <3>2, <1>0
  <2>2. w = RemoveAt(s, m)
    BY <1>2 DEF Without
  <2> HIDE DEF w, m
  <2>3. /\ w \in Seq(S) /\ Len(w) = Len(s) - 1
        /\ \A i \in 1 .. (Len(s) - 1) : w[i] = IF i < m THEN s[i] ELSE s[i + 1]
    BY ONLY <2>1, <2>2, s \in Seq(S), RemoveAtFacts
  <2>4. DOMAIN w = 1 .. (Len(s) - 1)
    BY <2>3
  <2>5. ToSet(w) \subseteq ToSet(s)
    <3>1. ASSUME NEW i \in 1 .. (Len(s) - 1) PROVE \E j \in 1 .. Len(s) : w[i] = s[j]
      BY <1>0, <2>1, <2>3
    <3> QED BY <1>0, <2>4, <3>1 DEF ToSet
  <2>6. ToSet(s) \ {f} \subseteq ToSet(w)
    <3>1. ASSUME NEW j \in 1 .. Len(s), s[j] # f PROVE \E i \in 1 .. (Len(s) - 1) : w[i] = s[j]
      <4>1. CASE j < m
        <5>1. j \in 1 .. (Len(s) - 1)
          BY <4>1, <1>0, <2>1
        <5>2. w[j] = s[j]
          BY <4>1, <5>1, <2>3
        <5> QED BY <5>1, <5>2
      <4>2. CASE j > m
        <5>1. j - 1 \in 1 .. (Len(s) - 1) /\ ~ (j - 1 < m) /\ (j - 1) + 1 = j
          BY <4>2, <1>0, <2>1
        <5>2. w[j - 1] = s[j]
          BY <5>1, <2>3
        <5> QED BY <5>1, <5>2
      <4> QED BY <4>1, <4>2, <3>1, <2>1, <1>0
    <3> QED BY <1>0, <2>4, <3>1 DEF ToSet
  <2>7. ASSUME IsInjective(s) PROVE IsInjective(w) /\ f \notin ToSet(w)
    <3> DEFINE src(i) == IF i < m THEN i ELSE i + 1
    <3>1. \A i \in 1 .. (Len(s) - 1) : src(i) \in 1 .. Len(s) /\ src(i) # m /\ w[i] = s[src(i)]
      BY <1>0, <2>1, <2>3
    <3>2. \A i, j \in 1 .. (Len(s) - 1) : src(i) = src(j) => i = j
      BY <1>0, <2>1
    <3>3. \A i, j \in 1 .. Len(s) : s[i] = s[j] => i = j
      BY <2>7, <1>0 DEF IsInjective
    <3> HIDE DEF src
    <3>4. \A i, j \in 1 .. (Len(s) - 1) : w[i] = w[j] => i = j
      BY <3>1, <3>2, <3>3
    <3>5. \A i \in 1 .. (Len(s) - 1) : w[i] # f
      BY <3>1, <3>3, <2>1
    <3> QED BY <3>4, <3>5, <2>4 DEF IsInjective, ToSet
  <2> QED BY <2>3, <2>5, <2>6, <2>7 DEF w
<1> QED BY <1>1, <1>2

\* MyLinkList::insertFirst.
LEMMA ConsFacts ==
  ASSUME NEW S, NEW s \in Seq(S), NEW f \in S
  PROVE  /\ Cons(f, s) \in Seq(S)
         /\ Len(Cons(f, s)) = Len(s) + 1
         /\ ToSet(Cons(f, s)) = ToSet(s) \cup {f}
         /\ IsInjective(s) /\ f \notin ToSet(s) => IsInjective(Cons(f, s))
<1> DEFINE h == <<f>>
           c == Cons(f, s)
<1>1. h \in Seq(S) /\ Len(h) = 1 /\ h[1] = f
  OBVIOUS
<1>2. c = h \o s
  BY DEF Cons
<1> HIDE DEF h, c
<1>3. /\ c \in Seq(S) /\ Len(c) = Len(h) + Len(s)
      /\ \A i \in 1 .. (Len(h) + Len(s)) : c[i] = IF i <= Len(h) THEN h[i] ELSE s[i - Len(h)]
  BY ONLY <1>1, <1>2, s \in Seq(S), ConcatProperties
<1>4. /\ Len(s) \in Nat /\ DOMAIN s = 1 .. Len(s) /\ DOMAIN c = 1 .. (Len(s) + 1)
      /\ c[1] = f
      /\ \A i \in 1 .. Len(s) : c[i + 1] = s[i]
  <2>1. Len(s) \in Nat /\ DOMAIN s = 1 .. Len(s) /\ DOMAIN c = 1 .. (Len(s) + 1)
    BY <1>1, <1>3
  <2>2. c[1] = h[1]
    BY <1>1, <1>3, <2>1
  <2>3. ASSUME NEW i \in 1 .. Len(s) PROVE c[i + 1] = s[i]
    <3>1. i + 1 \in 1 .. (Len(h) + Len(s)) /\ ~ (i + 1 <= Len(h)) /\ (i + 1) - Len(h) = i
      BY <1>1, <2>1
    <3> QED BY <3>1, <1>3
  <2> QED BY <2>1, <2>2, <2>3, <1>1
<1>5. \A j \in 1 .. (Len(s) + 1) : j = 1 \/ \E i \in 1 .. Len(s) : j = i + 1
  <2>1. ASSUME NEW j \in 1 .. (Len(s) + 1), j # 1 PROVE \E i \in 1 .. Len(s) : j = i + 1
    <3>1. j - 1 \in 1 .. Len(s) /\ j = (j - 1) + 1
      BY <2>1, <1>4
    <3> QED BY <3>1
  <2> QED BY <2>1
<1>6. ToSet(c) = ToSet(s) \cup {f}
  <2>1. ToSet(c) \subseteq ToSet(s) \cup {f}
    BY <1>4, <1>5 DEF ToSet
  <2>2. \A i \in 1 .. Len(s) : i + 1 \in DOMAIN c
    BY <1>4
  <2>3. ToSet(s) \subseteq ToSet(c)
    BY <1>4, <2>2 DEF ToSet
  <2>4. 1 \in DOMAIN c
    BY <1>4
  <2> QED BY <1>4, <2>1, <2>3, <2>4 DEF ToSet
<1>7. ASSUME IsInjective(s), f \notin ToSet(s) PROVE IsInjective(c)
  <2>1. \A i \in 1 .. Len(s) : s[i] # f
    BY <1>7, <1>4 DEF ToSet
  <2>2. \A i, j \in 1 .. Len(s) : s[i] = s[j] => i = j
    BY <1>7, <1>4 DEF IsInjective
  <2>3. ASSUME NEW a \in DOMAIN c, NEW b \in DOMAIN c, c[a] = c[b] PROVE a = b
    BY <1>4, <1>5, <2>1, <2>2, <2>3
  <2> QED BY <2>3 DEF IsInjective
<1> QED BY <1>1, <1>3, <1>4, <1>6, <1>7 DEF c

\* FindReplace::access puts a frame last.
LEMMA AppendFacts ==
  ASSUME NEW S, NEW s \in Seq(S), NEW f \in S
  PROVE  /\ Append(s, f) \in Seq(S)
         /\ Len(Append(s, f)) = Len(s) + 1
         /\ ToSet(Append(s, f)) = ToSet(s) \cup {f}
<1> DEFINE c == Append(s, f)
<1>1. /\ c \in Seq(S) /\ Len(c) = Len(s) + 1 /\ Len(s) \in Nat
      /\ \A i \in 1 .. Len(s) : c[i] = s[i]
      /\ c[Len(s) + 1] = f
  BY AppendProperties
<1>2. DOMAIN s = 1 .. Len(s) /\ DOMAIN c = 1 .. (Len(s) + 1)
  BY <1>1
<1> HIDE DEF c
<1>3. \A i \in 1 .. (Len(s) + 1) : i \in 1 .. Len(s) \/ i = Len(s) + 1
  BY <1>1
<1>4. \A i \in 1 .. Len(s) : i \in 1 .. (Len(s) + 1)
  BY <1>1
<1>5. Len(s) + 1 \in 1 .. (Len(s) + 1)
  BY <1>1
<1>6. ToSet(c) \subseteq ToSet(s) \cup {f}
  BY <1>1, <1>2, <1>3 DEF ToSet
<1>7. ToSet(s) \cup {f} \subseteq ToSet(c)
  BY <1>1, <1>2, <1>4, <1>5 DEF ToSet
<1> QED BY <1>1, <1>6, <1>7 DEF c

\* FindReplace::find, called k times, takes the first k frames to the end.
LEMMA RotationFacts ==
  ASSUME NEW S, NEW s \in Seq(S), NEW k \in 1 .. Len(s)
  PROVE  LET t == SubSeq(s, k + 1, Len(s)) \o SubSeq(s, 1, k)
         IN  t \in Seq(S) /\ Len(t) = Len(s) /\ ToSet(t) = ToSet(s)
<1> DEFINE a == SubSeq(s, k + 1, Len(s))
           b == SubSeq(s, 1, k)
           t == a \o b
           n == Len(s)
<1>1. n \in Nat /\ k \in Int /\ DOMAIN s = 1 .. n /\ \A i \in 1 .. n : s[i] \in S
  OBVIOUS
<1>2. /\ a \in Seq(S) /\ Len(a) = n - k
      /\ \A i \in 1 .. (n - k) : a[i] = s[k + i]
  <2>1. \A i \in (k + 1) .. n : s[i] \in S
    BY <1>1
  <2>2. /\ a \in Seq(S) /\ Len(a) = IF k + 1 <= n THEN n - (k + 1) + 1 ELSE 0
        /\ \A i \in 1 .. (n - (k + 1) + 1) : a[i] = s[k + 1 + i - 1]
    BY ONLY <1>1, <2>1, k + 1 \in Int, n \in Int, SubSeqProperties
  <2>0. n \in Nat /\ k \in Nat /\ k <= n
    BY <1>1
  <2>3. n - (k + 1) + 1 = n - k /\ (~ (k + 1 <= n) => n - k = 0)
    BY ONLY <2>0
  <2>4. \A i \in 1 .. (n - k) : k + 1 + i - 1 = k + i
    BY <1>1
  <2> QED BY ONLY <2>2, <2>3, <2>4
<1>3. /\ b \in Seq(S) /\ Len(b) = k
      /\ \A i \in 1 .. k : b[i] = s[i]
  <2>1. \A i \in 1 .. k : s[i] \in S
    BY <1>1
  <2>2. /\ b \in Seq(S) /\ Len(b) = IF 1 <= k THEN k - 1 + 1 ELSE 0
        /\ \A i \in 1 .. (k - 1 + 1) : b[i] = s[1 + i - 1]
    BY ONLY <1>1, <2>1, 1 \in Int, SubSeqProperties
  <2> QED BY <1>1, <2>2
<1> HIDE DEF a, b
<1>4. /\ t \in Seq(S) /\ Len(t) = Len(a) + Len(b)
      /\ \A i \in 1 .. (Len(a) + Len(b)) : t[i] = IF i <= Len(a) THEN a[i] ELSE b[i - Len(a)]
  BY ONLY <1>2, <1>3, ConcatProperties
<1> HIDE DEF t
<1>5. Len(t) = n /\ DOMAIN t = 1 .. n
  BY <1>1, <1>2, <1>3, <1>4
<1>6. ASSUME NEW i \in 1 .. n PROVE t[i] = IF i <= n - k THEN s[k + i] ELSE s[i - (n - k)]
  <2>1. CASE i <= n - k
    BY <2>1, <1>1, <1>2, <1>3, <1>4
  <2>2. CASE ~ (i <= n - k)
    <3>1. t[i] = b[i - (n - k)] /\ i - (n - k) \in 1 .. k
      BY <2>2, <1>1, <1>2, <1>3, <1>4
    <3> QED BY <2>2, <3>1, <1>3
  <2> QED BY <2>1, <2>2
<1>7. ToSet(t) \subseteq ToSet(s)
  <2>1. ASSUME NEW i \in 1 .. n PROVE \E j \in 1 .. n : t[i] = s[j]
    <3>1. CASE i <= n - k
      <4>1. k + i \in 1 .. n
        BY <3>1, <1>1
      <4> QED BY <3>1, <4>1, <1>6
    <3>2. CASE ~ (i <= n - k)
      <4>1. i - (n - k) \in 1 .. n
        BY <3>2, <1>1
      <4> QED BY <3>2, <4>1, <1>6
    <3> QED BY <3>1, <3>2
  <2> QED BY <1>1, <1>5, <2>1 DEF ToSet
<1>8. ToSet(s) \subseteq ToSet(t)
  <2>1. ASSUME NEW j \in 1 .. n PROVE \E i \in 1 .. n : t[i] = s[j]
    <3>1. CASE j <= k
      <4>1. j + (n - k) \in 1 .. n /\ ~ (j + (n - k) <= n - k) /\ (j + (n - k)) - (n - k) = j
        BY <3>1, <1>1
      <4>2. t[j + (n - k)] = s[j]
        BY <4>1, <1>6
      <4> QED BY <4>1, <4>2
    <3>2. CASE ~ (j <= k)
      <4>1. j - k \in 1 .. n /\ j - k <= n - k /\ k + (j - k) = j
        BY <3>2, <1>1
      <4>2. t[j - k] = s[j]
        BY <4>1, <1>6
      <4> QED BY <4>1, <4>2
    <3> QED BY <3>1, <3>2
  <2> QED BY <1>1, <1>5, <2>1 DEF ToSet
<1> QED BY <1>4, <1>5, <1>7, <1>8 DEF t, a, b

-----------------------------------------------------------------------------
(* The inductive invariant.                                                 *)

Chains == 0 .. (Mod - 1)

TableTypeOK ==
  /\ key \in [Frame -> Key \cup {None}]
  /\ chain \in [Chains -> Seq(Frame)]
  /\ lru \in Seq(Frame)
  /\ dirty \in [Frame -> BOOLEAN]

TableInv == TableTypeOK /\ PageTableCoherent /\ EveryFrameReplaceable

\* The three parts of TableInv that operations change apart from each other.
ListOK  == lru \in Seq(Frame) /\ EveryFrameReplaceable
DirtyOK == dirty \in [Frame -> BOOLEAN]
ChainOK ==
  /\ key \in [Frame -> Key \cup {None}]
  /\ chain \in [Chains -> Seq(Frame)]
  /\ \A h \in Chains : /\ IsInjective(chain[h])
                       /\ ToSet(chain[h]) = {f \in Frame : key[f] # None /\ HashOf(key[f]) = h}

LEMMA TableParts == TableInv <=> ListOK /\ DirtyOK /\ ChainOK
BY DEF TableInv, TableTypeOK, PageTableCoherent, ListOK, DirtyOK, ChainOK

LEMMA NoneIsNoKey == None \notin Key
<1>1. Id \subseteq Int /\ Pages \subseteq Int
  BY FileAssumption DEF Id
<1>2. Key \subseteq Int \X Int
  BY ONLY <1>1 DEF Key
<1> QED BY <1>2, FileAssumption

\* Accessing a frame or giving it back changes its place in the list only.
LEMMA ListMoved ==
  ASSUME ListOK, NEW f \in Frame, lru' \in {lru, MovedToEnd(f), MovedToFront(f)}
  PROVE  ListOK'
<1> DEFINE w == Without(lru, f)
<1>1. lru \in Seq(Frame) /\ Len(lru) = Cap /\ ToSet(lru) = Frame /\ f \in ToSet(lru)
  BY DEF ListOK, EveryFrameReplaceable
<1>2. /\ w \in Seq(Frame) /\ Len(w) = Len(lru) - 1
      /\ ToSet(w) \subseteq ToSet(lru) /\ ToSet(lru) \ {f} \subseteq ToSet(w)
  BY ONLY <1>1, WithoutFacts
<1> HIDE DEF w
<1>3. Len(lru) \in Nat
  BY <1>1
<1>4. CASE lru' = lru
  BY <1>1, <1>4 DEF ListOK, EveryFrameReplaceable, Frame
<1>5. CASE lru' = MovedToEnd(f)
  <2>1. lru' = Append(w, f)
    BY <1>5 DEF MovedToEnd, w
  <2>2. /\ lru' \in Seq(Frame) /\ Len(lru') = Len(w) + 1 /\ ToSet(lru') = ToSet(w) \cup {f}
    BY ONLY <2>1, <1>2, f \in Frame, AppendFacts
  <2>3. Len(lru') = Cap
    BY ONLY <2>2, <1>1, <1>2, <1>3
  <2>4. ToSet(lru') = Frame
    BY ONLY <2>2, <1>1, <1>2
  <2> QED BY <2>2, <2>3, <2>4 DEF ListOK, EveryFrameReplaceable, Frame
<1>6. CASE lru' = MovedToFront(f)
  <2>1. lru' = Cons(f, w)
    BY ONLY <1>6 DEF MovedToFront, w, Cons
  <2>2. /\ lru' \in Seq(Frame) /\ Len(lru') = Len(w) + 1 /\ ToSet(lru') = ToSet(w) \cup {f}
    <3>1. /\ Cons(f, w) \in Seq(Frame) /\ Len(Cons(f, w)) = Len(w) + 1
          /\ ToSet(Cons(f, w)) = ToSet(w) \cup {f}
      BY ONLY <1>2, f \in Frame, ConsFacts
    <3> QED BY ONLY <2>1, <3>1
  <2>3. Len(lru') = Cap
    BY ONLY <2>2, <1>1, <1>2, <1>3
  <2>4. ToSet(lru') = Frame
    BY ONLY <2>2, <1>1, <1>2
  <2> QED BY <2>2, <2>3, <2>4 DEF ListOK, EveryFrameReplaceable, Frame
<1> QED BY <1>4, <1>5, <1>6

\* find chooses a frame when one is not pinned, and rotates the list.
LEMMA VictimFound ==
  ASSUME ListOK, \E g \in Frame : ~pinned[g]
  PROVE  /\ Victim \in Frame
         /\ lru' = Rotated => ListOK'
<1> DEFINE free == {k \in DOMAIN lru : ~pinned[lru[k]]}
<1>1. lru \in Seq(Frame) /\ Len(lru) = Cap /\ ToSet(lru) = Frame
  BY DEF ListOK, EveryFrameReplaceable
<1>2. Len(lru) \in Nat /\ DOMAIN lru = 1 .. Len(lru) /\ \A k \in 1 .. Len(lru) : lru[k] \in Frame
  BY <1>1
<1>3. free \subseteq Nat /\ free # {}
  BY <1>1, <1>2 DEF ToSet
<1>4. Min(free) \in free
  BY ONLY <1>3, LeastNat
<1>5. VictimPos \in 1 .. Len(lru)
  BY <1>2, <1>4 DEF VictimPos
<1>6. Victim \in Frame
  BY <1>2, <1>5 DEF Victim
<1>7. Rotated \in Seq(Frame) /\ Len(Rotated) = Len(lru) /\ ToSet(Rotated) = ToSet(lru)
  <2> DEFINE k == VictimPos
             t == SubSeq(lru, k + 1, Len(lru)) \o SubSeq(lru, 1, k)
  <2>1. k \in 1 .. Len(lru)
    BY <1>5
  <2> HIDE DEF k
  <2>2. t \in Seq(Frame) /\ Len(t) = Len(lru) /\ ToSet(t) = ToSet(lru)
    BY ONLY <2>1, <1>1, RotationFacts
  <2> QED BY <2>2 DEF Rotated, k
<1>8. ASSUME lru' = Rotated PROVE ListOK'
  <2>1. lru' \in Seq(Frame) /\ Len(lru') = Cap /\ ToSet(lru') = Frame
    BY ONLY <1>1, <1>7, <1>8
  <2> QED BY <2>1 DEF ListOK, EveryFrameReplaceable, Frame
<1> QED BY <1>6, <1>8

\* The list the constructor builds, and the one close leaves.
LEMMA FreshLists ==
  /\ lru = FreshLru => ListOK
  /\ lru' = FreshLru => ListOK'
  /\ lru' = [k \in 1 .. Cap |-> Cap - k] => ListOK'
<1> DEFINE up   == [k \in 1 .. Cap |-> k - 1]
           down == [k \in 1 .. Cap |-> Cap - k]
<1>1. Cap \in Nat \ {0}
  BY BufAssumption
<1>2. up \in Seq(Frame) /\ Len(up) = Cap /\ DOMAIN up = 1 .. Cap
  BY <1>1 DEF Frame
<1>3. down \in Seq(Frame) /\ Len(down) = Cap /\ DOMAIN down = 1 .. Cap
  BY <1>1 DEF Frame
<1>4. ToSet(up) = Frame
  <2>1. ASSUME NEW f \in Frame PROVE f + 1 \in 1 .. Cap /\ up[f + 1] = f
    BY <1>1 DEF Frame
  <2>2. Frame \subseteq ToSet(up)
    BY <2>1, <1>2 DEF ToSet
  <2> QED BY <2>2, <1>1 DEF ToSet, Frame
<1>5. ToSet(down) = Frame
  <2>1. ASSUME NEW f \in Frame PROVE Cap - f \in 1 .. Cap /\ down[Cap - f] = f
    BY <1>1 DEF Frame
  <2>2. Frame \subseteq ToSet(down)
    BY <2>1, <1>3 DEF ToSet
  <2> QED BY <2>2, <1>1 DEF ToSet, Frame
<1> HIDE DEF up, down
<1>6. (lru = up => ListOK) /\ (lru' = up => ListOK') /\ (lru' = down => ListOK')
  BY <1>2, <1>3, <1>4, <1>5 DEF ListOK, EveryFrameReplaceable, Frame
<1> QED BY <1>6 DEF FreshLru, up, down

\* Taking a frame out of the table leaves the other frames where they are.
LEMMA UnchainedFacts ==
  ASSUME ChainOK, NEW f \in Frame
  PROVE  /\ Unchained(f) \in [Chains -> Seq(Frame)]
         /\ \A h \in Chains : /\ IsInjective(Unchained(f)[h])
                              /\ ToSet(Unchained(f)[h]) = ToSet(chain[h]) \ {f}
<1>1. DOMAIN chain = Chains /\ \A h \in Chains : chain[h] \in Seq(Frame) /\ IsInjective(chain[h])
  BY DEF ChainOK
<1>2. ASSUME NEW h \in Chains
      PROVE  /\ Without(chain[h], f) \in Seq(Frame) /\ IsInjective(Without(chain[h], f))
             /\ ToSet(Without(chain[h], f)) = ToSet(chain[h]) \ {f}
  <2> DEFINE c == chain[h]
  <2>1. c \in Seq(Frame) /\ IsInjective(c)
    BY <1>1
  <2> HIDE DEF c
  <2>2. /\ Without(c, f) \in Seq(Frame) /\ IsInjective(Without(c, f))
        /\ ToSet(Without(c, f)) = ToSet(c) \ {f}
    BY ONLY <2>1, WithoutFacts
  <2> QED BY <2>2 DEF c
<1>3. Unchained(f) = [h \in Chains |-> Without(chain[h], f)]
  BY <1>1 DEF Unchained
<1> QED BY ONLY <1>2, <1>3

\* replace: the frame is taken out and put first in the chain of its new key.
LEMMA FrameRekeyed ==
  ASSUME ChainOK, NEW f \in Frame, NEW k \in Key,
         key' = [key EXCEPT ![f] = k],
         chain' = [Unchained(f) EXCEPT ![HashOf(k)] = Cons(f, @)]
  PROVE  ChainOK'
<1> DEFINE u == Unchained(f)
<1>1. /\ u \in [Chains -> Seq(Frame)]
      /\ \A h \in Chains : /\ IsInjective(u[h])
                           /\ ToSet(u[h]) = ToSet(chain[h]) \ {f}
  BY UnchainedFacts
<1>2. chain' = [u EXCEPT ![HashOf(k)] = Cons(f, @)]
  OBVIOUS
<1> HIDE DEF u
<1>3. k # None
  BY NoneIsNoKey
<1>4. /\ key \in [Frame -> Key \cup {None}]
      /\ \A h \in Chains : ToSet(chain[h]) = {g \in Frame : key[g] # None /\ HashOf(key[g]) = h}
  BY DEF ChainOK
<1>5. /\ key' \in [Frame -> Key \cup {None}]
      /\ \A g \in Frame : key'[g] = IF g = f THEN k ELSE key[g]
  BY <1>4
<1>6. ASSUME NEW h \in Chains
      PROVE  /\ chain'[h] \in Seq(Frame) /\ IsInjective(chain'[h])
             /\ ToSet(chain'[h]) = {g \in Frame : key'[g] # None /\ HashOf(key'[g]) = h}
  <2> DEFINE c == u[h]
  <2>1. c \in Seq(Frame) /\ IsInjective(c) /\ ToSet(c) = ToSet(chain[h]) \ {f}
    BY <1>1
  <2>2. ToSet(c) = {g \in Frame \ {f} : key[g] # None /\ HashOf(key[g]) = h}
    BY <2>1, <1>4
  <2>3. CASE h = HashOf(k)
    <3>1. chain'[h] = Cons(f, c)
      BY <1>1, <1>2, <2>3
    <3> HIDE DEF c
    <3>2. f \in Frame /\ f \notin ToSet(c)
      BY <2>1
    <3>3. /\ Cons(f, c) \in Seq(Frame) /\ IsInjective(Cons(f, c))
          /\ ToSet(Cons(f, c)) = ToSet(c) \cup {f}
      BY ONLY <2>1, <3>2, ConsFacts
    <3>4. ToSet(c) \cup {f} = {g \in Frame : key'[g] # None /\ HashOf(key'[g]) = h}
      BY ONLY <2>2, <2>3, <1>3, <1>5, f \in Frame
    <3> QED BY ONLY <3>1, <3>3, <3>4
  <2>4. CASE h # HashOf(k)
    <3>1. chain'[h] = c
      BY <1>1, <1>2, <2>4
    <3> HIDE DEF c
    <3>2. ToSet(c) = {g \in Frame : key'[g] # None /\ HashOf(key'[g]) = h}
      BY ONLY <2>2, <2>4, <1>5, f \in Frame
    <3> QED BY ONLY <2>1, <3>1, <3>2
  <2> QED BY <2>3, <2>4
<1>7. chain' \in [Chains -> Seq(Frame)]
  <2>1. chain' = [h \in Chains |-> chain'[h]]
    BY <1>1, <1>2
  <2> QED BY ONLY <2>1, <1>6
<1> QED BY <1>5, <1>6, <1>7 DEF ChainOK, Chains, Frame, Key, Id, HashOf

-----------------------------------------------------------------------------
(* The operations.                                                          *)

\* Nothing of the table, the list or the marks changes.
LEMMA TablesKept ==
  ASSUME TableInv, UNCHANGED <<key, chain, lru, dirty>>
  PROVE  TableInv'
BY DEF TableInv, TableTypeOK, PageTableCoherent, EveryFrameReplaceable, HashOf

LEMMA TouchKeeps ==
  ASSUME TableInv, NEW f \in Frame, Touch(f), UNCHANGED <<key, chain>>,
         dirty' = dirty \/ dirty' = Marked(f)
  PROVE  TableInv'
<1>1. ListOK /\ DirtyOK /\ ChainOK
  BY TableParts
<1>2. ListOK'
  BY <1>1, ListMoved DEF Touch
<1>3. DirtyOK'
  BY <1>1 DEF DirtyOK, Marked
<1>4. ChainOK'
  BY <1>1 DEF ChainOK, HashOf
<1> QED BY <1>2, <1>3, <1>4 DEF TableInv, TableTypeOK, PageTableCoherent, ListOK, DirtyOK, ChainOK

\* findIndex returns a frame that has the key.
LEMMA FindIndexFacts ==
  ASSUME TableInv, NEW id \in Id, NEW p \in Pages, FindIndex(<<id, p>>) # None
  PROVE  FindIndex(<<id, p>>) \in Frame /\ key[FindIndex(<<id, p>>)] = <<id, p>>
<1> DEFINE k    == <<id, p>>
           c    == chain[HashOf(k)]
           hits == {i \in DOMAIN c : key[c[i]] = k}
<1>1. hits # {} /\ FindIndex(k) = c[Min(hits)]
  BY DEF FindIndex
<1>2. HashOf(k) \in Chains
  BY FileAssumption, BufAssumption DEF HashOf, Chains, Id
<1>3. c \in Seq(Frame)
  BY <1>2 DEF TableInv, TableTypeOK
<1>4. hits \subseteq Nat
  BY <1>3
<1>5. Min(hits) \in hits
  BY ONLY <1>1, <1>4, LeastNat
<1> DEFINE i == Min(hits)
<1>6. i \in DOMAIN c /\ key[c[i]] = k /\ FindIndex(k) = c[i]
  BY <1>1, <1>5
<1> HIDE DEF c, i
<1>7. c[i] \in Frame
  BY ONLY <1>3, <1>6
<1> QED BY ONLY <1>6, <1>7

LEMMA FetchKeeps ==
  ASSUME TableInv, NEW id \in Id, NEW p \in Pages, Fetch(id, p),
         dirty' \in {dirty, Cleaned(Victim), Marked(Victim)}
  PROVE  TableInv'
<1> DEFINE f == Victim
           k == <<id, p>>
<1>1. ListOK /\ DirtyOK /\ ChainOK
  BY TableParts
<1>2. f \in Frame /\ ListOK'
  BY <1>1, VictimFound DEF Fetch
<1>3. k \in Key /\ k # None
  BY NoneIsNoKey DEF Key
<1>4. key' = [key EXCEPT ![f] = k] /\ chain' = [Unchained(f) EXCEPT ![HashOf(k)] = Cons(f, @)]
  BY DEF Fetch
<1>5. dirty' \in {dirty, Cleaned(f), Marked(f)}
  OBVIOUS
<1> HIDE DEF f, k
<1>6. ChainOK'
  BY ONLY <1>1, <1>2, <1>3, <1>4, FrameRekeyed
<1>7. DirtyOK'
  BY <1>1, <1>2, <1>5 DEF DirtyOK, Cleaned, Marked, Frame
<1> QED BY <1>2, <1>6, <1>7
        DEF TableInv, TableTypeOK, PageTableCoherent, ListOK, DirtyOK, ChainOK

LEMMA GiveBackKeeps ==
  ASSUME TableInv, NEW f \in Frame, GiveBack(f)
  PROVE  TableInv'
<1>1. ListOK /\ DirtyOK /\ ChainOK
  BY TableParts
<1>2. ListOK'
  BY <1>1, ListMoved DEF GiveBack
<1>3. /\ key \in [Frame -> Key \cup {None}]
      /\ \A h \in Chains : ToSet(chain[h]) = {g \in Frame : key[g] # None /\ HashOf(key[g]) = h}
  BY <1>1 DEF ChainOK
<1>4. /\ key' \in [Frame -> Key \cup {None}]
      /\ \A g \in Frame : key'[g] = IF g = f THEN None ELSE key[g]
  BY <1>3 DEF GiveBack
<1>5. DirtyOK'
  BY <1>1 DEF DirtyOK, GiveBack, Cleaned, Frame
<1>6. /\ chain' \in [Chains -> Seq(Frame)]
      /\ \A h \in Chains : IsInjective(chain'[h]) /\ ToSet(chain'[h]) = ToSet(chain[h]) \ {f}
  BY <1>1, UnchainedFacts DEF GiveBack
<1>7. \A h \in Chains : ToSet(chain'[h]) = {g \in Frame : key'[g] # None /\ HashOf(key'[g]) = h}
  BY ONLY <1>3, <1>4, <1>6
<1> QED BY <1>2, <1>4, <1>5, <1>6, <1>7
        DEF TableInv, TableTypeOK, PageTableCoherent, ListOK, DirtyOK, ChainOK

\* What Init, close and a restart leave.
LEMMA EmptyTables ==
  /\ Init => TableInv
  /\ Restart => TableInv'
  /\ TableInv /\ CloseAll => TableInv'
<1> DEFINE noKey   == [f \in Frame |-> None]
           noChain == [h \in Chains |-> << >>]
           clean   == [f \in Frame |-> FALSE]
<1>1. /\ noKey \in [Frame -> Key \cup {None}]
      /\ noChain \in [Chains -> Seq(Frame)]
      /\ clean \in [Frame -> BOOLEAN]
  OBVIOUS
<1>2. \A h \in Chains : IsInjective(noChain[h]) /\ ToSet(noChain[h]) = {}
  BY DEF IsInjective, ToSet
<1>3. \A f \in Frame : noKey[f] = None /\ ~clean[f]
  OBVIOUS
<1>4. Init => TableInv
  <2> SUFFICES ASSUME Init PROVE TableInv
    OBVIOUS
  <2>1. key = noKey /\ chain = noChain /\ dirty = clean /\ lru = FreshLru
    BY DEF Init, Chains
  <2>2. ListOK
    BY <2>1, FreshLists
  <2> HIDE DEF noKey, noChain, clean
  <2>3. DirtyOK /\ ChainOK
    BY <2>1, <1>1, <1>2, <1>3 DEF DirtyOK, ChainOK
  <2> QED BY <2>2, <2>3, TableParts
<1>5. ASSUME key' = noKey, chain' = noChain, dirty' = clean, ListOK' PROVE TableInv'
  <2> HIDE DEF noKey, noChain, clean
  <2>1. DirtyOK' /\ ChainOK'
    BY <1>5, <1>1, <1>2, <1>3 DEF DirtyOK, ChainOK
  <2> QED BY <1>5, <2>1
      DEF TableInv, TableTypeOK, PageTableCoherent, ListOK, DirtyOK, ChainOK
<1>6. Restart => TableInv'
  <2> SUFFICES ASSUME Restart PROVE TableInv'
    OBVIOUS
  <2>1. key' = noKey /\ chain' = noChain /\ dirty' = clean /\ lru' = FreshLru
    BY DEF Restart, Chains
  <2> QED BY <2>1, <1>5, FreshLists
<1>7. TableInv /\ CloseAll => TableInv'
  <2> SUFFICES ASSUME TableInv, CloseAll PROVE TableInv'
    OBVIOUS
  <2>1. DOMAIN chain = Chains
    BY DEF TableInv, TableTypeOK
  <2>2. /\ key' = noKey /\ chain' = noChain /\ dirty' = clean
        /\ lru' = [k \in 1 .. Cap |-> Cap - k]
    BY <2>1 DEF CloseAll
  <2> QED BY <2>2, <1>5, FreshLists
<1> QED BY <1>4, <1>6, <1>7

LEMMA NextKeeps == TableInv /\ [Next]_vars => TableInv'
<1> SUFFICES ASSUME TableInv, [Next]_vars PROVE TableInv'
  OBVIOUS
<1>1. ASSUME NEW id \in Id, NEW p \in Pages, GetPage(id, p) PROVE TableInv'
  <2>1. CASE GetPageHit(id, p)
    <3> DEFINE f == FindIndex(<<id, p>>)
    <3>1. f \in Frame
      BY <2>1, FindIndexFacts DEF GetPageHit, Hit
    <3>2. Touch(f) /\ UNCHANGED <<key, chain, dirty>>
      BY <2>1 DEF GetPageHit
    <3> HIDE DEF f
    <3> QED BY <3>1, <3>2, TouchKeeps
  <2>2. CASE GetPageMiss(id, p)
    BY <2>2, FetchKeeps DEF GetPageMiss, FetchAndRead
  <2> QED BY <1>1, <2>1, <2>2 DEF GetPage
<1>2. ASSUME NEW id \in Id, NEW p \in Pages, AllocPage(id, p) PROVE TableInv'
  BY <1>2, FetchKeeps DEF AllocPage, FetchAndRead
<1>3. ASSUME NEW id \in Id, NEW p \in Pages, NEW c \in Contents, AllocAndFill(id, p, c)
      PROVE  TableInv'
  BY <1>3, FetchKeeps DEF AllocAndFill
<1>4. ASSUME NEW f \in Frame, Access(f) \/ MarkDirty(f) PROVE TableInv'
  <2>1. Touch(f) /\ UNCHANGED <<key, chain>> /\ (dirty' = dirty \/ dirty' = Marked(f))
    BY <1>4 DEF Access, MarkDirty
  <2> QED BY <2>1, TouchKeeps
<1>5. ASSUME NEW f \in Frame, WriteBack(f) \/ Release(f) PROVE TableInv'
  BY <1>5, GiveBackKeeps DEF WriteBack, Release
<1>6. ASSUME NEW f \in Frame, Pin(f) \/ Unpin(f) PROVE TableInv'
  BY <1>6, TablesKept DEF Pin, Unpin
<1>7. ASSUME NEW f \in Frame, NEW c \in Contents, Modify(f, c) PROVE TableInv'
  BY <1>7, TouchKeeps DEF Modify
<1>8. ASSUME NEW f \in Frame, NEW c \in Contents, Overwrite(f, c) PROVE TableInv'
  BY <1>8, TablesKept DEF Overwrite
<1>9. ASSUME NEW f \in Frame, UseFrame(f) PROVE TableInv'
  BY <1>4, <1>5, <1>6, <1>7, <1>8, <1>9 DEF UseFrame
<1>10. OpenIds \subseteq Id
  BY DEF OpenIds
<1>11. ASSUME NEW id \in Id, CloseFile(id) PROVE TableInv'
  BY <1>11, TablesKept DEF CloseFile
<1>12. ASSUME NEW n \in Names, CreateFile(n) \/ DeleteFile(n) \/ OpenFile(n) PROVE TableInv'
  <2>1. UNCHANGED <<key, chain, lru, dirty>>
    BY <1>12 DEF CreateFile, DeleteFile, OpenFile, bufVars, vars
  <2> QED BY <2>1, TablesKept
<1>13. CASE UNCHANGED vars
  BY <1>13, TablesKept DEF vars, bufVars
<1> QED BY <1>1, <1>2, <1>3, <1>9, <1>10, <1>11, <1>12, <1>13, EmptyTables DEF Next

(* For every number of frames and chains, and whatever frames callers mark, *)
(* write back and release: a frame is in the chain its key hashes to and in *)
(* no other, and without a key it is in none (MyHashMap.h,                  *)
(* BufPageManager.h:46-250).                                                *)
THEOREM TableStaysCoherent == Spec => []PageTableCoherent
<1>1. TableInv => PageTableCoherent
  BY DEF TableInv
<1> QED BY <1>1, EmptyTables, NextKeeps, PTL DEF Spec

(* For every number of frames: the replacement list holds each frame once,  *)
(* so find loops only while every frame is pinned (FindReplace.h).          *)
THEOREM ListStaysComplete == Spec => []EveryFrameReplaceable
<1>1. TableInv => EveryFrameReplaceable
  BY DEF TableInv
<1> QED BY <1>1, EmptyTables, NextKeeps, PTL DEF Spec

\* The disciplined callers take only steps that any caller may take.
LEMMA DisciplinedIsNext == DisciplinedNext => Next
BY DEF DisciplinedNext, PageStep, Next, UseFrame

(* The same holds of the disciplined callers, whose runs check the cache.   *)
THEOREM DisciplinedTables ==
  DisciplinedSpec => [](PageTableCoherent /\ EveryFrameReplaceable)
<1>1. TableInv => PageTableCoherent /\ EveryFrameReplaceable
  BY DEF TableInv
<1>2. TableInv /\ [DisciplinedNext]_vars => TableInv'
  BY DisciplinedIsNext, NextKeeps
<1> QED BY <1>1, <1>2, EmptyTables, PTL DEF DisciplinedSpec

-----------------------------------------------------------------------------
(* Pins.                                                                    *)

\* What find passes over is not given another page.
LEMMA VictimNotPinned ==
  ASSUME ListOK, \E g \in Frame : ~pinned[g]
  PROVE  ~pinned[Victim]
<1> DEFINE free == {k \in DOMAIN lru : ~pinned[lru[k]]}
<1>1. lru \in Seq(Frame) /\ ToSet(lru) = Frame
  BY DEF ListOK, EveryFrameReplaceable
<1>2. free \subseteq Nat /\ free # {}
  BY <1>1 DEF ToSet
<1>3. Min(free) \in free
  BY ONLY <1>2, LeastNat
<1> QED BY <1>3 DEF Victim, VictimPos

\* Every frame has a place for its page and its pin.
FramesInv == /\ TableInv
             /\ mem = [f \in Frame |-> mem[f]]
             /\ pinned = [f \in Frame |-> pinned[f]]

PinKept(f) == pinned[f] /\ key[f] # None /\ key'[f] # None
                => key'[f] = key[f] /\ (mem'[f] = mem[f] \/ dirty'[f])

LEMMA FetchKeepsPins ==
  ASSUME FramesInv, NEW id \in Id, NEW p \in Pages, Fetch(id, p),
         NEW c, mem' = [mem EXCEPT ![Victim] = c]
  PROVE  /\ \A f \in Frame : PinKept(f)
         /\ mem' = [f \in Frame |-> mem'[f]]
         /\ pinned' = [f \in Frame |-> pinned'[f]]
<1> DEFINE v == Victim
<1>1. v \in Frame /\ ~pinned[v]
  BY TableParts, VictimFound, VictimNotPinned DEF FramesInv, Fetch
<1>2. key' = [key EXCEPT ![v] = <<id, p>>] /\ mem' = [mem EXCEPT ![v] = c] /\ pinned' = pinned
  BY DEF Fetch
<1>3. key \in [Frame -> Key \cup {None}]
  BY DEF FramesInv, TableInv, TableTypeOK
<1>4. mem = [f \in Frame |-> mem[f]] /\ pinned = [f \in Frame |-> pinned[f]]
  BY DEF FramesInv
<1> HIDE DEF v
<1>5. \A f \in Frame : f # v => key'[f] = key[f] /\ mem'[f] = mem[f]
  BY ONLY <1>2, <1>3, <1>4
<1>6. mem' = [f \in Frame |-> mem'[f]]
  BY ONLY <1>2, <1>4
<1> QED BY <1>1, <1>2, <1>4, <1>5, <1>6 DEF PinKept

LEMMA PageStepKeepsPins ==
  ASSUME FramesInv, PageStep
  PROVE  /\ \A f \in Frame : PinKept(f)
         /\ mem' = [f \in Frame |-> mem'[f]]
         /\ pinned' = [f \in Frame |-> pinned'[f]]
<1> DEFINE Goal == /\ \A f \in Frame : PinKept(f)
                   /\ mem' = [f \in Frame |-> mem'[f]]
                   /\ pinned' = [f \in Frame |-> pinned'[f]]
<1>0. /\ key \in [Frame -> Key \cup {None}]
      /\ dirty \in [Frame -> BOOLEAN]
      /\ mem = [f \in Frame |-> mem[f]]
      /\ pinned = [f \in Frame |-> pinned[f]]
  BY DEF FramesInv, TableInv, TableTypeOK
<1>1. ASSUME NEW id \in Id, NEW p \in Pages, FetchAndRead(id, p) PROVE Goal
  <2>1. PICK c : mem' = [mem EXCEPT ![Victim] = c]
    BY <1>1 DEF FetchAndRead
  <2> QED BY <1>1, <2>1, FetchKeepsPins DEF FetchAndRead
<1>2. ASSUME NEW id \in Id, NEW p \in Pages, NEW c \in Contents, AllocAndFill(id, p, c)
      PROVE  Goal
  BY <1>2, FetchKeepsPins DEF AllocAndFill
<1>3. ASSUME UNCHANGED <<key, mem, pinned>> PROVE Goal
  BY <1>0, <1>3 DEF PinKept
<1>4. ASSUME NEW g \in Frame, NEW c \in Contents, Modify(g, c) PROVE Goal
  <2>1. mem' = [mem EXCEPT ![g] = c] /\ dirty' = [dirty EXCEPT ![g] = TRUE]
        /\ UNCHANGED <<key, pinned>>
    BY <1>4 DEF Modify, Marked
  <2> QED BY <1>0, <2>1 DEF PinKept
<1>5. ASSUME NEW g \in Frame, GiveBack(g) PROVE Goal
  <2>1. key' = [key EXCEPT ![g] = None] /\ UNCHANGED <<mem, pinned>>
    BY <1>5 DEF GiveBack
  <2> QED BY <1>0, <2>1 DEF PinKept
<1>6. ASSUME NEW g \in Frame, Pin(g) \/ Unpin(g) PROVE Goal
  <2>1. /\ pinned' \in {[pinned EXCEPT ![g] = TRUE], [pinned EXCEPT ![g] = FALSE]}
        /\ UNCHANGED <<key, mem>>
    BY <1>6 DEF Pin, Unpin
  <2> QED BY <1>0, <2>1 DEF PinKept
<1>7. ASSUME CloseAll PROVE Goal
  <2>1. key' = [f \in Frame |-> None] /\ UNCHANGED <<mem, pinned>>
    BY <1>7 DEF CloseAll
  <2> QED BY <1>0, <2>1 DEF PinKept
<1>8. ASSUME Restart PROVE Goal
  <2>1. /\ key' = [f \in Frame |-> None]
        /\ mem' = [f \in Frame |-> None] /\ pinned' = [f \in Frame |-> FALSE]
    BY <1>8 DEF Restart
  <2> QED BY <2>1 DEF PinKept
<1>9. OpenIds \subseteq Id
  BY DEF OpenIds
<1>10. ASSUME NEW id \in Id, NEW p \in Pages, GetPage(id, p) \/ AllocPage(id, p) PROVE Goal
  <2>1. UNCHANGED <<key, mem, pinned>> \/ FetchAndRead(id, p)
    BY <1>10 DEF GetPage, GetPageHit, GetPageMiss, AllocPage
  <2> QED BY <2>1, <1>1, <1>3
<1>11. ASSUME NEW g \in Frame, WriteBack(g) \/ Release(g) PROVE Goal
  BY <1>5, <1>11 DEF WriteBack, Release
<1>12. ASSUME NEW g \in Frame, Access(g) PROVE Goal
  BY <1>3, <1>12 DEF Access
<1> HIDE DEF Goal
<1>13. Goal
  BY <1>2, <1>4, <1>6, <1>7, <1>8, <1>9, <1>10, <1>11, <1>12 DEF PageStep
<1> QED BY <1>13 DEF Goal

(* For every number of frames: while callers keep to the frames they were   *)
(* given, a page pinned by its caller is never replaced by another          *)
(* (BufPageManager.h:46-62).                                                *)
THEOREM PinsHold == DisciplinedSpec => PinnedStays
<1>1. Init => FramesInv
  BY EmptyTables DEF Init, FramesInv
<1>2. ASSUME FramesInv, [DisciplinedNext]_vars
      PROVE  FramesInv' /\ \A f \in Frame : PinKept(f)
  <2>1. TableInv'
    BY <1>2, DisciplinedIsNext, NextKeeps DEF FramesInv
  <2>2. CASE PageStep
    BY <1>2, <2>1, <2>2, PageStepKeepsPins DEF FramesInv, Frame
  <2>3. ASSUME UNCHANGED <<key, mem, pinned>> PROVE FramesInv' /\ \A f \in Frame : PinKept(f)
    BY <1>2, <2>1, <2>3 DEF FramesInv, PinKept
  <2>4. ASSUME NEW id \in Id, CloseFile(id) PROVE FramesInv' /\ \A f \in Frame : PinKept(f)
    BY <2>3, <2>4 DEF CloseFile
  <2>5. ASSUME NEW n \in Names, CreateFile(n) \/ DeleteFile(n) \/ OpenFile(n)
        PROVE  FramesInv' /\ \A f \in Frame : PinKept(f)
    BY <2>3, <2>5 DEF CreateFile, DeleteFile, OpenFile, bufVars, vars
  <2>6. CASE UNCHANGED vars
    BY <2>3, <2>6 DEF vars, bufVars
  <2> QED BY <1>2, <2>2, <2>4, <2>5, <2>6 DEF DisciplinedNext, OpenIds
<1>3. FramesInv /\ [DisciplinedNext]_vars => FramesInv'
  BY <1>2
<1>4. FramesInv /\ [DisciplinedNext]_vars
        => [\A f \in Frame : pinned[f] /\ key[f] # None /\ key'[f] # None
              => key'[f] = key[f] /\ (mem'[f] = mem[f] \/ dirty'[f])]_vars
  BY <1>2 DEF PinKept
<1> QED BY <1>1, <1>3, <1>4, PTL DEF DisciplinedSpec, PinnedStays

-----------------------------------------------------------------------------
(* One copy of each page.  getPage takes a second frame for a page it finds *)
(* under another file's name, and an id is given to another file once it is *)
(* free.  Disciplined callers never meet this: no frame has a free id in    *)
(* its key, and every frame has the name its id is open under.              *)

NamesAgree ==
  \A n \in Names : nameToId[n] # None =>
    nameToId[n] \notin freeIds /\ idToName[nameToId[n]] = n

FramesNamed ==
  \A f \in Frame : key[f] # None =>
    key[f][1] \notin freeIds /\ frameName[f] = idToName[key[f][1]]

IdsInv ==
  /\ freeIds \subseteq Id
  /\ nameToId \in [Names -> Id \cup {None}]
  /\ idToName \in [Id -> Names \cup {None}]
  /\ frameName \in [Frame -> Names \cup {None}]
  /\ NamesAgree
  /\ FramesNamed

CacheInv == TableInv /\ IdsInv /\ OneFramePerPage

LEMMA NoneIsNoNumber == None \notin Id /\ None \notin Frame
BY FileAssumption, BufAssumption DEF Id, Frame

\* findIndex finds every page that is in a frame.
LEMMA NotFoundNotCached ==
  ASSUME TableInv, NEW id \in Id, NEW p \in Pages, FindIndex(<<id, p>>) = None
  PROVE  \A f \in Frame : key[f] # <<id, p>>
<1> DEFINE k    == <<id, p>>
           c    == chain[HashOf(k)]
           hits == {i \in DOMAIN c : key[c[i]] = k}
<1>1. k \in Key /\ k # None
  BY NoneIsNoKey DEF Key
<1>2. HashOf(k) \in Chains
  BY FileAssumption, BufAssumption DEF HashOf, Chains, Id
<1>3. DOMAIN chain = Chains
  BY DEF TableInv, TableTypeOK
<1>4. c \in Seq(Frame) /\ ToSet(c) = {f \in Frame : key[f] # None /\ HashOf(key[f]) = HashOf(k)}
  BY <1>2, <1>3 DEF TableInv, TableTypeOK, PageTableCoherent
<1>5. SUFFICES ASSUME NEW f \in Frame, key[f] = k PROVE FALSE
  OBVIOUS
<1>6. f \in ToSet(c)
  BY <1>1, <1>4, <1>5
<1>7. hits # {} /\ hits \subseteq Nat
  <2> HIDE DEF k, c
  <2>1. DOMAIN c \subseteq Nat
    BY ONLY <1>4
  <2>2. PICK i \in DOMAIN c : c[i] = f
    BY ONLY <1>6 DEF ToSet
  <2>3. i \in hits
    BY ONLY <1>5, <2>2
  <2> QED BY ONLY <2>1, <2>3
<1>8. Min(hits) \in hits
  BY ONLY <1>7, LeastNat
<1>9. c[Min(hits)] \in Frame
  <2> DEFINE i == Min(hits)
  <2>1. i \in DOMAIN c
    BY <1>8
  <2> HIDE DEF c, hits, i
  <2>2. c[i] \in Frame
    BY ONLY <1>4, <2>1
  <2> QED BY <2>2 DEF i
<1>10. FindIndex(k) = c[Min(hits)]
  BY <1>7 DEF FindIndex
<1> QED BY <1>9, <1>10, NoneIsNoNumber

\* With the ids as the discipline keeps them a page that is in a frame is hit.
LEMMA MissNotCached ==
  ASSUME TableInv, IdsInv, NEW id \in Id, NEW p \in Pages, ~Hit(id, p)
  PROVE  \A f \in Frame : key[f] # <<id, p>>
<1>1. CASE FindIndex(<<id, p>>) = None
  BY <1>1, NotFoundNotCached
<1>2. CASE FindIndex(<<id, p>>) # None
  <2> DEFINE f == FindIndex(<<id, p>>)
  <2>1. f \in Frame /\ key[f] = <<id, p>>
    BY <1>2, FindIndexFacts
  <2>2. key[f] # None
    BY <2>1, NoneIsNoKey DEF Key
  <2>3. frameName[f] = idToName[id]
    BY <2>1, <2>2 DEF IdsInv, FramesNamed
  <2> QED BY <1>2, <2>3 DEF Hit
<1> QED BY <1>1, <1>2

LEMMA FetchKeepsIds ==
  ASSUME TableInv, IdsInv, OneFramePerPage, NEW id \in OpenIds, NEW p \in Pages, Fetch(id, p),
         \A f \in Frame : key[f] # <<id, p>>
  PROVE  IdsInv' /\ OneFramePerPage'
<1> DEFINE v == Victim
<1>1. v \in Frame
  BY TableParts, VictimFound DEF Fetch
<1>2. id \in Id /\ id \notin freeIds
  <2>1. PICK n \in Names : nameToId[n] = id
    BY DEF OpenIds
  <2>2. id \in Id /\ nameToId[n] # None
    BY <2>1, NoneIsNoNumber DEF OpenIds
  <2> QED BY <2>1, <2>2 DEF IdsInv, NamesAgree
<1>3. /\ key' = [key EXCEPT ![v] = <<id, p>>]
      /\ frameName' = [frameName EXCEPT ![v] = idToName[id]]
      /\ UNCHANGED <<freeIds, nameToId, idToName>>
  BY DEF Fetch
<1>4. /\ key \in [Frame -> Key \cup {None}]
      /\ frameName \in [Frame -> Names \cup {None}]
      /\ idToName[id] \in Names \cup {None}
  BY <1>2 DEF TableInv, TableTypeOK, IdsInv
<1> HIDE DEF v
<1>5. /\ \A f \in Frame : key'[f] = IF f = v THEN <<id, p>> ELSE key[f]
      /\ \A f \in Frame : frameName'[f] = IF f = v THEN idToName[id] ELSE frameName[f]
      /\ frameName' \in [Frame -> Names \cup {None}]
  BY ONLY <1>1, <1>3, <1>4
<1>6. \A f \in Frame : key'[f] # None =>
        key'[f][1] \notin freeIds /\ frameName'[f] = idToName[key'[f][1]]
  <2>1. <<id, p>>[1] = id
    OBVIOUS
  <2> QED BY <1>2, <1>5, <2>1 DEF IdsInv, FramesNamed
<1>7. IdsInv'
  BY <1>3, <1>5, <1>6 DEF IdsInv, FramesNamed, NamesAgree, Frame, Id
<1>8. OneFramePerPage'
  BY <1>5 DEF OneFramePerPage
<1> QED BY <1>7, <1>8

\* Frames given back or left alone stay named for their file.
LEMMA KeysShrunk ==
  ASSUME IdsInv, OneFramePerPage,
         UNCHANGED <<freeIds, nameToId, idToName, frameName>>,
         \A f \in Frame : key'[f] = None \/ key'[f] = key[f]
  PROVE  IdsInv' /\ OneFramePerPage'
BY DEF IdsInv, OneFramePerPage, FramesNamed, NamesAgree

LEMMA PageStepKeepsIds ==
  ASSUME CacheInv, PageStep PROVE IdsInv' /\ OneFramePerPage'
<1> DEFINE Goal == IdsInv' /\ OneFramePerPage'
<1>0. TableInv /\ IdsInv /\ OneFramePerPage /\ key \in [Frame -> Key \cup {None}]
  BY DEF CacheInv, TableInv, TableTypeOK
<1>1. OpenIds \subseteq Id
  BY DEF OpenIds
<1>2. ASSUME UNCHANGED <<freeIds, nameToId, idToName, frameName, key>> PROVE Goal
  BY <1>0, <1>2, KeysShrunk
<1>3. ASSUME NEW id \in OpenIds, NEW p \in Pages, GetPage(id, p) PROVE Goal
  <2>1. CASE GetPageHit(id, p)
    BY <1>2, <2>1 DEF GetPageHit, fmVars
  <2>2. CASE GetPageMiss(id, p)
    <3>1. \A f \in Frame : key[f] # <<id, p>>
      BY <1>0, <1>1, <2>2, MissNotCached DEF GetPageMiss
    <3> QED BY <1>0, <2>2, <3>1, FetchKeepsIds DEF GetPageMiss, FetchAndRead
  <2> QED BY <1>3, <2>1, <2>2 DEF GetPage
<1>4. ASSUME NEW id \in OpenIds, NEW p \in Pages, FindIndex(<<id, p>>) = None,
             AllocPage(id, p)
      PROVE  Goal
  <2>1. \A f \in Frame : key[f] # <<id, p>>
    BY <1>0, <1>1, <1>4, NotFoundNotCached
  <2> QED BY <1>0, <1>4, <2>1, FetchKeepsIds DEF AllocPage, FetchAndRead
<1>5. ASSUME NEW id \in OpenIds, NEW p \in Pages, NEW c \in Contents,
             FindIndex(<<id, p>>) = None, AllocAndFill(id, p, c)
      PROVE  Goal
  <2>1. \A f \in Frame : key[f] # <<id, p>>
    BY <1>0, <1>1, <1>5, NotFoundNotCached
  <2> QED BY <1>0, <1>5, <2>1, FetchKeepsIds DEF AllocAndFill
<1>6. ASSUME NEW f \in Frame, NEW c \in Contents,
             Access(f) \/ Modify(f, c) \/ Pin(f) \/ Unpin(f)
      PROVE  Goal
  BY <1>2, <1>6 DEF Access, Modify, Pin, Unpin, fmVars
<1>7. ASSUME NEW f \in Frame, WriteBack(f) \/ Release(f) PROVE Goal
  <2>1. /\ key' = [key EXCEPT ![f] = None]
        /\ UNCHANGED <<freeIds, nameToId, idToName, frameName>>
    BY <1>7 DEF WriteBack, Release, GiveBack
  <2>2. \A g \in Frame : key'[g] = None \/ key'[g] = key[g]
    BY <1>0, <2>1
  <2> QED BY <1>0, <2>1, <2>2, KeysShrunk
<1>8. ASSUME CloseAll PROVE Goal
  <2>1. /\ key' = [f \in Frame |-> None]
        /\ UNCHANGED <<freeIds, nameToId, idToName, frameName>>
    BY <1>8 DEF CloseAll
  <2>2. \A g \in Frame : key'[g] = None \/ key'[g] = key[g]
    BY <2>1
  <2> QED BY <1>0, <2>1, <2>2, KeysShrunk
<1>9. ASSUME Restart PROVE Goal
  <2>1. /\ freeIds' = Id
        /\ nameToId' = [n \in Names |-> None]
        /\ idToName' = [id \in Id |-> None]
        /\ frameName' = [f \in Frame |-> None]
        /\ key' = [f \in Frame |-> None]
    BY <1>9 DEF Restart, AllFree
  <2> QED BY <2>1 DEF IdsInv, NamesAgree, FramesNamed, OneFramePerPage, Frame, Id
<1>10. ASSUME NEW f \in Frame, Access(f) \/ Pin(f) \/ Unpin(f) PROVE Goal
  BY <1>2, <1>10 DEF Access, Pin, Unpin, fmVars
<1> HIDE DEF Goal
<1>11. Goal
  BY <1>3, <1>4, <1>5, <1>6, <1>7, <1>8, <1>9, <1>10 DEF PageStep
<1> QED BY <1>11 DEF Goal

\* A file is closed when no frame holds a page of it: its id is free, its name
\* open no more.
LEMMA CloseKeepsIds ==
  ASSUME CacheInv, NEW id \in OpenIds, ~Cached(id), CloseFile(id)
  PROVE  IdsInv' /\ OneFramePerPage'
<1>1. /\ nameToId' = [n \in Names |-> IF n = idToName[id] THEN None ELSE nameToId[n]]
      /\ idToName' = [idToName EXCEPT ![id] = None]
      /\ freeIds' = freeIds \cup {id}
      /\ UNCHANGED <<key, frameName>>
  BY DEF CloseFile, Unnamed, FmCloseFile
<1>2. id \in Id
  BY DEF OpenIds
<1>3. /\ freeIds \subseteq Id
      /\ nameToId \in [Names -> Id \cup {None}]
      /\ idToName \in [Id -> Names \cup {None}]
      /\ frameName \in [Frame -> Names \cup {None}]
      /\ key \in [Frame -> Key \cup {None}]
  BY DEF CacheInv, IdsInv, TableInv, TableTypeOK
<1>4. ASSUME NEW n \in Names, nameToId'[n] # None
      PROVE  nameToId'[n] \notin freeIds' /\ idToName'[nameToId'[n]] = n
  <2>1. nameToId'[n] = nameToId[n] /\ n # idToName[id]
    BY <1>1, <1>4
  <2>2. nameToId[n] \in Id /\ nameToId[n] \notin freeIds /\ idToName[nameToId[n]] = n
    BY <1>3, <1>4, <2>1 DEF CacheInv, IdsInv, NamesAgree
  <2>3. nameToId[n] # id
    BY <2>1, <2>2
  <2> QED BY <1>1, <1>3, <2>1, <2>2, <2>3
<1>5. ASSUME NEW f \in Frame, key[f] # None
      PROVE  key[f][1] \notin freeIds' /\ frameName[f] = idToName'[key[f][1]]
  <2>1. key[f][1] # id
    BY <1>5 DEF Cached
  <2>2. key[f][1] \in Id /\ key[f][1] \notin freeIds /\ frameName[f] = idToName[key[f][1]]
    BY <1>3, <1>5 DEF CacheInv, IdsInv, FramesNamed, Key
  <2> QED BY <1>1, <1>3, <2>1, <2>2
<1>6. /\ nameToId' \in [Names -> Id \cup {None}]
      /\ idToName' \in [Id -> Names \cup {None}]
  BY <1>1, <1>3
<1>7. IdsInv'
  BY <1>1, <1>2, <1>3, <1>4, <1>5, <1>6 DEF IdsInv, NamesAgree, FramesNamed, Id, Frame
<1> QED BY <1>1, <1>7 DEF CacheInv, OneFramePerPage

\* A name is opened under an id no name and no frame has.
LEMMA OpenKeepsIds ==
  ASSUME CacheInv, NEW n \in Names, CanOpen(n), OpenFile(n)
  PROVE  IdsInv' /\ OneFramePerPage'
<1>0. IdsInv /\ OneFramePerPage
  BY DEF CacheInv
<1>1. CASE UNCHANGED vars
  BY <1>0, <1>1, KeysShrunk DEF vars, fmVars, bufVars
<1>2. CASE nameToId[n] = None /\ ~ UNCHANGED vars
  <2> DEFINE i == NextId
  <2>1. freeIds # {} /\ OpenSucceeds(n)
    BY <1>2 DEF CanOpen
  <2>2. /\ nameToId' = [nameToId EXCEPT ![n] = i]
        /\ idToName' = [idToName EXCEPT ![i] = n]
        /\ freeIds' = freeIds \ {i}
        /\ UNCHANGED <<key, frameName>>
    BY <1>2, <2>1 DEF OpenFile, FmOpenFile
  <2>3. freeIds \subseteq Nat
    BY <1>0, FileAssumption DEF IdsInv, Id
  <2>4. Min(freeIds) \in freeIds
    BY ONLY <2>1, <2>3, LeastNat
  <2>5. i \in freeIds /\ i \in Id
    BY <1>0, <2>1, <2>4 DEF NextId, IdsInv
  <2> HIDE DEF i
  <2>6. /\ freeIds \subseteq Id
        /\ nameToId \in [Names -> Id \cup {None}]
        /\ idToName \in [Id -> Names \cup {None}]
        /\ frameName \in [Frame -> Names \cup {None}]
        /\ key \in [Frame -> Key \cup {None}]
    BY DEF CacheInv, IdsInv, TableInv, TableTypeOK
  <2>7. ASSUME NEW m \in Names, nameToId'[m] # None
        PROVE  nameToId'[m] \notin freeIds' /\ idToName'[nameToId'[m]] = m
    <3>1. CASE m = n
      BY <2>2, <2>5, <2>6, <3>1
    <3>2. CASE m # n
      <4>1. nameToId'[m] = nameToId[m]
        BY <2>2, <2>6, <3>2
      <4>2. nameToId[m] \in Id /\ nameToId[m] \notin freeIds /\ idToName[nameToId[m]] = m
        BY <1>0, <2>6, <2>7, <4>1 DEF IdsInv, NamesAgree
      <4> QED BY <2>2, <2>5, <2>6, <4>1, <4>2
    <3> QED BY <3>1, <3>2
  <2>8. ASSUME NEW f \in Frame, key[f] # None
        PROVE  key[f][1] \notin freeIds' /\ frameName[f] = idToName'[key[f][1]]
    <3>1. key[f][1] \in Id /\ key[f][1] \notin freeIds /\ frameName[f] = idToName[key[f][1]]
      BY <1>0, <2>6, <2>8 DEF IdsInv, FramesNamed, Key
    <3> QED BY <2>2, <2>5, <2>6, <3>1
  <2>9. /\ nameToId' \in [Names -> Id \cup {None}]
        /\ idToName' \in [Id -> Names \cup {None}]
        /\ freeIds' \subseteq Id
    BY <2>2, <2>5, <2>6
  <2>10. IdsInv'
    BY <2>2, <2>6, <2>7, <2>8, <2>9 DEF IdsInv, NamesAgree, FramesNamed, Id, Frame
  <2> QED BY <1>0, <2>2, <2>10 DEF OneFramePerPage
<1> QED BY <1>1, <1>2 DEF OpenFile

LEMMA CacheInvStep == CacheInv /\ [DisciplinedNext]_vars => CacheInv'
<1> SUFFICES ASSUME CacheInv, [DisciplinedNext]_vars PROVE CacheInv'
  OBVIOUS
<1>1. TableInv'
  BY DisciplinedIsNext, NextKeeps DEF CacheInv
<1>2. CASE PageStep
  BY <1>1, <1>2, PageStepKeepsIds DEF CacheInv
<1>3. ASSUME NEW id \in OpenIds, ~Cached(id), CloseFile(id) PROVE CacheInv'
  BY <1>1, <1>3, CloseKeepsIds DEF CacheInv
<1>4. ASSUME UNCHANGED <<freeIds, nameToId, idToName, frameName, key>> PROVE CacheInv'
  BY <1>1, <1>4, KeysShrunk DEF CacheInv
<1>5. ASSUME NEW n \in Names, CreateFile(n) \/ DeleteFile(n) PROVE CacheInv'
  BY <1>4, <1>5 DEF CreateFile, DeleteFile, FmCreateFile, FmDeleteFile, bufVars
<1>6. ASSUME NEW n \in Names, CanOpen(n), OpenFile(n) PROVE CacheInv'
  BY <1>1, <1>6, OpenKeepsIds DEF CacheInv
<1>7. CASE UNCHANGED vars
  BY <1>4, <1>7 DEF vars, fmVars, bufVars
<1> QED BY <1>2, <1>3, <1>5, <1>6, <1>7 DEF DisciplinedNext

(* For every number of files, ids, frames and chains, under the discipline: *)
(* a page is never in two frames, although ids are recycled and getPage     *)
(* takes a second frame when the name of the first does not match           *)
(* (BufPageManager.h:108-131).                                              *)
THEOREM OneCopyPerPage == DisciplinedSpec => []OneFramePerPage
<1>1. Init => CacheInv
  <2> SUFFICES ASSUME Init PROVE CacheInv
    OBVIOUS
  <2>1. TableInv
    BY EmptyTables
  <2>2. /\ freeIds = Id
        /\ nameToId = [n \in Names |-> None]
        /\ idToName = [id \in Id |-> None]
        /\ frameName = [f \in Frame |-> None]
        /\ key = [f \in Frame |-> None]
    BY DEF Init, FmInit, AllFree
  <2> QED BY <2>1, <2>2 DEF CacheInv, IdsInv, NamesAgree, FramesNamed, OneFramePerPage
<1>2. CacheInv => OneFramePerPage
  BY DEF CacheInv
<1> QED BY <1>1, <1>2, CacheInvStep, PTL DEF DisciplinedSpec

-----------------------------------------------------------------------------
(* Numbers.                                                                 *)

LEMMA IdsAndDescs ==
  /\ Id \subseteq Nat /\ 0 \in Id
  /\ Desc \subseteq Nat
  /\ None \notin Id /\ None \notin Desc /\ None \notin Inode
  /\ IsFiniteSet(Desc) /\ Cardinality(Desc) = MaxDesc
  /\ Cardinality(Names) \in Nat
  /\ IsFiniteSet(Inode) /\ Cardinality(Inode) = Cardinality(Names) + MaxDesc
<1>1. MaxFileNum \in Nat \ {0} /\ MaxDesc \in Nat \ {0} /\ None \notin Int /\ IsFiniteSet(Names)
  BY FileAssumption
<1>2. Cardinality(Names) \in Nat
  BY <1>1, FS_CardinalityType
<1>3. IsFiniteSet(Desc) /\ Cardinality(Desc) = MaxDesc
  <2>1. 0 \in Int /\ MaxDesc - 1 \in Int
    BY <1>1
  <2>2. /\ IsFiniteSet(0 .. (MaxDesc - 1))
        /\ Cardinality(0 .. (MaxDesc - 1)) =
             IF 0 > MaxDesc - 1 THEN 0 ELSE (MaxDesc - 1) - 0 + 1
    BY ONLY <2>1, FS_Interval
  <2> QED BY <1>1, <2>2 DEF Desc
<1>4. IsFiniteSet(Inode) /\ Cardinality(Inode) = Cardinality(Names) + MaxDesc
  <2> DEFINE top == Cardinality(Names) + MaxDesc - 1
  <2>1. 0 \in Int /\ top \in Nat /\ top + 1 = Cardinality(Names) + MaxDesc
    BY <1>1, <1>2
  <2> HIDE DEF top
  <2>2. /\ IsFiniteSet(0 .. top)
        /\ Cardinality(0 .. top) = IF 0 > top THEN 0 ELSE top - 0 + 1
    BY ONLY <2>1, FS_Interval
  <2>3. Cardinality(0 .. top) = top + 1
    BY ONLY <2>1, <2>2
  <2> QED BY <2>1, <2>2, <2>3 DEF Inode, top
<1>5. Inode \subseteq Int
  BY <1>1, <1>2 DEF Inode
<1>6. Id \subseteq Nat /\ 0 \in Id /\ Desc \subseteq Nat
  BY <1>1 DEF Id, Desc
<1>7. None \notin Id /\ None \notin Desc /\ None \notin Inode
  <2>1. Id \subseteq Int /\ Desc \subseteq Int
    BY <1>1 DEF Id, Desc
  <2>2. None \notin Int
    BY <1>1
  <2> QED BY ONLY <2>1, <2>2, <1>5, Zenon
<1> QED BY ONLY <1>2, <1>3, <1>4, <1>6, <1>7

LEMMA LowestDescFree ==
  ASSUME FreeDescs # {}
  PROVE  Min(FreeDescs) \in Desc /\ osfd[Min(FreeDescs)] = None
<1>1. FreeDescs \subseteq Nat
  BY IdsAndDescs DEF FreeDescs
<1>2. Min(FreeDescs) \in FreeDescs
  BY ONLY <1>1, LeastNat, FreeDescs # {}
<1> QED BY <1>2 DEF FreeDescs

LEMMA NextIdFacts ==
  ASSUME freeIds \subseteq Id
  PROVE  NextId \in Id /\ (freeIds # {} => NextId \in freeIds)
<1>1. freeIds \subseteq Nat
  BY IdsAndDescs
<1>2. freeIds # {} => Min(freeIds) \in freeIds
  BY ONLY <1>1, LeastNat
<1> QED BY <1>2, IdsAndDescs DEF NextId

\* A name that is not linked and the descriptors leave an inode over.
LEMMA InodeLeft ==
  ASSUME FmTypeOK, NEW n \in Names, dir[n] = None
  PROVE  \E i \in Inode : /\ \A m \in Names : dir[m] # i
                          /\ \A d \in Desc : osfd[d] # i
<1> DEFINE others == Names \ {n}
           linked == {dir[m] : m \in others}
           inUse  == {osfd[d] : d \in Desc}
<1>1. IsFiniteSet(others) /\ Cardinality(others) = Cardinality(Names) - 1
  BY FileAssumption, FS_RemoveElement
<1>2. IsFiniteSet(linked) /\ Cardinality(linked) <= Cardinality(others)
  <2> DEFINE f == [m \in others |-> dir[m]]
  <2>1. f \in Surjection(others, linked)
    BY DEF Surjection
  <2> HIDE DEF f, linked, others
  <2> QED BY ONLY <1>1, <2>1, FS_Surjection
<1>3. IsFiniteSet(inUse) /\ Cardinality(inUse) <= Cardinality(Desc)
  <2> DEFINE f == [d \in Desc |-> osfd[d]]
  <2>1. f \in Surjection(Desc, inUse)
    BY DEF Surjection
  <2>2. IsFiniteSet(Desc)
    BY IdsAndDescs
  <2> HIDE DEF f, inUse
  <2> QED BY ONLY <2>1, <2>2, FS_Surjection
<1> DEFINE taken == linked \cup inUse
<1>4. /\ Cardinality(linked) \in Nat /\ Cardinality(inUse) \in Nat
      /\ Cardinality(linked \cap inUse) \in Nat
      /\ IsFiniteSet(taken) /\ Cardinality(taken) \in Nat
      /\ Cardinality(taken) =
           Cardinality(linked) + Cardinality(inUse) - Cardinality(linked \cap inUse)
  <2> HIDE DEF linked, inUse
  <2>1. IsFiniteSet(linked \cap inUse)
    BY ONLY <1>2, FS_Intersection
  <2>2. /\ IsFiniteSet(linked \cup inUse)
        /\ Cardinality(linked \cup inUse) =
             Cardinality(linked) + Cardinality(inUse) - Cardinality(linked \cap inUse)
    BY ONLY <1>2, <1>3, FS_Union
  <2> QED BY ONLY <1>2, <1>3, <2>1, <2>2, FS_CardinalityType
<1>5. Cardinality(taken) < Cardinality(Inode)
  <2>1. /\ Cardinality(Inode) = Cardinality(Names) + MaxDesc
        /\ Cardinality(Desc) = MaxDesc /\ Cardinality(Names) \in Nat
    BY IdsAndDescs
  <2>2. MaxDesc \in Nat
    BY FileAssumption
  <2> HIDE DEF taken, linked, inUse, others
  <2> QED BY ONLY <1>1, <1>2, <1>3, <1>4, <2>1, <2>2
<1>6. ~ (Inode \subseteq taken)
  <2> SUFFICES ASSUME Inode \subseteq taken PROVE FALSE
    OBVIOUS
  <2> HIDE DEF taken
  <2>1. Cardinality(Inode) <= Cardinality(taken)
    BY ONLY <1>4, Inode \subseteq taken, FS_Subset
  <2>2. Cardinality(Inode) \in Nat
    BY IdsAndDescs, FS_CardinalityType
  <2> QED BY ONLY <1>4, <1>5, <2>1, <2>2
<1>7. PICK i \in Inode : i \notin taken
  BY <1>6
<1>8. \A m \in Names : dir[m] # i
  BY <1>7, IdsAndDescs
<1>9. \A d \in Desc : osfd[d] # i
  BY <1>7
<1> QED BY <1>8, <1>9

LEMMA FreshInodeIsFresh ==
  ASSUME FmTypeOK, NEW n \in Names, dir[n] = None
  PROVE  /\ FreshInode \in Inode
         /\ \A m \in Names : dir[m] # FreshInode
         /\ \A d \in Desc : osfd[d] # FreshInode
BY InodeLeft DEF FreshInode

-----------------------------------------------------------------------------
(* Types.                                                                   *)

LEMMA InodeOfType ==
  ASSUME FmTypeOK, NEW id \in Id
  PROVE  InodeOf(id) \in Inode \cup {None}
BY DEF FmTypeOK, InodeOf

LEMMA WrittenType ==
  ASSUME FmTypeOK, NEW id \in Id, NEW p \in Pages, NEW c \in Contents
  PROVE  Written(id, p, c) \in [Inode -> [Pages -> Contents]]
<1>1. disk \in [Inode -> [Pages -> Contents]]
  BY DEF FmTypeOK
<1>2. CASE InodeOf(id) = None
  BY <1>1, <1>2 DEF Written
<1>3. CASE InodeOf(id) # None
  <2>1. InodeOf(id) \in Inode
    BY <1>3, InodeOfType
  <2> QED BY <1>1, <1>3, <2>1 DEF Written
<1> QED BY <1>2, <1>3

LEMMA ZeroFileType == ZeroFile \in [Pages -> Contents]
BY FileAssumption DEF ZeroFile

LEMMA ReclaimedType ==
  ASSUME FmTypeOK, NEW links, NEW descs
  PROVE  Reclaimed(links, descs) \in [Inode -> [Pages -> Contents]]
BY ZeroFileType DEF FmTypeOK, Reclaimed

LEMMA FilesKeepType ==
  ASSUME FmTypeOK, NEW n \in Names, NEW id \in Id,
         FmCreateFile(n) \/ FmDeleteFile(n) \/ FmOpenFile(n) \/ FmCloseFile(id)
  PROVE  FmTypeOK'
<1> USE DEF FmTypeOK
<1>1. CASE FmCreateFile(n)
  <2>1. CASE dir[n] = None
    <3>1. FreshInode \in Inode
      BY <2>1, FreshInodeIsFresh
    <3> QED BY <1>1, <2>1, <3>1 DEF FmCreateFile, Inode, Desc, Id
  <2>2. CASE dir[n] # None
    BY <1>1, <2>2, ZeroFileType DEF FmCreateFile, Inode, Desc, Id
  <2> QED BY <2>1, <2>2
<1>2. CASE FmDeleteFile(n)
  <2>1. disk' \in [Inode -> [Pages -> Contents]]
    BY <1>2, ReclaimedType DEF FmDeleteFile
  <2> QED BY <1>2, <2>1 DEF FmDeleteFile, Inode, Desc, Id
<1>3. CASE FmOpenFile(n)
  <2>1. NextId \in Id
    BY NextIdFacts
  <2>2. CASE OpenSucceeds(n)
    <3>1. Min(FreeDescs) \in Desc
      BY <2>2, LowestDescFree DEF OpenSucceeds
    <3> QED BY <1>3, <2>1, <2>2, <3>1 DEF FmOpenFile, Inode, Desc, Id
  <2>3. CASE ~OpenSucceeds(n)
    BY <1>3, <2>3 DEF FmOpenFile, Inode, Desc, Id
  <2> QED BY <2>2, <2>3
<1>4. CASE FmCloseFile(id)
  <2>1. disk' \in [Inode -> [Pages -> Contents]]
    BY <1>4, ReclaimedType DEF FmCloseFile
  <2> QED BY <1>4, <2>1 DEF FmCloseFile, Inode, Desc, Id
<1> QED BY <1>1, <1>2, <1>3, <1>4

\* A frame with a key has a page, so what is written out is a page.
KeyedHasPage == \A f \in Frame : key[f] # None => mem[f] # None

NamesTypeOK ==
  /\ nameToId \in [Names -> Id \cup {None}]
  /\ idToName \in [Id -> Names \cup {None}]
  /\ frameName \in [Frame -> Names \cup {None}]

FramesTypeOK ==
  /\ last \in Frame \cup {None}
  /\ pinned \in [Frame -> BOOLEAN]
  /\ mem \in [Frame -> Contents \cup {None}]
  /\ cur \in Frame \cup {None}

\* Types, with what the page table adds to them.
TypeInv == TableInv /\ FmTypeOK /\ NamesTypeOK /\ FramesTypeOK /\ KeyedHasPage

LEMMA TypeInvIsType == TypeInv => TypeOK
BY DEF TypeInv, TypeOK, NamesTypeOK, FramesTypeOK, TableInv, TableTypeOK, Chains

LEMMA WrittenFrameFacts ==
  ASSUME TypeInv, NEW f \in Frame, ToBeWritten(f)
  PROVE  /\ key[f] # None /\ key[f] \in Key /\ key[f][1] \in Id /\ key[f][2] \in Pages
         /\ mem[f] \in Contents
<1>1. key[f] # None /\ key[f] \in Key
  BY DEF ToBeWritten, TypeInv, TableInv, TableTypeOK
<1>2. mem[f] \in Contents
  BY <1>1 DEF TypeInv, KeyedHasPage, FramesTypeOK
<1> QED BY <1>1, <1>2 DEF Key

LEMMA WrittenOutType ==
  ASSUME TypeInv, NEW f \in Frame
  PROVE  WrittenOut(f) \in [Inode -> [Pages -> Contents]]
<1>1. FmTypeOK
  BY DEF TypeInv
<1>2. CASE ToBeWritten(f)
  BY <1>1, <1>2, WrittenFrameFacts, WrittenType DEF WrittenOut
<1>3. CASE ~ToBeWritten(f)
  BY <1>1, <1>3 DEF WrittenOut, FmTypeOK
<1> QED BY <1>2, <1>3

\* The frame fetchPage fills has room for the page afterwards.
LEMMA FetchKeepsType ==
  ASSUME TypeInv, NEW id \in Id, NEW p \in Pages, Fetch(id, p),
         NEW c \in Contents, mem' = [mem EXCEPT ![Victim] = c],
         last' \in {last, Victim}
  PROVE  FmTypeOK' /\ NamesTypeOK' /\ FramesTypeOK' /\ KeyedHasPage'
<1> DEFINE v == Victim
<1>1. v \in Frame
  BY TableParts, VictimFound DEF Fetch, TypeInv
<1>2. /\ key' = [key EXCEPT ![v] = <<id, p>>]
      /\ mem' = [mem EXCEPT ![v] = c]
      /\ frameName' = [frameName EXCEPT ![v] = idToName[id]]
      /\ cur' = v
      /\ last' \in {last, v}
      /\ disk' \in {disk, WrittenOut(v)}
      /\ UNCHANGED <<dir, osfd, fd, freeIds, nameToId, idToName, pinned>>
  BY DEF Fetch
<1> HIDE DEF v
<1>3. FmTypeOK'
  BY <1>1, <1>2, WrittenOutType DEF TypeInv, FmTypeOK, Inode, Desc, Id
<1>4. NamesTypeOK'
  BY <1>1, <1>2 DEF TypeInv, NamesTypeOK, Id, Frame
<1>5. FramesTypeOK'
  BY <1>1, <1>2 DEF TypeInv, FramesTypeOK, Frame
<1>6. key \in [Frame -> Key \cup {None}] /\ c # None
  BY FileAssumption DEF TypeInv, TableInv, TableTypeOK
<1>7. KeyedHasPage'
  BY <1>1, <1>2, <1>6 DEF TypeInv, FramesTypeOK, KeyedHasPage, Frame
<1> QED BY <1>3, <1>4, <1>5, <1>7

\* What is read into the frame is a page.
LEMMA PageReadIn ==
  ASSUME TypeInv, NEW id \in Id, NEW p \in Pages, FetchAndRead(id, p)
  PROVE  \E c \in Contents : mem' = [mem EXCEPT ![Victim] = c]
<1> DEFINE source == IF InodeOf(id) # None THEN {disk'[InodeOf(id)][p]}
                     ELSE IF mem[Victim] # None THEN {mem[Victim]} ELSE Contents
<1>1. Victim \in Frame
  BY TableParts, VictimFound DEF FetchAndRead, Fetch, TypeInv
<1>2. disk' \in {disk, WrittenOut(Victim)}
  BY DEF FetchAndRead, Fetch
<1>3. disk' \in [Inode -> [Pages -> Contents]]
  BY <1>1, <1>2, WrittenOutType DEF TypeInv, FmTypeOK
<1>4. InodeOf(id) \in Inode \cup {None}
  BY InodeOfType DEF TypeInv
<1>5. mem[Victim] \in Contents \cup {None}
  BY <1>1 DEF TypeInv, FramesTypeOK
<1>6. source \subseteq Contents
  BY <1>3, <1>4, <1>5
<1>7. \E c \in source : mem' = [mem EXCEPT ![Victim] = c]
  BY DEF FetchAndRead
<1> QED BY <1>6, <1>7

LEMMA CloseAllKeepsType ==
  ASSUME TypeInv, CloseAll
  PROVE  disk' \in [Inode -> [Pages -> Contents]]
<1> DEFINE writers(i, p) == {f \in Frame : /\ ToBeWritten(f)
                                          /\ key[f][2] = p
                                          /\ InodeOf(key[f][1]) = i}
           left(i, p) == IF writers(i, p) = {} THEN disk[i][p] ELSE mem[Max(writers(i, p))]
<1>1. ASSUME NEW i \in Inode, NEW p \in Pages PROVE left(i, p) \in Contents
  <2> DEFINE w == writers(i, p)
  <2>1. CASE w = {}
    BY <2>1 DEF TypeInv, FmTypeOK
  <2>2. CASE w # {}
    <3>1. w \subseteq Nat /\ Cap \in Nat /\ \A y \in w : y <= Cap
      BY BufAssumption DEF Frame
    <3>2. w \subseteq Frame /\ \A f \in w : ToBeWritten(f)
      OBVIOUS
    <3> HIDE DEF w
    <3>3. Max(w) \in w
      BY ONLY <2>2, <3>1, GreatestNat
    <3>4. Max(w) \in Frame /\ ToBeWritten(Max(w))
      BY ONLY <3>2, <3>3
    <3>5. mem[Max(w)] \in Contents
      BY <3>4, WrittenFrameFacts
    <3> QED BY <2>2, <3>5 DEF w
  <2> QED BY <2>1, <2>2
<1>2. disk' = [i \in Inode |-> [p \in Pages |-> left(i, p)]]
  BY DEF CloseAll
<1> HIDE DEF left, writers
<1> QED BY <1>1, <1>2

\* The parts of TypeInv apart from the page table.
PartsOK == FmTypeOK /\ NamesTypeOK /\ FramesTypeOK /\ KeyedHasPage

\* The steps of Next on pages and frames.
FrameStep ==
  \/ \E id \in OpenIds, p \in Pages :
       GetPage(id, p) \/ AllocPage(id, p) \/ \E c \in Contents : AllocAndFill(id, p, c)
  \/ \E f \in Frame : UseFrame(f)
  \/ CloseAll
  \/ Restart

LEMMA FrameStepKeepsType ==
  ASSUME TypeInv, FrameStep
  PROVE  PartsOK'
<1> DEFINE Goal == PartsOK'
<1>0. /\ FmTypeOK /\ NamesTypeOK /\ FramesTypeOK /\ KeyedHasPage
      /\ key \in [Frame -> Key \cup {None}]
      /\ dirty \in [Frame -> BOOLEAN]
  BY DEF TypeInv, TableInv, TableTypeOK
<1> USE DEF PartsOK
<1>1. ASSUME NEW id \in Id, NEW p \in Pages, FetchAndRead(id, p) PROVE Goal
  <2>1. PICK c \in Contents : mem' = [mem EXCEPT ![Victim] = c]
    BY <1>1, PageReadIn
  <2> QED BY <1>1, <2>1, FetchKeepsType DEF FetchAndRead
<1>2. ASSUME NEW id \in Id, NEW p \in Pages, NEW c \in Contents, AllocAndFill(id, p, c)
      PROVE  Goal
  BY <1>2, FetchKeepsType DEF AllocAndFill
<1>3. ASSUME NEW id \in Id, NEW p \in Pages, GetPage(id, p) \/ AllocPage(id, p) PROVE Goal
  <2>1. CASE GetPageHit(id, p)
    <3> DEFINE f == FindIndex(<<id, p>>)
    <3>1. f \in Frame
      BY <2>1, FindIndexFacts DEF GetPageHit, Hit, TypeInv
    <3>2. /\ last' = f /\ cur' = f
          /\ UNCHANGED <<fmVars, nameToId, idToName, frameName, key, pinned, mem>>
      BY <2>1 DEF GetPageHit, Touch
    <3> HIDE DEF f
    <3> QED BY <1>0, <3>1, <3>2
        DEF fmVars, FmTypeOK, NamesTypeOK, FramesTypeOK, KeyedHasPage, Inode, Desc, Id, Frame
  <2>2. CASE FetchAndRead(id, p)
    BY <1>1, <2>2
  <2> QED BY <1>3, <2>1, <2>2 DEF GetPage, GetPageMiss, AllocPage
<1>4. ASSUME NEW f \in Frame, Access(f) \/ MarkDirty(f) \/ Pin(f) \/ Unpin(f) PROVE Goal
  <2>1. /\ last' \in {last, f}
        /\ pinned' \in [Frame -> BOOLEAN]
        /\ UNCHANGED <<fmVars, nameToId, idToName, frameName, key, mem, cur>>
    BY <1>0, <1>4 DEF Access, MarkDirty, Pin, Unpin, Touch, FramesTypeOK
  <2> QED BY <1>0, <2>1
      DEF fmVars, FmTypeOK, NamesTypeOK, FramesTypeOK, KeyedHasPage, Inode, Desc, Id, Frame
<1>5. ASSUME NEW f \in Frame, NEW c \in Contents, Modify(f, c) \/ Overwrite(f, c) PROVE Goal
  <2>1. /\ last' \in {last, f} /\ mem' = [mem EXCEPT ![f] = c]
        /\ UNCHANGED <<fmVars, nameToId, idToName, frameName, key, pinned, cur>>
    BY <1>5 DEF Modify, Overwrite, Touch
  <2>2. c # None
    BY FileAssumption
  <2> QED BY <1>0, <2>1, <2>2
      DEF fmVars, FmTypeOK, NamesTypeOK, FramesTypeOK, KeyedHasPage, Inode, Desc, Id, Frame
<1>6. ASSUME NEW f \in Frame, WriteBack(f) \/ Release(f) PROVE Goal
  <2>1. disk' \in [Inode -> [Pages -> Contents]]
    BY <1>0, <1>6, WrittenOutType DEF WriteBack, Release, FmTypeOK
  <2>2. /\ key' = [key EXCEPT ![f] = None]
        /\ cur' \in {None, cur}
        /\ UNCHANGED <<dir, osfd, fd, freeIds, nameToId, idToName, frameName, last, pinned, mem>>
    BY <1>6 DEF WriteBack, Release, GiveBack
  <2>3. \A g \in Frame : key'[g] # None => key[g] # None
    BY <1>0, <2>2
  <2> QED BY <1>0, <2>1, <2>2, <2>3
      DEF FmTypeOK, NamesTypeOK, FramesTypeOK, KeyedHasPage, Inode, Desc, Id, Frame
<1>7. ASSUME CloseAll PROVE Goal
  <2>1. disk' \in [Inode -> [Pages -> Contents]]
    BY <1>7, CloseAllKeepsType
  <2>2. /\ key' = [f \in Frame |-> None] /\ cur' = None
        /\ UNCHANGED <<dir, osfd, fd, freeIds, nameToId, idToName, frameName, last, pinned, mem>>
    BY <1>7 DEF CloseAll
  <2> QED BY <1>0, <2>1, <2>2
      DEF FmTypeOK, NamesTypeOK, FramesTypeOK, KeyedHasPage, Inode, Desc, Id, Frame
<1>8. ASSUME Restart PROVE Goal
  <2>1. disk' \in [Inode -> [Pages -> Contents]]
    BY <1>0, <1>8, ReclaimedType DEF Restart
  <2>2. FmTypeOK'
    BY <1>0, <1>8, <2>1 DEF Restart, AllFree, FmTypeOK, Inode, Desc, Id
  <2>3. NamesTypeOK' /\ FramesTypeOK' /\ KeyedHasPage'
    BY <1>8 DEF Restart, NamesTypeOK, FramesTypeOK, KeyedHasPage, Id, Frame
  <2> QED BY <2>2, <2>3
<1>9. OpenIds \subseteq Id
  BY DEF OpenIds
<1> HIDE DEF Goal
<1>10. Goal
  BY <1>2, <1>3, <1>4, <1>5, <1>6, <1>7, <1>8, <1>9 DEF FrameStep, UseFrame
<1> QED BY <1>10 DEF Goal

\* Opening, closing, creating and deleting files.
LEMMA FileStepKeepsType ==
  ASSUME TypeInv, NEW n \in Names, NEW id \in Id,
         CreateFile(n) \/ DeleteFile(n) \/ OpenFile(n) \/ CloseFile(id)
  PROVE  PartsOK'
<1>0. /\ FmTypeOK /\ NamesTypeOK /\ FramesTypeOK /\ KeyedHasPage
  BY DEF TypeInv
<1>1. FmTypeOK'
  <2>1. CASE UNCHANGED vars
    BY <1>0, <2>1 DEF vars, fmVars, FmTypeOK, Inode, Desc, Id
  <2>2. CASE ~ UNCHANGED vars
    BY <1>0, <2>2, FilesKeepType DEF CreateFile, DeleteFile, OpenFile, CloseFile
  <2> QED BY <2>1, <2>2
<1>2. NextId \in Id
  BY <1>0, NextIdFacts DEF FmTypeOK
<1>3. NamesTypeOK'
  BY <1>0, <1>2 DEF CreateFile, DeleteFile, OpenFile, CloseFile, Unnamed, NamesTypeOK,
                    vars, bufVars, Id, Frame
<1>4. FramesTypeOK' /\ KeyedHasPage'
  BY <1>0 DEF CreateFile, DeleteFile, OpenFile, CloseFile, vars, bufVars,
              FramesTypeOK, KeyedHasPage, Frame
<1> QED BY <1>1, <1>3, <1>4 DEF PartsOK

LEMMA TypeInvStep == TypeInv /\ [Next]_vars => TypeInv'
<1> SUFFICES ASSUME TypeInv, [Next]_vars PROVE TypeInv'
  OBVIOUS
<1>1. TableInv'
  BY NextKeeps DEF TypeInv
<1>2. CASE UNCHANGED vars
  <2>1. PartsOK
    BY DEF TypeInv, PartsOK
  <2>2. PartsOK'
    BY <1>2, <2>1 DEF vars, fmVars, bufVars, PartsOK, FmTypeOK, NamesTypeOK, FramesTypeOK,
                      KeyedHasPage, Inode, Desc, Id, Frame
  <2> QED BY <1>1, <2>2 DEF TypeInv, PartsOK
<1>3. ASSUME FrameStep PROVE PartsOK'
  BY <1>3, FrameStepKeepsType
<1>4. 0 \in Id /\ OpenIds \subseteq Id
  BY IdsAndDescs DEF OpenIds
<1>5. ASSUME NEW n \in Names, CreateFile(n) \/ DeleteFile(n) \/ OpenFile(n) PROVE PartsOK'
  BY <1>4, <1>5, FileStepKeepsType
<1>6. ASSUME NEW id \in OpenIds, CloseFile(id) PROVE PartsOK'
  <2>1. PICK n \in Names : nameToId[n] = id
    BY DEF OpenIds
  <2> QED BY <1>4, <1>6, <2>1, FileStepKeepsType
<1>7. CASE PartsOK'
  BY <1>1, <1>7 DEF TypeInv, PartsOK
<1> QED BY <1>2, <1>3, <1>5, <1>6, <1>7 DEF Next, FrameStep

LEMMA TypeInvInit == Init => TypeInv
<1> SUFFICES ASSUME Init PROVE TypeInv
  OBVIOUS
<1>1. TableInv
  BY EmptyTables
<1>2. FmTypeOK
  BY ZeroFileType DEF Init, FmInit, AllFree, FmTypeOK
<1>3. NamesTypeOK /\ FramesTypeOK /\ KeyedHasPage
  BY DEF Init, NamesTypeOK, FramesTypeOK, KeyedHasPage
<1> QED BY <1>1, <1>2, <1>3 DEF TypeInv

(* For every number of files, ids, descriptors, frames and chains, whatever *)
(* callers do: file ids, descriptors, inodes and frames stay in the ranges  *)
(* of the arrays they index, and what is read, written out or synchronised  *)
(* is a page (FileManager.h:84-161, BufPageManager.h:46-250).               *)
THEOREM BufTypeCorrect == Spec => []TypeOK
BY TypeInvInit, TypeInvStep, TypeInvIsType, PTL DEF Spec

-----------------------------------------------------------------------------
(* The disciplined callers.  Ids and descriptors belong to each other, and  *)
(* an open name to the file it is linked to; then every page in a frame is  *)
(* one of a linked file, and what is written out goes there.                *)

LinksDistinct == \A m, n \in Names : dir[m] # None /\ dir[m] = dir[n] => m = n

IdsHaveFiles ==
  /\ \A id \in Id \ freeIds : fd[id] # None /\ osfd[fd[id]] # None
  /\ \A i, j \in Id \ freeIds : fd[i] = fd[j] => i = j
  /\ \A d \in Desc : osfd[d] # None => \E id \in Id \ freeIds : fd[id] = d

OpenNamesLinked ==
  \A n \in Names : nameToId[n] # None => dir[n] # None /\ InodeOf(nameToId[n]) = dir[n]

UnusedIsZero ==
  \A i \in Inode : (\A n \in Names : dir[n] # i) /\ (\A d \in Desc : osfd[d] # i)
                     => disk[i] = ZeroFile

CurHasKey == cur # None => key[cur] # None
KeysOpen  == \A f \in Frame : key[f] # None => key[f][1] \in OpenIds

CleanIsOnDisk ==
  \A f \in Frame : key[f] # None /\ ~dirty[f]
                      => mem[f] = disk[InodeOf(key[f][1])][key[f][2]]

FilesInv == LinksDistinct /\ IdsHaveFiles /\ OpenNamesLinked /\ UnusedIsZero
PagesInv == CurHasKey /\ KeysOpen /\ CleanIsOnDisk

DirtyKeyed == \A f \in Frame : dirty[f] => key[f] # None

\* What the discipline keeps, of files and of the pages in frames.
StoreInv == TypeInv /\ CacheInv /\ DirtyKeyed /\ FilesInv /\ PagesInv

\* Held frames have a key, so what the disciplined callers mark has one, and
\* whatever takes a frame's key away or replaces it cleans the frame.
LEMMA DirtyKeyedStep ==
  ASSUME TableInv, DirtyKeyed, [DisciplinedNext]_vars
  PROVE  DirtyKeyed'
<1>0. /\ key \in [Frame -> Key \cup {None}]
      /\ dirty \in [Frame -> BOOLEAN]
  BY DEF TableInv, TableTypeOK
<1>1. ASSUME UNCHANGED <<key, dirty>> PROVE DirtyKeyed'
  BY <1>1 DEF DirtyKeyed
<1>2. ASSUME NEW id \in OpenIds, NEW p \in Pages, Fetch(id, p),
             dirty' \in {dirty, Cleaned(Victim), Marked(Victim)}
      PROVE  DirtyKeyed'
  <2>1. id \in Id
    BY DEF OpenIds
  <2> DEFINE v == Victim
             k == <<id, p>>
  <2>2. v \in Frame /\ k # None
    BY <1>2, <2>1, TableParts, VictimFound, NoneIsNoKey DEF Fetch, Key
  <2>3. key' = [key EXCEPT ![v] = k] /\ dirty' \in {dirty, Cleaned(v), Marked(v)}
    BY <1>2 DEF Fetch
  <2> HIDE DEF v, k
  <2> QED BY <1>0, <2>2, <2>3 DEF DirtyKeyed, Cleaned, Marked
<1>3. ASSUME NEW id \in OpenIds, NEW p \in Pages, NEW c \in Contents,
             GetPage(id, p) \/ AllocPage(id, p) \/ AllocAndFill(id, p, c)
      PROVE  DirtyKeyed'
  <2>1. CASE GetPageHit(id, p)
    BY <1>1, <2>1 DEF GetPageHit
  <2>2. CASE FetchAndRead(id, p)
    BY <1>2, <2>2 DEF FetchAndRead
  <2>3. CASE AllocAndFill(id, p, c)
    BY <1>2, <2>3 DEF AllocAndFill
  <2> QED BY <1>3, <2>1, <2>2, <2>3 DEF GetPage, GetPageMiss, AllocPage
<1>4. ASSUME NEW f \in Frame, Held(f), NEW c \in Contents, Modify(f, c) PROVE DirtyKeyed'
  BY <1>0, <1>4 DEF DirtyKeyed, Held, Modify, Marked
<1>5. ASSUME NEW f \in Frame, GiveBack(f) PROVE DirtyKeyed'
  BY <1>0, <1>5 DEF DirtyKeyed, GiveBack, Cleaned
<1>6. ASSUME NEW f \in Frame, Access(f) \/ Pin(f) \/ Unpin(f) PROVE DirtyKeyed'
  BY <1>1, <1>6 DEF Access, Pin, Unpin
<1>7. ASSUME CloseAll \/ Restart PROVE DirtyKeyed'
  BY <1>7 DEF DirtyKeyed, CloseAll, Restart
<1>8. ASSUME NEW id \in OpenIds, CloseFile(id) PROVE DirtyKeyed'
  BY <1>1, <1>8 DEF CloseFile
<1>9. ASSUME NEW n \in Names, CreateFile(n) \/ DeleteFile(n) \/ OpenFile(n) PROVE DirtyKeyed'
  BY <1>1, <1>9 DEF CreateFile, DeleteFile, OpenFile, vars, bufVars
<1>10. CASE UNCHANGED vars
  BY <1>1, <1>10 DEF vars, bufVars
<1>11. ASSUME PageStep PROVE DirtyKeyed'
  <2>1. Contents # {}
    BY FileAssumption
  <2> QED BY <1>3, <1>4, <1>5, <1>6, <1>7, <1>11, <2>1 DEF PageStep, WriteBack, Release
<1> QED BY <1>8, <1>9, <1>10, <1>11 DEF DisciplinedNext

\* A dirty frame has a place in a file and a page to be written there.
LEMMA DirtyFrameFacts ==
  ASSUME StoreInv, NEW f \in Frame, dirty[f]
  PROVE  /\ key[f] # None /\ key[f] \in Key /\ key[f][1] \in Id /\ key[f][2] \in Pages
         /\ mem[f] \in Contents /\ ToBeWritten(f)
<1>1. ToBeWritten(f)
  BY DEF StoreInv, DirtyKeyed, ToBeWritten
<1> QED BY <1>1, WrittenFrameFacts DEF StoreInv

\* An open id reaches the file of the one name that has it.
LEMMA OpenIdFacts ==
  ASSUME StoreInv, NEW id \in OpenIds
  PROVE  /\ id \in Id /\ id \notin freeIds
         /\ idToName[id] \in Names /\ nameToId[idToName[id]] = id
         /\ InodeOf(id) \in Inode /\ InodeOf(id) # None
         /\ dir[idToName[id]] = InodeOf(id)
<1>1. PICK n \in Names : nameToId[n] = id
  BY DEF OpenIds
<1>2. id \in Id /\ id # None
  BY NoneIsNoNumber DEF OpenIds
<1>3. id \notin freeIds /\ idToName[id] = n
  BY <1>1, <1>2 DEF StoreInv, CacheInv, IdsInv, NamesAgree
<1>4. dir[n] # None /\ InodeOf(id) = dir[n]
  BY <1>1, <1>2 DEF StoreInv, FilesInv, OpenNamesLinked
<1>5. dir[n] \in Inode \cup {None}
  BY DEF StoreInv, TypeInv, FmTypeOK
<1> QED BY <1>1, <1>2, <1>3, <1>4, <1>5

LEMMA OpenIdsApart ==
  ASSUME StoreInv, NEW i \in OpenIds, NEW j \in OpenIds, InodeOf(i) = InodeOf(j)
  PROVE  i = j
<1>1. idToName[i] = idToName[j]
  BY OpenIdFacts DEF StoreInv, FilesInv, LinksDistinct
<1> QED BY <1>1, OpenIdFacts

LEMMA KeyFacts ==
  ASSUME StoreInv, NEW f \in Frame, key[f] # None
  PROVE  /\ key[f] = <<key[f][1], key[f][2]>>
         /\ key[f][1] \in OpenIds /\ key[f][2] \in Pages
<1>1. key[f] \in Key
  BY DEF StoreInv, TypeInv, TableInv, TableTypeOK
<1> QED BY <1>1 DEF Key, StoreInv, PagesInv, KeysOpen

\* The disk once a frame is written out, page by page.
LEMMA WrittenOutFacts ==
  ASSUME StoreInv, NEW f \in Frame
  PROVE  /\ WrittenOut(f) \in [Inode -> [Pages -> Contents]]
         /\ \A i \in Inode, p \in Pages :
              WrittenOut(f)[i][p] = IF dirty[f] /\ InodeOf(key[f][1]) = i /\ key[f][2] = p
                                    THEN mem[f] ELSE disk[i][p]
<1>1. disk \in [Inode -> [Pages -> Contents]]
  BY DEF StoreInv, TypeInv, FmTypeOK
<1>2. WrittenOut(f) \in [Inode -> [Pages -> Contents]]
  BY WrittenOutType DEF StoreInv
<1>3. CASE ~dirty[f]
  BY <1>2, <1>3 DEF WrittenOut, ToBeWritten
<1>4. CASE dirty[f]
  <2> DEFINE j == InodeOf(key[f][1])
             q == key[f][2]
  <2>1. key[f] # None
    BY <1>4, DirtyFrameFacts DEF StoreInv
  <2>2. key[f][1] \in OpenIds /\ q \in Pages
    BY <2>1, KeyFacts
  <2>3. j \in Inode /\ j # None
    BY <2>2, OpenIdFacts
  <2>4. WrittenOut(f) = [disk EXCEPT ![j][q] = mem[f]]
    BY <1>4, <2>3, DirtyFrameFacts DEF WrittenOut, Written
  <2> HIDE DEF j, q
  <2>5. \A i \in Inode, p \in Pages :
          WrittenOut(f)[i][p] = IF j = i /\ q = p THEN mem[f] ELSE disk[i][p]
    BY <1>1, <2>2, <2>3, <2>4
  <2> QED BY <1>2, <1>4, <2>5 DEF j, q
<1> QED BY <1>3, <1>4

\* Writing one frame out changes no page another frame holds.
LEMMA OtherFramesKeepTheirPage ==
  ASSUME StoreInv, NEW f \in Frame, NEW g \in Frame, g # f, key[g] # None
  PROVE  WrittenOut(f)[InodeOf(key[g][1])][key[g][2]] = disk[InodeOf(key[g][1])][key[g][2]]
<1>1. key[g][1] \in OpenIds /\ key[g][2] \in Pages /\ InodeOf(key[g][1]) \in Inode
  BY KeyFacts, OpenIdFacts
<1>2. SUFFICES ASSUME dirty[f], InodeOf(key[f][1]) = InodeOf(key[g][1]), key[f][2] = key[g][2]
               PROVE  FALSE
  BY <1>1, WrittenOutFacts
<1>3. key[f] # None
  BY <1>2, DirtyFrameFacts DEF StoreInv
<1>4. key[f][1] = key[g][1]
  BY <1>1, <1>2, <1>3, KeyFacts, OpenIdsApart
<1>5. key[f] = key[g]
  BY <1>2, <1>3, <1>4, KeyFacts
<1> QED BY <1>3, <1>5 DEF StoreInv, CacheInv, OneFramePerPage

\* Nothing unlinked is written, so what nothing refers to stays empty.
LEMMA WritesAreLinked ==
  ASSUME StoreInv, disk' \in [Inode -> [Pages -> Contents]], UNCHANGED <<dir, osfd>>,
         \A i \in Inode, p \in Pages :
           disk'[i][p] = disk[i][p] \/ \E f \in Frame : dirty[f] /\ InodeOf(key[f][1]) = i
  PROVE  UnusedIsZero'
<1>1. SUFFICES ASSUME NEW i \in Inode, \A n \in Names : dir[n] # i, \A d \in Desc : osfd[d] # i
               PROVE  disk'[i] = ZeroFile
  BY DEF UnusedIsZero, Inode, Desc, ZeroFile
<1>2. disk[i] = ZeroFile
  BY <1>1 DEF StoreInv, FilesInv, UnusedIsZero
<1>3. ASSUME NEW f \in Frame, dirty[f] PROVE InodeOf(key[f][1]) # i
  <2>1. key[f][1] \in OpenIds
    BY <1>3, DirtyFrameFacts, KeyFacts DEF StoreInv
  <2> QED BY <1>1, <2>1, OpenIdFacts
<1>4. \A p \in Pages : disk'[i][p] = disk[i][p]
  BY <1>3
<1> QED BY <1>2, <1>4 DEF ZeroFile

\* What the files are to the frames does not change while pages are used.
LEMMA FilesStay ==
  ASSUME StoreInv, UNCHANGED <<dir, osfd, fd, freeIds, nameToId>>
  PROVE  LinksDistinct' /\ IdsHaveFiles' /\ OpenNamesLinked'
BY DEF StoreInv, FilesInv, LinksDistinct, IdsHaveFiles, OpenNamesLinked, InodeOf, Id, Desc

\* A page is fetched: the frame it goes to holds what the file has, or is dirty.
LEMMA FetchKeepsPages ==
  ASSUME StoreInv, NEW id \in OpenIds, NEW p \in Pages, Fetch(id, p),
         NEW c \in Contents, mem' = [mem EXCEPT ![Victim] = c],
         \/ dirty' = Marked(Victim)
         \/ /\ c = disk'[InodeOf(id)][p]
            /\ dirty' = IF mem[Victim] = None THEN dirty ELSE Cleaned(Victim)
  PROVE  FilesInv' /\ PagesInv'
<1> DEFINE v == Victim
           k == <<id, p>>
<1>1. v \in Frame
  BY TableParts, VictimFound DEF Fetch, StoreInv, TypeInv
<1>2. /\ key' = [key EXCEPT ![v] = k]
      /\ mem' = [mem EXCEPT ![v] = c]
      /\ cur' = v
      /\ disk' = IF mem[v] = None THEN disk ELSE WrittenOut(v)
      /\ UNCHANGED <<dir, osfd, fd, freeIds, nameToId, idToName>>
  BY DEF Fetch
<1>3. \/ dirty' = [dirty EXCEPT ![v] = TRUE]
      \/ /\ c = disk'[InodeOf(id)][p]
         /\ dirty' \in {dirty, [dirty EXCEPT ![v] = FALSE]}
  BY DEF Marked, Cleaned
<1> HIDE DEF v
<1>4. /\ key \in [Frame -> Key \cup {None}]
      /\ mem \in [Frame -> Contents \cup {None}]
      /\ dirty \in [Frame -> BOOLEAN]
      /\ disk \in [Inode -> [Pages -> Contents]]
  BY DEF StoreInv, TypeInv, TableInv, TableTypeOK, FramesTypeOK, FmTypeOK
<1>5. k \in Key /\ k # None /\ k[1] = id /\ k[2] = p
  BY NoneIsNoKey DEF Key, OpenIds
<1> HIDE DEF k
<1>6. disk' \in [Inode -> [Pages -> Contents]]
  BY <1>1, <1>2, <1>4, WrittenOutFacts
<1>7. \A i \in Inode, q \in Pages :
        disk'[i][q] = disk[i][q] \/ (dirty[v] /\ InodeOf(key[v][1]) = i)
  BY <1>1, <1>2, WrittenOutFacts
<1>8. UnusedIsZero'
  BY <1>1, <1>2, <1>6, <1>7, WritesAreLinked
<1>9. FilesInv'
  BY <1>2, <1>8, FilesStay DEF FilesInv
<1>10. CurHasKey' /\ KeysOpen'
  <2>1. OpenIds' = OpenIds
    BY <1>2 DEF OpenIds, Id
  <2>2. \A g \in Frame : key'[g] = IF g = v THEN k ELSE key[g]
    BY <1>2, <1>4
  <2> QED BY <1>1, <1>2, <1>5, <2>1, <2>2 DEF StoreInv, PagesInv, KeysOpen, CurHasKey, Frame
<1>11. ASSUME NEW g \in Frame, key'[g] # None, ~dirty'[g]
       PROVE  mem'[g] = disk'[InodeOf(key'[g][1])][key'[g][2]]
  <2>1. CASE g = v
    <3>1. key'[g] = k /\ mem'[g] = c
      BY <1>1, <1>2, <1>4, <2>1
    <3>2. c = disk'[InodeOf(id)][p]
      BY <1>1, <1>3, <1>4, <1>11, <2>1
    <3> QED BY <1>5, <3>1, <3>2
  <2>2. CASE g # v
    <3>1. key'[g] = key[g] /\ mem'[g] = mem[g] /\ dirty'[g] = dirty[g]
      BY <1>1, <1>2, <1>3, <1>4, <2>2
    <3>2. mem[g] = disk[InodeOf(key[g][1])][key[g][2]]
      BY <1>11, <3>1 DEF StoreInv, PagesInv, CleanIsOnDisk
    <3>3. disk'[InodeOf(key[g][1])][key[g][2]] = disk[InodeOf(key[g][1])][key[g][2]]
      BY <1>1, <1>2, <1>11, <2>2, <3>1, OtherFramesKeepTheirPage
    <3> QED BY <3>1, <3>2, <3>3
  <2> QED BY <2>1, <2>2
<1>12. CleanIsOnDisk'
  <2>1. UNCHANGED <<fd, osfd>>
    BY <1>2
  <2>2. \A i : InodeOf(i)' = InodeOf(i)
    BY <2>1 DEF InodeOf
  <2> QED BY <1>11, <2>2 DEF CleanIsOnDisk, Frame
<1> QED BY <1>9, <1>10, <1>12 DEF PagesInv

\* Frames are marked, pinned or given back and nothing is written but a page
\* whose frame is given back.
LEMMA FramesGivenBack ==
  ASSUME StoreInv, UNCHANGED <<dir, osfd, fd, freeIds, nameToId, mem>>,
         disk' \in [Inode -> [Pages -> Contents]],
         \A i \in Inode, p \in Pages :
           disk'[i][p] = disk[i][p]
             \/ \E f \in Frame : dirty[f] /\ InodeOf(key[f][1]) = i,
         \A f \in Frame : key'[f] # None =>
           /\ key'[f] = key[f] /\ (~dirty'[f] => ~dirty[f])
           /\ disk'[InodeOf(key[f][1])][key[f][2]] = disk[InodeOf(key[f][1])][key[f][2]],
         cur' # None => key'[cur'] # None
  PROVE  FilesInv' /\ PagesInv'
<1>1. UnusedIsZero'
  BY WritesAreLinked
<1>2. FilesInv'
  BY <1>1, FilesStay DEF FilesInv
<1>3. OpenIds' = OpenIds
  BY DEF OpenIds, Id
<1>4. CurHasKey' /\ KeysOpen'
  BY <1>3 DEF StoreInv, PagesInv, KeysOpen, CurHasKey, Frame
<1>5. \A i : InodeOf(i)' = InodeOf(i)
  BY DEF InodeOf
<1>6. ASSUME NEW g \in Frame, key'[g] # None, ~dirty'[g]
      PROVE  mem'[g] = disk'[InodeOf(key'[g][1])][key'[g][2]]
  BY <1>6 DEF StoreInv, PagesInv, CleanIsOnDisk
<1>7. CleanIsOnDisk'
  BY <1>5, <1>6 DEF CleanIsOnDisk, Frame
<1> QED BY <1>2, <1>4, <1>7 DEF PagesInv

LEMMA PageStepKeepsPages ==
  ASSUME StoreInv, PageStep
  PROVE  FilesInv' /\ PagesInv'
<1> DEFINE Goal == FilesInv' /\ PagesInv'
<1>0. /\ key \in [Frame -> Key \cup {None}]
      /\ mem \in [Frame -> Contents \cup {None}]
      /\ dirty \in [Frame -> BOOLEAN]
      /\ disk \in [Inode -> [Pages -> Contents]]
      /\ CurHasKey
  BY DEF StoreInv, TypeInv, TableInv, TableTypeOK, FramesTypeOK, FmTypeOK, PagesInv
<1>1. ASSUME NEW id \in OpenIds, NEW p \in Pages, FetchAndRead(id, p) PROVE Goal
  <2>1. id \in Id /\ InodeOf(id) \in Inode /\ InodeOf(id) # None
    BY OpenIdFacts
  <2>2. mem' = [mem EXCEPT ![Victim] = disk'[InodeOf(id)][p]]
    BY <1>1, <2>1 DEF FetchAndRead
  <2>3. Victim \in Frame /\ disk' \in {disk, WrittenOut(Victim)}
    BY <1>1, TableParts, VictimFound DEF FetchAndRead, Fetch, StoreInv, TypeInv
  <2>4. disk'[InodeOf(id)][p] \in Contents
    BY <1>0, <2>1, <2>3, WrittenOutFacts
  <2> QED BY <1>1, <2>2, <2>4, FetchKeepsPages DEF FetchAndRead
<1>2. ASSUME NEW id \in OpenIds, NEW p \in Pages, NEW c \in Contents, AllocAndFill(id, p, c)
      PROVE  Goal
  BY <1>2, FetchKeepsPages DEF AllocAndFill
<1>3. ASSUME NEW id \in OpenIds, NEW p \in Pages, GetPage(id, p) \/ AllocPage(id, p) PROVE Goal
  <2>1. CASE GetPageHit(id, p)
    <3>1. id \in Id
      BY DEF OpenIds
    <3> DEFINE f == FindIndex(<<id, p>>)
    <3>2. f \in Frame /\ key[f] # None
      BY <2>1, <3>1, FindIndexFacts, NoneIsNoKey DEF GetPageHit, Hit, Key, StoreInv, TypeInv
    <3>3. cur' = f /\ UNCHANGED <<fmVars, nameToId, key, mem, dirty>>
      BY <2>1 DEF GetPageHit
    <3> HIDE DEF f
    <3> QED BY <1>0, <3>2, <3>3, FramesGivenBack DEF fmVars
  <2>2. CASE FetchAndRead(id, p)
    BY <1>1, <2>2
  <2> QED BY <1>3, <2>1, <2>2 DEF GetPage, GetPageMiss, AllocPage
<1>4. ASSUME NEW f \in Frame, Access(f) \/ Pin(f) \/ Unpin(f) PROVE Goal
  <2>1. UNCHANGED <<fmVars, nameToId, key, mem, dirty, cur>>
    BY <1>4 DEF Access, Pin, Unpin
  <2> QED BY <1>0, <2>1, FramesGivenBack DEF fmVars, CurHasKey
<1>5. ASSUME NEW f \in Frame, Held(f), NEW c \in Contents, Modify(f, c) PROVE Goal
  <2>1. /\ mem' = [mem EXCEPT ![f] = c] /\ dirty' = [dirty EXCEPT ![f] = TRUE]
        /\ UNCHANGED <<dir, disk, osfd, fd, freeIds, nameToId, key, cur>>
    BY <1>5 DEF Modify, Marked, fmVars
  <2>2. FilesInv'
    BY <1>0, <2>1, WritesAreLinked, FilesStay DEF FilesInv
  <2>3. CurHasKey' /\ KeysOpen' /\ CleanIsOnDisk'
    BY <1>0, <2>1 DEF StoreInv, PagesInv, CurHasKey, KeysOpen, CleanIsOnDisk, OpenIds, InodeOf,
                      Frame, Id
  <2> QED BY <2>2, <2>3 DEF PagesInv
<1>6. ASSUME NEW f \in Frame, WriteBack(f) \/ Release(f) PROVE Goal
  <2>1. /\ key' = [key EXCEPT ![f] = None] /\ dirty' = [dirty EXCEPT ![f] = FALSE]
        /\ cur' = IF f = cur THEN None ELSE cur
        /\ UNCHANGED <<dir, osfd, fd, freeIds, nameToId, mem>>
        /\ disk' \in {disk, WrittenOut(f)}
    BY <1>6 DEF WriteBack, Release, GiveBack, Cleaned
  <2>2. /\ disk' \in [Inode -> [Pages -> Contents]]
        /\ \A i \in Inode, p \in Pages :
             disk'[i][p] = disk[i][p] \/ (dirty[f] /\ InodeOf(key[f][1]) = i)
    BY <1>0, <2>1, WrittenOutFacts
  <2>3. ASSUME NEW g \in Frame, key'[g] # None
        PROVE  /\ key'[g] = key[g] /\ (~dirty'[g] => ~dirty[g])
               /\ disk'[InodeOf(key[g][1])][key[g][2]] = disk[InodeOf(key[g][1])][key[g][2]]
    <3>1. g # f /\ key'[g] = key[g] /\ dirty'[g] = dirty[g]
      BY <1>0, <2>1, <2>3
    <3> QED BY <2>1, <2>3, <3>1, OtherFramesKeepTheirPage
  <2>4. cur' # None => key'[cur'] # None
    BY <1>0, <2>1 DEF CurHasKey
  <2> QED BY <2>1, <2>2, <2>3, <2>4, FramesGivenBack
<1>7. ASSUME CloseAll PROVE Goal
  <2>1. /\ key' = [f \in Frame |-> None] /\ cur' = None
        /\ UNCHANGED <<dir, osfd, fd, freeIds, nameToId, mem>>
    BY <1>7 DEF CloseAll
  <2>2. disk' \in [Inode -> [Pages -> Contents]]
    BY <1>7, CloseAllKeepsType DEF StoreInv
  <2>3. ASSUME NEW i \in Inode, NEW p \in Pages
        PROVE  disk'[i][p] = disk[i][p] \/ \E f \in Frame : dirty[f] /\ InodeOf(key[f][1]) = i
    BY <1>7 DEF CloseAll, ToBeWritten
  <2> QED BY <2>1, <2>2, <2>3, FramesGivenBack
<1>8. ASSUME Restart PROVE Goal
  <2>1. /\ osfd' = [d \in Desc |-> None] /\ freeIds' = Id
        /\ nameToId' = [n \in Names |-> None] /\ key' = [f \in Frame |-> None]
        /\ cur' = None /\ dir' = dir /\ disk' = Reclaimed(dir, osfd')
    BY <1>8 DEF Restart, AllFree
  <2>2. PagesInv'
    BY <2>1 DEF PagesInv, CurHasKey, KeysOpen, CleanIsOnDisk, Frame
  <2>3. UnusedIsZero'
    BY <2>1 DEF UnusedIsZero, Reclaimed, Inode, Desc, ZeroFile
  <2>4. LinksDistinct' /\ IdsHaveFiles' /\ OpenNamesLinked'
    BY <2>1 DEF StoreInv, FilesInv, LinksDistinct, IdsHaveFiles, OpenNamesLinked, Desc, Id
  <2> QED BY <2>2, <2>3, <2>4 DEF FilesInv
<1> HIDE DEF Goal
<1>9. Goal
  BY <1>2, <1>3, <1>4, <1>5, <1>6, <1>7, <1>8 DEF PageStep
<1> QED BY <1>9 DEF Goal

\* A file step leaves the frames, the open files with frames and their pages.
LEMMA FramesUntouched ==
  ASSUME StoreInv, UNCHANGED <<key, dirty, mem>>, cur' \in {None, cur},
         \A f \in Frame : key[f] # None =>
           LET id == key[f][1]
           IN  /\ \E n \in Names : nameToId'[n] = id
               /\ InodeOf(id)' = InodeOf(id)
               /\ disk'[InodeOf(id)] = disk[InodeOf(id)]
  PROVE  PagesInv'
<1>1. CurHasKey'
  BY DEF StoreInv, PagesInv, CurHasKey
<1>2. KeysOpen'
  BY KeyFacts DEF KeysOpen, OpenIds, Frame, Id
<1>3. CleanIsOnDisk'
  <2>1. SUFFICES ASSUME NEW f \in Frame, key[f] # None, ~dirty[f]
                 PROVE  mem[f] = disk'[InodeOf(key[f][1])'][key[f][2]]
    BY DEF CleanIsOnDisk, Frame
  <2>2. mem[f] = disk[InodeOf(key[f][1])][key[f][2]]
    BY <2>1 DEF StoreInv, PagesInv, CleanIsOnDisk
  <2> QED BY <2>1, <2>2
<1> QED BY <1>1, <1>2, <1>3 DEF PagesInv

LEMMA CreateKeepsFiles ==
  ASSUME StoreInv, NEW n \in Names, nameToId[n] = None, CreateFile(n)
  PROVE  FilesInv' /\ PagesInv'
<1>0. FmTypeOK /\ FilesInv
  BY DEF StoreInv, TypeInv
<1>1. UNCHANGED <<osfd, fd, freeIds, nameToId, key, dirty, mem, cur>>
  BY DEF CreateFile, FmCreateFile, bufVars
<1>2. IdsHaveFiles'
  BY <1>0, <1>1 DEF FilesInv, IdsHaveFiles, Id, Desc
<1>3. \A i : InodeOf(i)' = InodeOf(i)
  BY <1>1 DEF InodeOf
<1>4. ASSUME NEW f \in Frame, key[f] # None
      PROVE  \E m \in Names : m # n /\ nameToId[m] = key[f][1] /\ dir[m] = InodeOf(key[f][1])
  BY <1>4, KeyFacts, OpenIdFacts, NoneIsNoNumber
<1>5. CASE UNCHANGED <<dir, disk>>
  <2>1. LinksDistinct' /\ OpenNamesLinked' /\ UnusedIsZero'
    BY <1>0, <1>1, <1>5 DEF FilesInv, LinksDistinct, OpenNamesLinked, UnusedIsZero, InodeOf,
                            Inode, Desc, ZeroFile
  <2>2. PagesInv'
    BY <1>1, <1>3, <1>4, <1>5, FramesUntouched
  <2> QED BY <1>2, <2>1, <2>2 DEF FilesInv
<1>6. CASE dir[n] = None /\ dir' = [dir EXCEPT ![n] = FreshInode] /\ disk' = disk
  <2>1. FreshInode \in Inode /\ \A m \in Names : dir[m] # FreshInode
    BY <1>0, <1>6, FreshInodeIsFresh
  <2>2. \A m \in Names : dir'[m] = IF m = n THEN FreshInode ELSE dir[m]
    BY <1>0, <1>6 DEF FmTypeOK
  <2>3. LinksDistinct'
    BY <1>0, <2>1, <2>2 DEF FilesInv, LinksDistinct
  <2>4. OpenNamesLinked'
    BY <1>0, <1>1, <1>3, <2>2 DEF FilesInv, OpenNamesLinked, InodeOf
  <2>5. UnusedIsZero'
    <3>1. SUFFICES ASSUME NEW i \in Inode, \A m \in Names : dir'[m] # i, \A d \in Desc : osfd[d] # i
                   PROVE  disk[i] = ZeroFile
      BY <1>1, <1>6 DEF UnusedIsZero, Inode, Desc, ZeroFile
    <3>2. \A m \in Names : dir[m] # i
      BY <1>6, <2>2, <3>1, IdsAndDescs
    <3> QED BY <1>0, <3>1, <3>2 DEF FilesInv, UnusedIsZero
  <2>6. PagesInv'
    BY <1>1, <1>3, <1>4, <1>6, FramesUntouched
  <2> QED BY <1>2, <2>3, <2>4, <2>5, <2>6 DEF FilesInv
<1>7. CASE dir[n] # None /\ dir' = dir /\ disk' = [disk EXCEPT ![dir[n]] = ZeroFile]
  <2>1. LinksDistinct' /\ OpenNamesLinked'
    BY <1>0, <1>1, <1>7 DEF FilesInv, LinksDistinct, OpenNamesLinked, InodeOf
  <2>2. \A i \in Inode : disk'[i] = IF i = dir[n] THEN ZeroFile ELSE disk[i]
    BY <1>0, <1>7 DEF FmTypeOK
  <2>3. UnusedIsZero'
    BY <1>0, <1>1, <1>7, <2>2 DEF FilesInv, UnusedIsZero, Inode, Desc, ZeroFile
  <2>4. ASSUME NEW f \in Frame, key[f] # None
        PROVE  disk'[InodeOf(key[f][1])] = disk[InodeOf(key[f][1])]
    <3>1. InodeOf(key[f][1]) # dir[n] /\ InodeOf(key[f][1]) \in Inode
      BY <1>0, <1>4, <1>7, <2>4, KeyFacts, OpenIdFacts DEF FilesInv, LinksDistinct
    <3> QED BY <2>2, <3>1
  <2>5. PagesInv'
    BY <1>1, <1>3, <1>4, <2>4, FramesUntouched
  <2> QED BY <1>2, <2>1, <2>3, <2>5 DEF FilesInv
<1> QED BY <1>5, <1>6, <1>7 DEF CreateFile, FmCreateFile

LEMMA DeleteKeepsFiles ==
  ASSUME StoreInv, NEW n \in Names, nameToId[n] = None, DeleteFile(n)
  PROVE  FilesInv' /\ PagesInv'
<1>0. FmTypeOK /\ FilesInv
  BY DEF StoreInv, TypeInv
<1>1. /\ UNCHANGED <<osfd, fd, freeIds, nameToId, key, dirty, mem, cur>>
      /\ dir' = [dir EXCEPT ![n] = None]
      /\ disk' = Reclaimed(dir', osfd)
  BY DEF DeleteFile, FmDeleteFile, bufVars
<1>2. \A m \in Names : dir'[m] = IF m = n THEN None ELSE dir[m]
  BY <1>0, <1>1 DEF FmTypeOK
<1>3. IdsHaveFiles'
  BY <1>0, <1>1 DEF FilesInv, IdsHaveFiles, Id, Desc
<1>4. \A i : InodeOf(i)' = InodeOf(i)
  BY <1>1 DEF InodeOf
<1>5. LinksDistinct' /\ OpenNamesLinked'
  BY <1>0, <1>1, <1>2 DEF FilesInv, LinksDistinct, OpenNamesLinked, InodeOf
<1>6. UnusedIsZero'
  BY <1>1 DEF UnusedIsZero, Reclaimed, Inode, Desc, ZeroFile
<1>7. ASSUME NEW f \in Frame, key[f] # None
      PROVE  /\ \E m \in Names : nameToId[m] = key[f][1]
             /\ disk'[InodeOf(key[f][1])] = disk[InodeOf(key[f][1])]
  <2>1. PICK m \in Names : m # n /\ nameToId[m] = key[f][1] /\ dir[m] = InodeOf(key[f][1])
    BY <1>7, KeyFacts, OpenIdFacts, NoneIsNoNumber
  <2>2. InodeOf(key[f][1]) \in Inode
    BY <1>7, KeyFacts, OpenIdFacts
  <2> QED BY <1>1, <1>2, <2>1, <2>2 DEF Reclaimed
<1>8. PagesInv'
  BY <1>1, <1>4, <1>7, FramesUntouched
<1> QED BY <1>3, <1>5, <1>6, <1>8 DEF FilesInv

\* The descriptor of the id is closed; every other id keeps its own.
LEMMA CloseKeepsFiles ==
  ASSUME StoreInv, NEW id \in OpenIds, ~Cached(id), CloseFile(id)
  PROVE  FilesInv' /\ PagesInv'
<1>0. FmTypeOK /\ FilesInv /\ IdsInv
  BY DEF StoreInv, TypeInv, CacheInv
<1>1. id \in Id /\ id \notin freeIds /\ fd[id] \in Desc /\ fd[id] # None
  BY <1>0, OpenIdFacts DEF FmTypeOK, FilesInv, IdsHaveFiles
<1>2. /\ UNCHANGED <<dir, fd, key, dirty, mem>> /\ cur' \in {None, cur}
      /\ freeIds' = freeIds \cup {id}
      /\ osfd' = [osfd EXCEPT ![fd[id]] = None]
      /\ disk' = Reclaimed(dir, osfd')
      /\ nameToId' = [n \in Names |-> IF n = idToName[id] THEN None ELSE nameToId[n]]
  BY <1>1 DEF CloseFile, FmCloseFile, Unnamed
<1>3. \A d \in Desc : osfd'[d] = IF d = fd[id] THEN None ELSE osfd[d]
  BY <1>0, <1>1, <1>2 DEF FmTypeOK
<1>4. ASSUME NEW i \in Id \ freeIds, i # id
      PROVE  fd[i] \in Desc /\ fd[i] # fd[id] /\ osfd'[fd[i]] = osfd[fd[i]] /\ InodeOf(i)' = InodeOf(i)
  <2>1. fd[i] \in Desc /\ fd[i] # None
    BY <1>0, <1>4 DEF FmTypeOK, FilesInv, IdsHaveFiles
  <2>2. fd[i] # fd[id]
    BY <1>0, <1>1, <1>4 DEF FilesInv, IdsHaveFiles
  <2>3. osfd'[fd[i]] = osfd[fd[i]]
    BY <1>3, <2>1, <2>2
  <2> QED BY <1>2, <2>1, <2>2, <2>3 DEF InodeOf
<1>5. IdsHaveFiles'
  <2>1. ASSUME NEW i \in Id \ freeIds, i # id
        PROVE  fd[i] # None /\ osfd'[fd[i]] # None
    BY <1>0, <1>4, <2>1 DEF FilesInv, IdsHaveFiles
  <2>2. \A i, j \in Id \ freeIds : fd[i] = fd[j] => i = j
    BY <1>0 DEF FilesInv, IdsHaveFiles
  <2>3. ASSUME NEW d \in Desc, osfd'[d] # None
        PROVE  \E i \in Id \ freeIds : i # id /\ fd[i] = d
    <3>1. d # fd[id] /\ osfd[d] # None
      BY <1>3, <2>3
    <3> QED BY <1>0, <3>1 DEF FilesInv, IdsHaveFiles
  <2> QED BY <1>2, <2>1, <2>2, <2>3 DEF IdsHaveFiles, Id, Desc
<1>6. ASSUME NEW n \in Names, nameToId'[n] # None
      PROVE  /\ nameToId'[n] = nameToId[n] /\ nameToId[n] \in Id \ freeIds /\ nameToId[n] # id
             /\ InodeOf(nameToId[n])' = InodeOf(nameToId[n])
  <2>1. nameToId'[n] = nameToId[n] /\ n # idToName[id]
    BY <1>2, <1>6
  <2>2. nameToId[n] \in Id \ freeIds /\ idToName[nameToId[n]] = n
    BY <1>0, <1>6, <2>1 DEF IdsInv, NamesAgree
  <2> QED BY <1>4, <2>1, <2>2
<1>7. LinksDistinct' /\ OpenNamesLinked'
  <2>1. LinksDistinct'
    BY <1>0, <1>2 DEF FilesInv, LinksDistinct
  <2>2. ASSUME NEW n \in Names, nameToId'[n] # None
        PROVE  dir[n] # None /\ InodeOf(nameToId[n])' = dir[n] /\ nameToId'[n] = nameToId[n]
    BY <1>0, <1>6, <2>2 DEF FilesInv, OpenNamesLinked
  <2> QED BY <1>2, <2>1, <2>2 DEF OpenNamesLinked, InodeOf
<1>8. UnusedIsZero'
  BY <1>2 DEF UnusedIsZero, Reclaimed, Inode, Desc, ZeroFile
<1>9. ASSUME NEW f \in Frame, key[f] # None
      PROVE  /\ \E n \in Names : nameToId'[n] = key[f][1]
             /\ InodeOf(key[f][1])' = InodeOf(key[f][1])
             /\ disk'[InodeOf(key[f][1])] = disk[InodeOf(key[f][1])]
  <2>0. PICK i : i = key[f][1]
    OBVIOUS
  <2>1. i # id
    BY <1>9, <2>0 DEF Cached
  <2>2. /\ i \in OpenIds /\ i \in Id \ freeIds /\ idToName[i] \in Names
        /\ nameToId[idToName[i]] = i /\ dir[idToName[i]] = InodeOf(i) /\ InodeOf(i) \in Inode
    BY <1>9, <2>0, KeyFacts, OpenIdFacts
  <2>3. idToName[i] # idToName[id]
    BY <2>1, <2>2, OpenIdFacts
  <2>4. nameToId'[idToName[i]] = i
    BY <1>2, <2>2, <2>3
  <2>5. InodeOf(i)' = InodeOf(i)
    BY <1>4, <2>1, <2>2
  <2>6. disk'[InodeOf(i)] = disk[InodeOf(i)]
    BY <1>2, <2>2 DEF Reclaimed
  <2> QED BY <1>2, <2>0, <2>2, <2>4, <2>5, <2>6
<1>10. PagesInv'
  BY <1>2, <1>9, FramesUntouched
<1> QED BY <1>5, <1>7, <1>8, <1>10 DEF FilesInv

\* The name gets an id no frame knows, and a descriptor no other id has.
LEMMA OpenKeepsFiles ==
  ASSUME StoreInv, NEW n \in Names, CanOpen(n), OpenFile(n)
  PROVE  FilesInv' /\ PagesInv'
<1>0. FmTypeOK /\ FilesInv /\ IdsInv
  BY DEF StoreInv, TypeInv, CacheInv
<1>1. CASE UNCHANGED vars
  <2>1. FilesInv'
    BY <1>0, <1>1 DEF vars, fmVars, bufVars, FilesInv, LinksDistinct, IdsHaveFiles, OpenNamesLinked,
                      UnusedIsZero, InodeOf, Inode, Desc, Id, ZeroFile
  <2>2. PagesInv'
    BY <1>1 DEF vars, fmVars, bufVars, StoreInv, PagesInv, CurHasKey, KeysOpen, CleanIsOnDisk,
                OpenIds, InodeOf, Frame, Id
  <2> QED BY <2>1, <2>2
<1>2. CASE nameToId[n] = None /\ ~ UNCHANGED vars
  <2>0. PICK i, d : i = NextId /\ d = Min(FreeDescs)
    OBVIOUS
  <2>1. freeIds # {} /\ OpenSucceeds(n)
    BY <1>2 DEF CanOpen
  <2>2. /\ freeIds' = freeIds \ {i}
        /\ osfd' = [osfd EXCEPT ![d] = dir[n]]
        /\ fd' = [fd EXCEPT ![i] = d]
        /\ nameToId' = [nameToId EXCEPT ![n] = i]
        /\ UNCHANGED <<dir, disk, key, dirty, mem, cur>>
    BY <1>2, <2>0, <2>1 DEF OpenFile, FmOpenFile
  <2>3. i \in freeIds /\ i \in Id
    BY <1>0, <2>0, <2>1, NextIdFacts DEF FmTypeOK
  <2>4. d \in Desc /\ osfd[d] = None /\ d # None
    BY <2>0, <2>1, LowestDescFree, IdsAndDescs DEF OpenSucceeds
  <2>5. dir[n] # None
    BY <2>1 DEF OpenSucceeds
  <2>6. /\ \A e \in Desc : osfd'[e] = IF e = d THEN dir[n] ELSE osfd[e]
        /\ \A j \in Id : fd'[j] = IF j = i THEN d ELSE fd[j]
        /\ \A m \in Names : nameToId'[m] = IF m = n THEN i ELSE nameToId[m]
    BY <1>0, <2>2 DEF FmTypeOK, IdsInv
  <2>7. ASSUME NEW j \in Id \ freeIds
        PROVE  /\ j # i /\ fd'[j] = fd[j] /\ fd[j] \in Desc /\ fd[j] # d
               /\ osfd'[fd[j]] = osfd[fd[j]] /\ InodeOf(j)' = InodeOf(j)
    <3>1. j # i /\ fd'[j] = fd[j]
      BY <2>3, <2>6
    <3>2. fd[j] # None /\ osfd[fd[j]] # None /\ fd[j] \in Desc
      BY <1>0 DEF FmTypeOK, FilesInv, IdsHaveFiles
    <3>3. fd[j] # d
      BY <2>4, <3>2
    <3>4. osfd'[fd[j]] = osfd[fd[j]]
      BY <2>6, <3>2, <3>3
    <3> QED BY <3>1, <3>2, <3>3, <3>4 DEF InodeOf
  <2>8. InodeOf(i)' = dir[n]
    BY <2>3, <2>4, <2>6 DEF InodeOf
  <2>9. IdsHaveFiles'
    <3>1. ASSUME NEW j \in Id \ freeIds' PROVE fd'[j] # None /\ osfd'[fd'[j]] # None
      <4>1. CASE j = i
        BY <2>3, <2>4, <2>5, <2>6, <4>1
      <4>2. CASE j # i
        <5>1. j \in Id \ freeIds
          BY <2>2, <3>1, <4>2
        <5> QED BY <1>0, <2>7, <5>1 DEF FilesInv, IdsHaveFiles
      <4> QED BY <4>1, <4>2
    <3>2. ASSUME NEW j \in Id \ freeIds', NEW k \in Id \ freeIds', fd'[j] = fd'[k] PROVE j = k
      <4>1. \A x \in Id \ freeIds' : x = i \/ x \in Id \ freeIds
        BY <2>2
      <4>2. \A x \in Id \ freeIds : fd'[x] # fd'[i]
        BY <2>3, <2>6, <2>7
      <4>3. ASSUME j \in Id \ freeIds, k \in Id \ freeIds PROVE j = k
        BY <1>0, <2>7, <3>2, <4>3 DEF FilesInv, IdsHaveFiles
      <4> QED BY <3>2, <4>1, <4>2, <4>3
    <3>3. ASSUME NEW e \in Desc, osfd'[e] # None PROVE \E j \in Id \ freeIds' : fd'[j] = e
      <4>1. CASE e = d
        BY <2>2, <2>3, <2>6, <4>1
      <4>2. CASE e # d
        <5>1. PICK j \in Id \ freeIds : fd[j] = e
          BY <1>0, <2>6, <3>3, <4>2 DEF FilesInv, IdsHaveFiles
        <5> QED BY <2>2, <2>7, <5>1
      <4> QED BY <4>1, <4>2
    <3> QED BY <3>1, <3>2, <3>3 DEF IdsHaveFiles, Id, Desc
  <2>10. LinksDistinct'
    BY <1>0, <2>2 DEF FilesInv, LinksDistinct
  <2>11. OpenNamesLinked'
    <3>1. ASSUME NEW m \in Names, nameToId'[m] # None
          PROVE  dir[m] # None /\ \E j \in Id : nameToId'[m] = j /\ InodeOf(j)' = dir[m]
      <4>1. CASE m = n
        BY <2>3, <2>5, <2>6, <2>8, <4>1
      <4>2. CASE m # n
        <5>1. nameToId'[m] = nameToId[m] /\ nameToId[m] # None
          BY <2>6, <3>1, <4>2
        <5>2. nameToId[m] \in Id \ freeIds
          BY <1>0, <5>1 DEF IdsInv, NamesAgree
        <5>3. dir[m] # None /\ InodeOf(nameToId[m]) = dir[m]
          BY <1>0, <5>1 DEF FilesInv, OpenNamesLinked
        <5> QED BY <2>7, <5>1, <5>2, <5>3
      <4> QED BY <4>1, <4>2
    <3> QED BY <2>2, <3>1 DEF OpenNamesLinked, InodeOf
  <2>12. UnusedIsZero'
    <3>1. SUFFICES ASSUME NEW x \in Inode, \A m \in Names : dir[m] # x, \A e \in Desc : osfd'[e] # x
                   PROVE  disk[x] = ZeroFile
      BY <2>2 DEF UnusedIsZero, Inode, Desc, ZeroFile
    <3>2. \A e \in Desc : osfd[e] # x
      BY <2>4, <2>6, <3>1, IdsAndDescs
    <3> QED BY <1>0, <3>1, <3>2 DEF FilesInv, UnusedIsZero
  <2>13. ASSUME NEW f \in Frame, key[f] # None
         PROVE  /\ \E m \in Names : nameToId'[m] = key[f][1]
                /\ InodeOf(key[f][1])' = InodeOf(key[f][1])
    <3>1. PICK j \in OpenIds : j = key[f][1]
      BY <2>13, KeyFacts
    <3>2. PICK m \in Names : nameToId[m] = j /\ m # n
      BY <1>2, OpenIdFacts, NoneIsNoNumber
    <3>3. j \in Id \ freeIds
      BY OpenIdFacts
    <3> QED BY <2>2, <2>6, <2>7, <3>1, <3>2, <3>3
  <2>14. PagesInv'
    BY <2>2, <2>13, FramesUntouched
  <2> QED BY <2>9, <2>10, <2>11, <2>12, <2>14 DEF FilesInv
<1> QED BY <1>1, <1>2 DEF OpenFile

LEMMA StoreInvInit == Init => StoreInv
<1> SUFFICES ASSUME Init PROVE StoreInv
  OBVIOUS
<1>1. TypeInv
  BY TypeInvInit
<1>2. /\ dir = [n \in Names |-> None] /\ disk = [i \in Inode |-> ZeroFile]
      /\ osfd = [d \in Desc |-> None] /\ freeIds = Id
      /\ nameToId = [n \in Names |-> None] /\ key = [f \in Frame |-> None] /\ cur = None
      /\ idToName = [id \in Id |-> None] /\ frameName = [f \in Frame |-> None]
  BY DEF Init, FmInit, AllFree
<1>3. CacheInv
  BY <1>1, <1>2 DEF TypeInv, CacheInv, IdsInv, NamesAgree, FramesNamed, OneFramePerPage
<1>4. FilesInv
  BY <1>2 DEF FilesInv, LinksDistinct, IdsHaveFiles, OpenNamesLinked, UnusedIsZero
<1>5. PagesInv
  BY <1>2 DEF PagesInv, CurHasKey, KeysOpen, CleanIsOnDisk
<1>6. DirtyKeyed
  BY DEF Init, DirtyKeyed
<1> QED BY <1>1, <1>3, <1>4, <1>5, <1>6 DEF StoreInv

LEMMA StoreInvStep == StoreInv /\ [DisciplinedNext]_vars => StoreInv'
<1> SUFFICES ASSUME StoreInv, [DisciplinedNext]_vars PROVE StoreInv'
  OBVIOUS
<1>1. TypeInv' /\ CacheInv' /\ DirtyKeyed'
  BY DisciplinedIsNext, TypeInvStep, CacheInvStep, DirtyKeyedStep DEF StoreInv, TypeInv
<1>2. CASE UNCHANGED vars
  <2>1. FilesInv'
    BY <1>2 DEF vars, fmVars, bufVars, StoreInv, FilesInv, LinksDistinct, IdsHaveFiles,
                OpenNamesLinked, UnusedIsZero, InodeOf, Inode, Desc, Id, ZeroFile
  <2>2. PagesInv'
    BY <1>2 DEF vars, fmVars, bufVars, StoreInv, PagesInv, CurHasKey, KeysOpen, CleanIsOnDisk,
                OpenIds, InodeOf, Frame, Id
  <2> QED BY <1>1, <2>1, <2>2 DEF StoreInv
<1>3. ASSUME DisciplinedNext PROVE FilesInv' /\ PagesInv'
  BY <1>3, PageStepKeepsPages, CloseKeepsFiles, CreateKeepsFiles, DeleteKeepsFiles, OpenKeepsFiles
  DEF DisciplinedNext
<1> QED BY <1>1, <1>2, <1>3 DEF StoreInv

LEMMA StoreInvAlways == DisciplinedSpec => []StoreInv
BY StoreInvInit, StoreInvStep, PTL DEF DisciplinedSpec

(* For every number of files, ids and descriptors, under the discipline:    *)
(* however often ids are freed and taken again, each descriptor openFile    *)
(* got belongs to one id in use (FileManager.h:62, 138-161).                *)
THEOREM IdsStayDistinct == DisciplinedSpec => []IdsDistinguishOpenFiles
<1>1. StoreInv => IdsDistinguishOpenFiles
  <2> SUFFICES ASSUME StoreInv, NEW d \in Desc, osfd[d] # None
               PROVE  Cardinality({id \in Id \ freeIds : fd[id] = d}) = 1
    BY DEF IdsDistinguishOpenFiles
  <2>1. PICK i \in Id \ freeIds : fd[i] = d
    BY DEF StoreInv, FilesInv, IdsHaveFiles
  <2>2. {id \in Id \ freeIds : fd[id] = d} = {i}
    BY <2>1 DEF StoreInv, FilesInv, IdsHaveFiles
  <2> QED BY ONLY <2>2, FS_Singleton
<1> QED BY <1>1, StoreInvAlways, PTL

(* Likewise: the id a name is open under reaches the file the name is       *)
(* linked to, so a reader of that name reads that file                      *)
(* (FileManager.h:138, BufPageManager.h:239-267).                           *)
THEOREM OpenIdsReachTheirFile == DisciplinedSpec => []IdReachesNamedFile
<1>1. StoreInv => IdReachesNamedFile
  BY DEF StoreInv, FilesInv, OpenNamesLinked, IdReachesNamedFile
<1> QED BY <1>1, StoreInvAlways, PTL

(* Likewise: a page marked dirty, whatever was opened and closed since it   *)
(* was read, has a key, and its id still reaches the file it came from, so  *)
(* writeBack and eviction put it there (BufPageManager.h:42-75, 165-213).   *)
THEOREM DirtyPagesReachTheirFile == DisciplinedSpec => []DirtyPageHasItsFile
<1>1. StoreInv => DirtyPageHasItsFile
  <2> SUFFICES ASSUME StoreInv, NEW f \in Frame, key[f] # None
               PROVE  /\ key[f] # None
                      /\ idToName[key[f][1]] = frameName[f]
                      /\ FileOfKey(key[f]) # None
                      /\ InodeOf(key[f][1]) = FileOfKey(key[f])
    BY DirtyFrameFacts DEF DirtyPageHasItsFile
  <2>1. key[f][1] \in OpenIds
    BY KeyFacts
  <2>2. idToName[key[f][1]] \in Names /\ idToName[key[f][1]] # None
    BY <2>1, OpenIdFacts, FileAssumption
  <2>3. FileOfKey(key[f]) = InodeOf(key[f][1]) /\ InodeOf(key[f][1]) # None
    BY <2>1, <2>2, OpenIdFacts DEF FileOfKey
  <2>4. idToName[key[f][1]] = frameName[f]
    BY DEF StoreInv, CacheInv, IdsInv, FramesNamed
  <2> QED BY <2>3, <2>4
<1> QED BY <1>1, StoreInvAlways, PTL

(* Likewise: the page the caller was given, unless it was changed since, is *)
(* the page of the file now linked under the name: no hit, no recycled id   *)
(* and no late write leaves a stale frame (BufPageManager.h:115-149).       *)
THEOREM PagesFoundAreCurrent == DisciplinedSpec => []PageFoundIsFilePage
<1>1. StoreInv => PageFoundIsFilePage
  <2> SUFFICES ASSUME StoreInv, cur # None, ~dirty[cur]
               PROVE  mem[cur] = disk[FileOfKey(key[cur])][key[cur][2]]
    BY DEF PageFoundIsFilePage
  <2>1. cur \in Frame /\ key[cur] # None
    BY DEF StoreInv, TypeInv, FramesTypeOK, PagesInv, CurHasKey
  <2>2. key[cur][1] \in OpenIds
    BY <2>1, KeyFacts
  <2>3. idToName[key[cur][1]] \in Names /\ idToName[key[cur][1]] # None
    BY <2>2, OpenIdFacts, FileAssumption
  <2>4. FileOfKey(key[cur]) = InodeOf(key[cur][1])
    BY <2>2, <2>3, OpenIdFacts DEF FileOfKey
  <2>5. mem[cur] = disk[InodeOf(key[cur][1])][key[cur][2]]
    BY <2>1 DEF StoreInv, PagesInv, CleanIsOnDisk
  <2> QED BY <2>4, <2>5
<1> QED BY <1>1, StoreInvAlways, PTL

-----------------------------------------------------------------------------
(* The refinement of PageStore.  Callers see a page in its frame if it has  *)
(* one, in the file otherwise; a dirty frame holds what the file is to get. *)

HasPage(f, n, p) == nameToId[n] # None /\ key[f] = <<nameToId[n], p>>

\* What StoreOf says, without the choice of a frame.
SeenOf(n) ==
  /\ StoreOf(n) \in [Pages -> Contents]
  /\ \A p \in Pages :
       /\ \A f \in Frame : HasPage(f, n, p) => StoreOf(n)[p] = mem[f]
       /\ (\A f \in Frame : ~HasPage(f, n, p)) => StoreOf(n)[p] = disk[dir[n]][p]

StoreSeen == \A n \in Names : dir[n] # None => SeenOf(n)

LEMMA StoreInvSeen == StoreInv => StoreSeen
<1> SUFFICES ASSUME StoreInv, NEW n \in Names, dir[n] # None PROVE SeenOf(n)
  BY DEF StoreSeen
<1> DEFINE page(p) == IF FramesOf(n, p) = {} THEN disk[dir[n]][p]
                      ELSE mem[CHOOSE f \in FramesOf(n, p) : TRUE]
<1>1. StoreOf(n) = [p \in Pages |-> page(p)]
  BY DEF StoreOf
<1>2. dir[n] \in Inode /\ disk[dir[n]] \in [Pages -> Contents]
  BY DEF StoreInv, TypeInv, FmTypeOK
<1>3. nameToId[n] \in Id \cup {None}
  BY DEF StoreInv, TypeInv, NamesTypeOK
<1>4. ASSUME NEW p \in Pages, NEW f \in Frame, HasPage(f, n, p)
      PROVE  page(p) = mem[f] /\ mem[f] \in Contents
  <2>1. key[f] # None
    BY <1>3, <1>4, NoneIsNoKey DEF Key, HasPage
  <2>2. f \in FramesOf(n, p) /\ \A g \in FramesOf(n, p) : g = f
    BY <1>4, <2>1 DEF HasPage, FramesOf, StoreInv, CacheInv, OneFramePerPage
  <2>3. (CHOOSE g \in FramesOf(n, p) : TRUE) = f
    BY <2>2
  <2>4. mem[f] \in Contents
    BY <2>1 DEF StoreInv, TypeInv, KeyedHasPage, FramesTypeOK
  <2> QED BY <2>2, <2>3, <2>4
<1>5. ASSUME NEW p \in Pages, \A f \in Frame : ~HasPage(f, n, p)
      PROVE  page(p) = disk[dir[n]][p] /\ disk[dir[n]][p] \in Contents
  BY <1>2, <1>5 DEF FramesOf, HasPage
<1> HIDE DEF page
<1>6. \A p \in Pages : page(p) \in Contents
  BY <1>4, <1>5
<1> QED BY <1>1, <1>4, <1>5, <1>6 DEF SeenOf

\* Before and after a step.
LEMMA SeenNow ==
  ASSUME StoreInv, NEW n \in Names, dir[n] # None
  PROVE  /\ StoreOf(n) \in [Pages -> Contents] /\ StoreOf(n) # None
         /\ \A p \in Pages :
              /\ \A f \in Frame : HasPage(f, n, p) => StoreOf(n)[p] = mem[f]
              /\ (\A f \in Frame : ~HasPage(f, n, p)) => StoreOf(n)[p] = disk[dir[n]][p]
BY StoreInvSeen, FileAssumption DEF StoreSeen, SeenOf

LEMMA SeenNext ==
  ASSUME StoreInv', NEW n \in Names, dir'[n] # None
  PROVE  /\ StoreOf(n)' \in [Pages -> Contents] /\ StoreOf(n)' # None
         /\ \A p \in Pages :
              /\ \A f \in Frame : HasPage(f, n, p)' => StoreOf(n)'[p] = mem'[f]
              /\ (\A f \in Frame : ~HasPage(f, n, p)') => StoreOf(n)'[p] = disk'[dir'[n]][p]
<1>1. StoreSeen'
  BY StoreInvSeen, PTL
<1>2. SeenOf(n)'
  BY <1>1 DEF StoreSeen
<1> QED BY <1>2, FileAssumption DEF SeenOf, Frame

\* A frame with a page of a name holds a page of the file the name is linked to,
\* and of no other.
LEMMA PageHeld ==
  ASSUME StoreInv, NEW f \in Frame, NEW n \in Names, NEW p \in Pages, HasPage(f, n, p)
  PROVE  /\ key[f] # None /\ key[f][1] = nameToId[n] /\ key[f][2] = p
         /\ dir[n] # None /\ dir[n] = InodeOf(key[f][1])
<1>1. nameToId[n] \in Id
  BY DEF HasPage, StoreInv, TypeInv, NamesTypeOK
<1>2. key[f] # None /\ key[f][1] = nameToId[n] /\ key[f][2] = p
  BY <1>1, NoneIsNoKey DEF HasPage, Key
<1> QED BY <1>2 DEF HasPage, StoreInv, FilesInv, OpenNamesLinked

LEMMA OneNameNext ==
  ASSUME StoreInv', NEW f \in Frame, NEW n \in Names, NEW m \in Names,
         NEW p \in Pages, NEW q \in Pages, HasPage(f, n, p)', HasPage(f, m, q)'
  PROVE  n = m /\ p = q
<1>1. nameToId'[n] \in Id /\ nameToId'[m] \in Id /\ key'[f] = <<nameToId'[n], p>>
      /\ key'[f] = <<nameToId'[m], q>>
  BY DEF HasPage, StoreInv, TypeInv, NamesTypeOK, Id
<1> QED BY <1>1, NoneIsNoNumber DEF StoreInv, CacheInv, IdsInv, NamesAgree

LEMMA FrameOfName ==
  ASSUME StoreInv, NEW f \in Frame, key[f] # None,
         NEW n \in Names, dir[n] = InodeOf(key[f][1])
  PROVE  HasPage(f, n, key[f][2])
<1>1. key[f][1] \in OpenIds
  BY KeyFacts
<1>2. n = idToName[key[f][1]]
  BY <1>1, OpenIdFacts DEF StoreInv, FilesInv, LinksDistinct
<1> QED BY <1>1, <1>2, OpenIdFacts, KeyFacts, NoneIsNoNumber DEF HasPage

\* What writing a frame out puts on disk: its own page and no other.
LEMMA WrittenOutOwnPage ==
  ASSUME StoreInv, NEW f \in Frame, NEW n \in Names, NEW p \in Pages, HasPage(f, n, p)
  PROVE  WrittenOut(f)[dir[n]][p] = mem[f]
<1>1. key[f] # None /\ key[f][2] = p /\ dir[n] # None /\ dir[n] = InodeOf(key[f][1])
  BY PageHeld
<1>2. dir[n] \in Inode
  BY <1>1 DEF StoreInv, TypeInv, FmTypeOK
<1>3. ~dirty[f] => mem[f] = disk[dir[n]][p]
  BY <1>1 DEF StoreInv, PagesInv, CleanIsOnDisk
<1> QED BY <1>1, <1>2, <1>3, WrittenOutFacts

LEMMA WrittenOutElsewhere ==
  ASSUME StoreInv, NEW f \in Frame, NEW n \in Names, dir[n] # None, NEW p \in Pages,
         ~HasPage(f, n, p)
  PROVE  WrittenOut(f)[dir[n]][p] = disk[dir[n]][p]
<1>1. dir[n] \in Inode
  BY DEF StoreInv, TypeInv, FmTypeOK
<1>2. ASSUME dirty[f], InodeOf(key[f][1]) = dir[n], key[f][2] = p PROVE FALSE
  <2>1. key[f] # None
    BY <1>2, DirtyFrameFacts DEF StoreInv
  <2> QED BY <1>2, <2>1, FrameOfName
<1> QED BY <1>1, <1>2, WrittenOutFacts

\* Some pages reach the disk.
LEMMA FlushStep ==
  ASSUME StoreInv, UNCHANGED dir, disk' \in [Inode -> [Pages -> Contents]],
         \A n \in Names, p \in Pages :
           dir[n] # None => disk'[dir[n]][p] \in {disk[dir[n]][p], StoreOf(n)[p]}
  PROVE  AbstractStore!Flush
<1> DEFINE S == {np \in Names \X Pages :
                   dir[np[1]] # None /\ disk'[dir[np[1]]][np[2]] = StoreOf(np[1])[np[2]]}
<1>1. ASSUME NEW n \in Names
      PROVE  DurableOf(n)' = IF StoreOf(n) = None THEN None
                             ELSE [p \in Pages |-> IF <<n, p>> \in S THEN StoreOf(n)[p]
                                                   ELSE DurableOf(n)[p]]
  <2>1. CASE dir[n] = None
    BY <2>1 DEF DurableOf, StoreOf
  <2>2. CASE dir[n] # None
    <3>1. StoreOf(n) # None
      BY <2>2, SeenNow
    <3>2. DurableOf(n)' = disk'[dir[n]] /\ DurableOf(n) = disk[dir[n]]
      BY <2>2 DEF DurableOf
    <3>3. disk'[dir[n]] \in [Pages -> Contents]
      BY <2>2 DEF StoreInv, TypeInv, FmTypeOK
    <3>4. \A p \in Pages : <<n, p>> \in S <=> disk'[dir[n]][p] = StoreOf(n)[p]
      BY <2>2
    <3>5. disk'[dir[n]] = [p \in Pages |-> IF disk'[dir[n]][p] = StoreOf(n)[p] THEN StoreOf(n)[p]
                                           ELSE disk[dir[n]][p]]
      BY <2>2, <3>3
    <3> HIDE DEF S
    <3> QED BY <3>1, <3>2, <3>4, <3>5
  <2> QED BY <2>1, <2>2
<1>2. S \in SUBSET (Names \X Pages)
  OBVIOUS
<1> HIDE DEF S
<1> QED BY <1>1, <1>2 DEF AbstractStore!Flush, AbstractStore!Flushed

LEMMA WriteOutFlushes ==
  ASSUME StoreInv, NEW f \in Frame, UNCHANGED dir, disk' = WrittenOut(f)
  PROVE  AbstractStore!Flush
<1>1. disk' \in [Inode -> [Pages -> Contents]]
  BY WrittenOutFacts
<1>2. ASSUME NEW n \in Names, NEW p \in Pages, dir[n] # None
      PROVE  disk'[dir[n]][p] \in {disk[dir[n]][p], StoreOf(n)[p]}
  <2>1. CASE ~HasPage(f, n, p)
    BY <1>2, <2>1, WrittenOutElsewhere
  <2>2. CASE HasPage(f, n, p)
    BY <1>2, <2>2, WrittenOutOwnPage, SeenNow
  <2> QED BY <2>1, <2>2
<1> QED BY <1>1, <1>2, FlushStep

LEMMA StoreSame ==
  ASSUME StoreInv, StoreInv', NEW n \in Names, dir'[n] = dir[n],
         \A p \in Pages : dir[n] # None => StoreOf(n)'[p] = StoreOf(n)[p]
  PROVE  StoreOf(n)' = StoreOf(n)
<1>1. CASE dir[n] = None
  BY <1>1 DEF StoreOf
<1>2. CASE dir[n] # None
  <2>1. StoreOf(n) \in [Pages -> Contents] /\ StoreOf(n)' \in [Pages -> Contents]
    BY <1>2, SeenNow, SeenNext
  <2> QED BY <1>2, <2>1
<1> QED BY <1>1, <1>2

\* A frame is written out and then given to another page, or to none: of the
\* page it had callers see what they saw.
LEMMA SeenAfterWriteOut ==
  ASSUME StoreInv, StoreInv', NEW v \in Frame, UNCHANGED <<dir, nameToId>>,
         disk' = WrittenOut(v), NEW n \in Names, NEW p \in Pages, dir[n] # None,
         \A f \in Frame : f # v => key'[f] = key[f] /\ mem'[f] = mem[f],
         ~HasPage(v, n, p)'
  PROVE  StoreOf(n)'[p] = StoreOf(n)[p]
<1>1. \A f \in Frame : f # v => (HasPage(f, n, p)' <=> HasPage(f, n, p))
  BY DEF HasPage
<1>2. CASE \E f \in Frame : HasPage(f, n, p)'
  <2>1. PICK f \in Frame : HasPage(f, n, p)'
    BY <1>2
  <2>2. f # v /\ HasPage(f, n, p) /\ mem'[f] = mem[f]
    BY <1>1, <2>1
  <2> QED BY <2>1, <2>2, SeenNow, SeenNext
<1>3. CASE \A f \in Frame : ~HasPage(f, n, p)'
  <2>1. StoreOf(n)'[p] = disk'[dir[n]][p]
    BY <1>3, SeenNext
  <2>2. CASE HasPage(v, n, p)
    BY <2>1, <2>2, SeenNow, WrittenOutOwnPage
  <2>3. CASE ~HasPage(v, n, p)
    <3>1. \A f \in Frame : ~HasPage(f, n, p)
      BY <1>1, <1>3, <2>3
    <3> QED BY <2>1, <2>3, <3>1, SeenNow, WrittenOutElsewhere
  <2> QED BY <2>2, <2>3
<1> QED BY <1>2, <1>3

\* Callers see what they saw of every page but the one fetched, and of that one
\* what is put in its frame; the file has it, since no frame had.
LEMMA FetchSeen ==
  ASSUME StoreInv, StoreInv', NEW id \in OpenIds, NEW p \in Pages, Fetch(id, p),
         \A f \in Frame : key[f] # <<id, p>>,
         \A f \in Frame : f # Victim => mem'[f] = mem[f],
         NEW m \in Names, m = idToName[id]
  PROVE  /\ AbstractStore!Flush
         /\ \A n \in Names, q \in Pages :
              dir[n] # None /\ (n # m \/ q # p) => StoreOf(n)'[q] = StoreOf(n)[q]
         /\ StoreOf(m)'[p] = mem'[Victim]
         /\ StoreOf(m)[p] = disk'[dir[m]][p]
<1>1. PICK v \in Frame : v = Victim
  BY TableParts, VictimFound DEF Fetch, StoreInv, TypeInv
<1>2. /\ key' = [key EXCEPT ![v] = <<id, p>>]
      /\ UNCHANGED <<dir, nameToId>>
      /\ disk' = IF mem[v] = None THEN disk ELSE WrittenOut(v)
  BY <1>1 DEF Fetch
<1>3. disk' = WrittenOut(v)
  <2>1. ASSUME mem[v] = None PROVE ~dirty[v]
    BY <2>1, DirtyFrameFacts DEF StoreInv, TypeInv, KeyedHasPage
  <2> QED BY <1>2, <2>1 DEF WrittenOut, ToBeWritten
<1>4. AbstractStore!Flush
  BY <1>2, <1>3, WriteOutFlushes
<1>5. /\ \A f \in Frame : key'[f] = IF f = v THEN <<id, p>> ELSE key[f]
      /\ \A f \in Frame : f # v => mem'[f] = mem[f]
  BY <1>1, <1>2 DEF StoreInv, TypeInv, TableInv, TableTypeOK
<1>6. nameToId[m] = id /\ nameToId[m] # None /\ dir[m] # None
  BY OpenIdFacts, NoneIsNoNumber
<1>7. HasPage(v, m, p)' /\ \A f \in Frame : ~HasPage(f, m, p)
  BY <1>2, <1>5, <1>6 DEF HasPage
<1>8. StoreOf(m)'[p] = mem'[Victim]
  <2>1. dir'[m] # None
    BY <1>2, <1>6
  <2> QED BY <1>1, <1>7, <2>1, SeenNext
<1>9. StoreOf(m)[p] = disk'[dir[m]][p]
  BY <1>3, <1>6, <1>7, SeenNow, WrittenOutElsewhere
<1>10. ASSUME NEW n \in Names, NEW q \in Pages, dir[n] # None, n # m \/ q # p
       PROVE  StoreOf(n)'[q] = StoreOf(n)[q]
  <2>1. ~HasPage(v, n, q)'
    BY <1>2, <1>7, <1>10, OneNameNext
  <2> QED BY <1>2, <1>3, <1>5, <1>10, <2>1, SeenAfterWriteOut
<1> QED BY <1>4, <1>8, <1>9, <1>10

\* Fetching a page is a Sync, filling a new one a Write.
LEMMA FetchSyncs ==
  ASSUME StoreInv, StoreInv', NEW id \in OpenIds, NEW p \in Pages,
         \A f \in Frame : key[f] # <<id, p>>, FetchAndRead(id, p)
  PROVE  AbstractStore!Sync
<1>1. PICK m \in Names : m = idToName[id] /\ dir[m] = InodeOf(id) /\ dir[m] # None
  BY OpenIdFacts
<1>2. mem' = [mem EXCEPT ![Victim] = disk'[dir[m]][p]]
  BY <1>1 DEF FetchAndRead
<1>3. Fetch(id, p) /\ UNCHANGED dir /\ Victim \in Frame
  BY TableParts, VictimFound DEF FetchAndRead, Fetch, StoreInv, TypeInv
<1>4. /\ mem'[Victim] = disk'[dir[m]][p]
      /\ \A f \in Frame : f # Victim => mem'[f] = mem[f]
  BY <1>2, <1>3 DEF StoreInv, TypeInv, FramesTypeOK
<1>5. /\ AbstractStore!Flush
      /\ \A n \in Names, q \in Pages :
           dir[n] # None /\ (n # m \/ q # p) => StoreOf(n)'[q] = StoreOf(n)[q]
      /\ StoreOf(m)'[p] = StoreOf(m)[p]
  BY <1>1, <1>3, <1>4, FetchSeen
<1>6. \A n \in Names : StoreOf(n)' = StoreOf(n)
  BY <1>3, <1>5, StoreSame
<1> QED BY <1>5, <1>6 DEF AbstractStore!Sync

\* One page of one file changes, and some reach the disk.
LEMMA WriteStep ==
  ASSUME StoreInv, StoreInv', UNCHANGED dir, AbstractStore!Flush,
         NEW m \in Names, dir[m] # None, NEW p \in Pages, NEW c \in Contents,
         StoreOf(m)'[p] = c,
         \A n \in Names, q \in Pages :
           dir[n] # None /\ (n # m \/ q # p) => StoreOf(n)'[q] = StoreOf(n)[q]
  PROVE  AbstractStore!Write(m, p, c)
<1>1. \A n \in Names : n # m => StoreOf(n)' = StoreOf(n)
  BY StoreSame
<1>2. /\ StoreOf(m) \in [Pages -> Contents] /\ StoreOf(m) # None
      /\ StoreOf(m)' \in [Pages -> Contents]
  BY SeenNow, SeenNext
<1>3. StoreOf(m)' = [StoreOf(m) EXCEPT ![p] = c]
  BY <1>2
<1> QED BY <1>1, <1>2, <1>3 DEF AbstractStore!Write

LEMMA FillWrites ==
  ASSUME StoreInv, StoreInv', NEW id \in OpenIds, NEW p \in Pages, NEW c \in Contents,
         \A f \in Frame : key[f] # <<id, p>>, AllocAndFill(id, p, c)
  PROVE  \E n \in Names : AbstractStore!Write(n, p, c)
<1>1. PICK m \in Names : m = idToName[id] /\ dir[m] = InodeOf(id) /\ dir[m] # None
  BY OpenIdFacts
<1>2. Fetch(id, p) /\ mem' = [mem EXCEPT ![Victim] = c] /\ UNCHANGED dir /\ Victim \in Frame
  BY TableParts, VictimFound DEF AllocAndFill, Fetch, StoreInv, TypeInv
<1>3. mem'[Victim] = c /\ \A f \in Frame : f # Victim => mem'[f] = mem[f]
  BY <1>2 DEF StoreInv, TypeInv, FramesTypeOK
<1>4. /\ AbstractStore!Flush
      /\ \A n \in Names, q \in Pages :
           dir[n] # None /\ (n # m \/ q # p) => StoreOf(n)'[q] = StoreOf(n)[q]
      /\ StoreOf(m)'[p] = c
  BY <1>1, <1>2, <1>3, FetchSeen
<1> QED BY <1>1, <1>2, <1>4, WriteStep

\* Nothing is written: some pages reach the disk, namely none.
LEMMA NothingFlushed ==
  ASSUME StoreInv, UNCHANGED <<dir, disk>> PROVE AbstractStore!Flush
<1>1. disk' \in [Inode -> [Pages -> Contents]]
  BY DEF StoreInv, TypeInv, FmTypeOK
<1> QED BY <1>1, FlushStep

\* The caller changes a page in its frame.
LEMMA ModifyWrites ==
  ASSUME StoreInv, StoreInv', NEW f \in Frame, Held(f), NEW c \in Contents, Modify(f, c)
  PROVE  \E n \in Names, p \in Pages : AbstractStore!Write(n, p, c)
<1>1. mem' = [mem EXCEPT ![f] = c] /\ UNCHANGED <<dir, disk, nameToId, key>>
  BY DEF Modify, fmVars
<1>2. PICK m \in Names, p \in Pages : HasPage(f, m, p)
  <2>1. key[f] # None
    BY DEF Held
  <2>2. idToName[key[f][1]] \in Names /\ dir[idToName[key[f][1]]] = InodeOf(key[f][1])
    BY <2>1, KeyFacts, OpenIdFacts
  <2> QED BY <2>1, <2>2, KeyFacts, FrameOfName
<1>3. dir[m] # None
  BY <1>2, PageHeld
<1>4. \A g \in Frame : mem'[g] = IF g = f THEN c ELSE mem[g]
  BY <1>1 DEF StoreInv, TypeInv, FramesTypeOK
<1>5. \A g \in Frame, n \in Names, q \in Pages : HasPage(g, n, q)' <=> HasPage(g, n, q)
  BY <1>1 DEF HasPage
<1>6. StoreOf(m)'[p] = c
  BY <1>1, <1>2, <1>3, <1>4, <1>5, SeenNext
<1>7. ASSUME NEW n \in Names, NEW q \in Pages, dir[n] # None, n # m \/ q # p
      PROVE  StoreOf(n)'[q] = StoreOf(n)[q]
  <2>1. CASE \E g \in Frame : HasPage(g, n, q)
    <3>1. PICK g \in Frame : HasPage(g, n, q)
      BY <2>1
    <3>2. g # f
      BY <1>2, <1>5, <1>7, <3>1, OneNameNext
    <3> QED BY <1>1, <1>4, <1>5, <1>7, <3>1, <3>2, SeenNow, SeenNext
  <2>2. CASE \A g \in Frame : ~HasPage(g, n, q)
    <3>1. StoreOf(n)[q] = disk[dir[n]][q]
      BY <1>7, <2>2, SeenNow
    <3>2. StoreOf(n)'[q] = disk'[dir'[n]][q]
      BY <1>1, <1>5, <1>7, <2>2, SeenNext
    <3> QED BY <1>1, <3>1, <3>2
  <2> QED BY <2>1, <2>2
<1> QED BY <1>1, <1>3, <1>6, <1>7, NothingFlushed, WriteStep

\* A frame is given back, written out or not dirty.
LEMMA GiveBackSyncs ==
  ASSUME StoreInv, StoreInv', NEW f \in Frame, WriteBack(f) \/ (~dirty[f] /\ Release(f))
  PROVE  AbstractStore!Sync
<1>1. /\ key' = [key EXCEPT ![f] = None] /\ UNCHANGED <<dir, nameToId, mem>>
      /\ disk' = WrittenOut(f)
  BY DEF WriteBack, Release, GiveBack, WrittenOut, ToBeWritten
<1>2. \A g \in Frame : key'[g] = IF g = f THEN None ELSE key[g]
  BY <1>1 DEF StoreInv, TypeInv, TableInv, TableTypeOK
<1>3. \A n \in Names, p \in Pages : ~HasPage(f, n, p)'
  <2>1. \A n \in Names, p \in Pages : nameToId[n] # None => <<nameToId[n], p>> # None
    BY NoneIsNoKey DEF Key, StoreInv, TypeInv, NamesTypeOK
  <2> QED BY <1>1, <1>2, <2>1 DEF HasPage
<1>4. \A n \in Names, p \in Pages : dir[n] # None => StoreOf(n)'[p] = StoreOf(n)[p]
  BY <1>1, <1>2, <1>3, SeenAfterWriteOut
<1>5. \A n \in Names : StoreOf(n)' = StoreOf(n)
  BY <1>1, <1>4, StoreSame
<1> QED BY <1>1, <1>5, WriteOutFlushes DEF AbstractStore!Sync

\* close: every frame that has a page has its own place in a file.
LEMMA CloseAllSyncs ==
  ASSUME StoreInv, StoreInv', CloseAll
  PROVE  AbstractStore!Sync
<1>1. key' = [f \in Frame |-> None] /\ UNCHANGED <<dir, nameToId, mem>>
  BY DEF CloseAll
<1>2. disk' \in [Inode -> [Pages -> Contents]]
  BY CloseAllKeepsType DEF StoreInv
<1>3. ASSUME NEW n \in Names, NEW p \in Pages, dir[n] # None
      PROVE  disk'[dir[n]][p] = StoreOf(n)[p]
  <2> DEFINE w == {f \in Frame : ToBeWritten(f) /\ key[f][2] = p /\ InodeOf(key[f][1]) = dir[n]}
  <2>1. dir[n] \in Inode
    BY <1>3 DEF StoreInv, TypeInv, FmTypeOK
  <2>2. disk'[dir[n]][p] = IF w = {} THEN disk[dir[n]][p] ELSE mem[Max(w)]
    BY <2>1 DEF CloseAll
  <2>3. \A f \in w : f \in Frame /\ HasPage(f, n, p)
    BY WrittenFrameFacts, FrameOfName DEF StoreInv
  <2>4. CASE w # {}
    <3>1. w \subseteq Nat /\ Cap \in Nat /\ \A y \in w : y <= Cap
      BY BufAssumption DEF Frame
    <3> HIDE DEF w
    <3>2. Max(w) \in w
      BY ONLY <2>4, <3>1, GreatestNat
    <3>3. StoreOf(n)[p] = mem[Max(w)]
      BY <1>3, <2>3, <3>2, SeenNow
    <3> QED BY <2>2, <2>4, <3>3
  <2>5. CASE w = {}
    <3>1. ASSUME NEW f \in Frame, HasPage(f, n, p)
          PROVE  mem[f] = disk[dir[n]][p] /\ StoreOf(n)[p] = mem[f]
      <4>1. key[f] # None /\ key[f][2] = p /\ dir[n] = InodeOf(key[f][1])
        BY <3>1, PageHeld
      <4>2. ~dirty[f]
        BY <2>5, <4>1 DEF ToBeWritten
      <4>3. mem[f] = disk[dir[n]][p]
        BY <4>1, <4>2 DEF StoreInv, PagesInv, CleanIsOnDisk
      <4> QED BY <1>3, <3>1, <4>3, SeenNow
    <3>2. StoreOf(n)[p] = disk[dir[n]][p]
      BY <1>3, <3>1, SeenNow
    <3> QED BY <2>2, <2>5, <3>2
  <2> QED BY <2>4, <2>5
<1>4. \A f \in Frame, n \in Names, p \in Pages : ~HasPage(f, n, p)'
  <2>1. \A n \in Names, p \in Pages : nameToId[n] # None => <<nameToId[n], p>> # None
    BY NoneIsNoKey DEF Key, StoreInv, TypeInv, NamesTypeOK
  <2> QED BY <1>1, <2>1 DEF HasPage
<1>5. \A n \in Names, p \in Pages : dir[n] # None => StoreOf(n)'[p] = StoreOf(n)[p]
  BY <1>1, <1>3, <1>4, SeenNext
<1>6. \A n \in Names : StoreOf(n)' = StoreOf(n)
  BY <1>1, <1>5, StoreSame
<1>7. AbstractStore!Flush
  BY <1>1, <1>2, <1>3, FlushStep
<1> QED BY <1>6, <1>7 DEF AbstractStore!Sync

\* A restart leaves what is on disk under the names.
LEMMA RestartRestarts ==
  ASSUME StoreInv, StoreInv', Restart
  PROVE  AbstractStore!Restart
<1>1. /\ key' = [f \in Frame |-> None] /\ nameToId' = [n \in Names |-> None]
      /\ dir' = dir /\ disk' = Reclaimed(dir, osfd')
  BY DEF Restart
<1>2. ASSUME NEW n \in Names
      PROVE  StoreOf(n)' = DurableOf(n) /\ DurableOf(n)' = DurableOf(n)
  <2>1. CASE dir[n] = None
    BY <1>1, <2>1 DEF StoreOf, DurableOf
  <2>2. CASE dir[n] # None
    <3>1. dir[n] \in Inode
      BY <2>2 DEF StoreInv, TypeInv, FmTypeOK
    <3>2. disk'[dir[n]] = disk[dir[n]]
      BY <1>1, <3>1 DEF Reclaimed
    <3>3. \A f \in Frame, p \in Pages : ~HasPage(f, n, p)'
      BY <1>1 DEF HasPage
    <3>4. StoreOf(n)' \in [Pages -> Contents] /\ \A p \in Pages : StoreOf(n)'[p] = disk'[dir[n]][p]
      BY <1>1, <2>2, <3>3, SeenNext
    <3>5. disk[dir[n]] \in [Pages -> Contents]
      BY <3>1 DEF StoreInv, TypeInv, FmTypeOK
    <3> QED BY <1>1, <2>2, <3>2, <3>4, <3>5 DEF DurableOf
  <2> QED BY <2>1, <2>2
<1> QED BY <1>2 DEF AbstractStore!Restart

\* Of a file that is not touched callers see what they saw.
LEMMA FileUntouched ==
  ASSUME NEW n \in Names, dir'[n] = dir[n], dir[n] # None => disk'[dir[n]] = disk[dir[n]],
         UNCHANGED <<key, mem>>,
         \A f \in Frame, p \in Pages : HasPage(f, n, p)' <=> HasPage(f, n, p)
  PROVE  StoreOf(n)' = StoreOf(n) /\ DurableOf(n)' = DurableOf(n)
<1>1. \A p \in Pages : FramesOf(n, p)' = FramesOf(n, p)
  BY DEF FramesOf, HasPage, Frame
<1>2. StoreOf(n)' = StoreOf(n)
  BY <1>1 DEF StoreOf
<1> QED BY <1>2 DEF DurableOf

LEMMA CreateCreates ==
  ASSUME StoreInv, StoreInv', NEW n \in Names, nameToId[n] = None, CreateFile(n)
  PROVE  AbstractStore!Create(n) \/ UNCHANGED AbstractStore!storeVars
<1>0. FmTypeOK
  BY DEF StoreInv, TypeInv
<1>1. UNCHANGED <<nameToId, key, mem>>
  BY DEF CreateFile, bufVars
<1>2. \A f \in Frame, m \in Names, p \in Pages : HasPage(f, m, p)' <=> HasPage(f, m, p)
  BY <1>1 DEF HasPage
<1>3. CASE UNCHANGED <<dir, disk>>
  <2>1. \A m \in Names : StoreOf(m)' = StoreOf(m) /\ DurableOf(m)' = DurableOf(m)
    BY <1>1, <1>2, <1>3, FileUntouched
  <2> QED BY <2>1 DEF AbstractStore!storeVars
<1>4. ASSUME dir'[n] # None, disk'[dir'[n]] = ZeroFile,
             \A m \in Names : m # n => /\ dir'[m] = dir[m]
                                       /\ dir[m] # None => disk'[dir[m]] = disk[dir[m]]
      PROVE  AbstractStore!Create(n)
  <2>1. \A m \in Names : m # n => StoreOf(m)' = StoreOf(m) /\ DurableOf(m)' = DurableOf(m)
    BY <1>1, <1>2, <1>4, FileUntouched
  <2>2. DurableOf(n)' = ZeroFile
    BY <1>4 DEF DurableOf
  <2>3. StoreOf(n)' = ZeroFile
    <3>1. \A f \in Frame, p \in Pages : ~HasPage(f, n, p)'
      BY <1>1 DEF HasPage
    <3>2. StoreOf(n)' \in [Pages -> Contents] /\ \A p \in Pages : StoreOf(n)'[p] = ZeroFile[p]
      BY <1>4, <3>1, SeenNext
    <3> QED BY <3>2 DEF ZeroFile
  <2> QED BY <2>1, <2>2, <2>3 DEF AbstractStore!Create, AbstractStore!NewFile, ZeroFile
<1>5. CASE dir[n] = None /\ dir' = [dir EXCEPT ![n] = FreshInode] /\ disk' = disk
  <2>1. /\ FreshInode \in Inode
        /\ \A m \in Names : dir[m] # FreshInode
        /\ \A d \in Desc : osfd[d] # FreshInode
    BY <1>0, <1>5, FreshInodeIsFresh
  <2>2. disk[FreshInode] = ZeroFile
    BY <2>1 DEF StoreInv, FilesInv, UnusedIsZero
  <2>3. FreshInode # None
    BY <2>1, IdsAndDescs
  <2>4. dir'[n] = FreshInode /\ \A m \in Names : m # n => dir'[m] = dir[m]
    BY <1>0, <1>5 DEF FmTypeOK
  <2> QED BY <1>4, <1>5, <2>2, <2>3, <2>4
<1>6. CASE dir[n] # None /\ dir' = dir /\ disk' = [disk EXCEPT ![dir[n]] = ZeroFile]
  <2>1. \A m \in Names : m # n /\ dir[m] # None => dir[m] # dir[n] /\ dir[m] \in Inode
    BY <1>0 DEF FmTypeOK, StoreInv, FilesInv, LinksDistinct
  <2>2. dir[n] \in Inode
    BY <1>0, <1>6 DEF FmTypeOK
  <2>3. /\ disk'[dir[n]] = ZeroFile
        /\ \A m \in Names : m # n /\ dir[m] # None => disk'[dir[m]] = disk[dir[m]]
    BY <1>0, <1>6, <2>1, <2>2 DEF FmTypeOK
  <2> QED BY <1>4, <1>6, <2>3
<1> QED BY <1>3, <1>5, <1>6 DEF CreateFile, FmCreateFile

LEMMA DeleteDeletes ==
  ASSUME StoreInv, NEW n \in Names, nameToId[n] = None, DeleteFile(n)
  PROVE  AbstractStore!Delete(n)
<1>1. /\ UNCHANGED <<nameToId, key, mem>>
      /\ dir' = [dir EXCEPT ![n] = None]
      /\ disk' = Reclaimed(dir', osfd)
  BY DEF DeleteFile, FmDeleteFile, bufVars
<1>2. dir \in [Names -> Inode \cup {None}]
  BY DEF StoreInv, TypeInv, FmTypeOK
<1>3. \A f \in Frame, m \in Names, p \in Pages : HasPage(f, m, p)' <=> HasPage(f, m, p)
  BY <1>1 DEF HasPage
<1>4. ASSUME NEW m \in Names, m # n
      PROVE  dir'[m] = dir[m] /\ (dir[m] # None => disk'[dir[m]] = disk[dir[m]])
  BY <1>1, <1>2, <1>4 DEF Reclaimed
<1>5. \A m \in Names : m # n => StoreOf(m)' = StoreOf(m) /\ DurableOf(m)' = DurableOf(m)
  BY <1>1, <1>3, <1>4, FileUntouched
<1>6. StoreOf(n)' = None /\ DurableOf(n)' = None
  BY <1>1, <1>2 DEF StoreOf, DurableOf
<1> QED BY <1>5, <1>6 DEF AbstractStore!Delete

\* A file is closed when no frame has a page of it.
LEMMA CloseStutters ==
  ASSUME StoreInv, NEW id \in OpenIds, ~Cached(id), CloseFile(id)
  PROVE  UNCHANGED AbstractStore!storeVars
<1>1. /\ UNCHANGED <<dir, key, mem>>
      /\ disk' = Reclaimed(dir, osfd')
      /\ nameToId' = [n \in Names |-> IF n = idToName[id] THEN None ELSE nameToId[n]]
  BY DEF CloseFile, FmCloseFile, Unnamed
<1>2. dir \in [Names -> Inode \cup {None}]
  BY DEF StoreInv, TypeInv, FmTypeOK
<1>3. ASSUME NEW f \in Frame, NEW n \in Names, NEW p \in Pages
      PROVE  HasPage(f, n, p)' <=> HasPage(f, n, p)
  <2>1. CASE n = idToName[id]
    <3>1. nameToId'[n] = None /\ nameToId[n] = id
      BY <1>1, <2>1, OpenIdFacts
    <3>2. ~HasPage(f, n, p)
      BY <3>1, PageHeld DEF Cached
    <3> QED BY <3>1, <3>2 DEF HasPage
  <2>2. CASE n # idToName[id]
    BY <1>1, <2>2 DEF HasPage
  <2> QED BY <2>1, <2>2
<1>4. \A n \in Names : dir[n] # None => disk'[dir[n]] = disk[dir[n]]
  BY <1>1, <1>2 DEF Reclaimed
<1>5. \A n \in Names : StoreOf(n)' = StoreOf(n) /\ DurableOf(n)' = DurableOf(n)
  BY <1>1, <1>3, <1>4, FileUntouched
<1> QED BY <1>5 DEF AbstractStore!storeVars

\* A file is opened under an id no frame has.
LEMMA OpenStutters ==
  ASSUME StoreInv, NEW n \in Names, CanOpen(n), OpenFile(n)
  PROVE  UNCHANGED AbstractStore!storeVars
<1>1. UNCHANGED <<dir, disk, key, mem>>
  BY DEF OpenFile, FmOpenFile, vars, fmVars, bufVars
<1>2. ASSUME NEW f \in Frame, NEW m \in Names, NEW p \in Pages
      PROVE  HasPage(f, m, p)' <=> HasPage(f, m, p)
  <2>1. CASE nameToId' = nameToId
    BY <1>1, <2>1 DEF HasPage
  <2>2. CASE nameToId[n] = None /\ nameToId' = [nameToId EXCEPT ![n] = NextId] /\ freeIds # {}
    <3>1. NextId \in freeIds
      BY <2>2, NextIdFacts DEF StoreInv, TypeInv, FmTypeOK
    <3>2. nameToId' = [x \in Names |-> IF x = n THEN NextId ELSE nameToId[x]]
      BY <2>2 DEF StoreInv, TypeInv, NamesTypeOK
    <3>3. CASE m = n
      <4>1. ASSUME key[f] = <<NextId, p>> PROVE FALSE
        <5>1. NextId \in Id /\ key[f] # None
          BY <3>1, <4>1, NoneIsNoKey DEF Key, StoreInv, TypeInv, FmTypeOK
        <5>2. key[f][1] \notin freeIds
          BY <5>1, KeyFacts, OpenIdFacts
        <5> QED BY <3>1, <4>1, <5>2
      <4> QED BY <1>1, <2>2, <3>2, <3>3, <4>1 DEF HasPage
    <3>4. CASE m # n
      BY <1>1, <3>2, <3>4 DEF HasPage
    <3> QED BY <3>3, <3>4
  <2> QED BY <2>1, <2>2 DEF OpenFile, CanOpen, vars, bufVars
<1>3. \A m \in Names : StoreOf(m)' = StoreOf(m) /\ DurableOf(m)' = DurableOf(m)
  BY <1>1, <1>2, FileUntouched
<1> QED BY <1>3 DEF AbstractStore!storeVars

LEMMA NothingTouched ==
  ASSUME UNCHANGED <<dir, disk, nameToId, key, mem>>
  PROVE  UNCHANGED AbstractStore!storeVars
<1>1. \A f \in Frame, n \in Names, p \in Pages : HasPage(f, n, p)' <=> HasPage(f, n, p)
  BY DEF HasPage
<1>2. \A n \in Names : StoreOf(n)' = StoreOf(n) /\ DurableOf(n)' = DurableOf(n)
  BY <1>1, FileUntouched
<1> QED BY <1>2 DEF AbstractStore!storeVars

\* What a disciplined step is to the store.
StoreStep ==
  \/ /\ CallerChangesPage
     /\ AbstractStore!Next \/ UNCHANGED AbstractStore!storeVars
  \/ Restart /\ AbstractStore!Restart
  \/ AbstractStore!Sync
  \/ \E n \in Names : AbstractStore!Delete(n)
  \/ UNCHANGED AbstractStore!storeVars

LEMMA PageStepIsStoreStep ==
  ASSUME StoreInv, StoreInv', PageStep
  PROVE  StoreStep
<1>0. OpenIds \subseteq Id /\ TableInv /\ IdsInv
  BY DEF OpenIds, StoreInv, CacheInv
<1>1. ASSUME NEW id \in OpenIds, NEW p \in Pages, GetPage(id, p) PROVE StoreStep
  <2>1. CASE GetPageHit(id, p)
    BY <2>1, NothingTouched DEF GetPageHit, fmVars, StoreStep
  <2>2. CASE GetPageMiss(id, p)
    <3>1. \A f \in Frame : key[f] # <<id, p>>
      BY <1>0, <2>2, MissNotCached DEF GetPageMiss
    <3> QED BY <2>2, <3>1, FetchSyncs DEF GetPageMiss, StoreStep
  <2> QED BY <1>1, <2>1, <2>2 DEF GetPage
<1>2. ASSUME NEW id \in OpenIds, NEW p \in Pages, FindIndex(<<id, p>>) = None,
             AllocPage(id, p)
      PROVE  StoreStep
  <2>1. \A f \in Frame : key[f] # <<id, p>>
    BY <1>0, <1>2, NotFoundNotCached
  <2> QED BY <1>2, <2>1, FetchSyncs DEF AllocPage, StoreStep
<1>3. ASSUME NEW id \in OpenIds, NEW p \in Pages, NEW c \in Contents,
             FindIndex(<<id, p>>) = None, AllocAndFill(id, p, c)
      PROVE  StoreStep
  <2>1. \A f \in Frame : key[f] # <<id, p>>
    BY <1>0, <1>3, NotFoundNotCached
  <2>2. \E n \in Names : AbstractStore!Write(n, p, c)
    BY <1>3, <2>1, FillWrites
  <2>3. AbstractStore!Next
    BY <2>2 DEF AbstractStore!Next
  <2>4. CallerChangesPage
    BY <1>0, <1>3 DEF CallerChangesPage
  <2> QED BY <2>3, <2>4 DEF StoreStep
<1>4. ASSUME NEW f \in Frame, Held(f), NEW c \in Contents, Modify(f, c) PROVE StoreStep
  <2>1. \E n \in Names, p \in Pages : AbstractStore!Write(n, p, c)
    BY <1>4, ModifyWrites
  <2>2. AbstractStore!Next
    BY <2>1 DEF AbstractStore!Next
  <2>3. CallerChangesPage
    BY <1>4 DEF CallerChangesPage
  <2> QED BY <2>2, <2>3 DEF StoreStep
<1>5. ASSUME NEW f \in Frame, Access(f) \/ Pin(f) \/ Unpin(f) PROVE StoreStep
  BY <1>5, NothingTouched DEF Access, Pin, Unpin, fmVars, StoreStep
<1>6. ASSUME NEW f \in Frame, WriteBack(f) \/ (~dirty[f] /\ Release(f)) PROVE StoreStep
  BY <1>6, GiveBackSyncs DEF StoreStep
<1>7. CloseAll => StoreStep
  BY CloseAllSyncs DEF StoreStep
<1>8. Restart => StoreStep
  BY RestartRestarts DEF StoreStep
<1> QED BY <1>1, <1>2, <1>3, <1>4, <1>5, <1>6, <1>7, <1>8 DEF PageStep

LEMMA DisciplinedIsStoreStep ==
  ASSUME StoreInv, StoreInv', [DisciplinedNext]_vars
  PROVE  StoreStep
<1>1. ASSUME NEW n \in Names, nameToId[n] = None, CreateFile(n) PROVE StoreStep
  <2>1. AbstractStore!Next \/ UNCHANGED AbstractStore!storeVars
    BY <1>1, CreateCreates DEF AbstractStore!Next
  <2>2. CallerChangesPage
    BY <1>1 DEF CallerChangesPage
  <2> QED BY <2>1, <2>2 DEF StoreStep
<1>2. ASSUME NEW n \in Names, nameToId[n] = None, DeleteFile(n) PROVE StoreStep
  BY <1>2, DeleteDeletes DEF StoreStep
<1>3. ASSUME NEW n \in Names, CanOpen(n), OpenFile(n) PROVE StoreStep
  BY <1>3, OpenStutters DEF StoreStep
<1>4. ASSUME NEW id \in OpenIds, ~Cached(id), CloseFile(id) PROVE StoreStep
  BY <1>4, CloseStutters DEF StoreStep
<1>5. UNCHANGED vars => StoreStep
  BY NothingTouched DEF vars, fmVars, bufVars, StoreStep
<1> QED BY <1>1, <1>2, <1>3, <1>4, <1>5, PageStepIsStoreStep DEF DisciplinedNext

(* For every number of files, pages, contents, ids, descriptors, frames and *)
(* chains, the disciplined manager implements PageStore: pages read and     *)
(* written through frames that are evicted, written back and filled again   *)
(* are those of files in memory, of which some are on disk and come back    *)
(* after a restart (BufPageManager.h:42-267, FileManager.h:84-161).         *)
THEOREM CacheImplementsStore == DisciplinedSpec => ImplementsPageStore
<1>1. Init => AbstractStore!Init
  BY DEF Init, FmInit, AbstractStore!Init, StoreOf, DurableOf
<1>2. StoreInv /\ StoreInv' /\ [DisciplinedNext]_vars
        => [AbstractStore!Next]_AbstractStore!storeVars
  <2>1. StoreStep => AbstractStore!Next \/ UNCHANGED AbstractStore!storeVars
    BY DEF StoreStep, AbstractStore!Next
  <2> QED BY <2>1, DisciplinedIsStoreStep
<1> QED BY <1>1, <1>2, StoreInvAlways, PTL
        DEF DisciplinedSpec, ImplementsPageStore, AbstractStore!Spec

(* Likewise: what callers see of a page changes by their own hand or by a   *)
(* restart.  Eviction, writeBack, close and recycled ids never lose a       *)
(* change nor bring an older page back (BufPageManager.h:42-267).           *)
THEOREM OnlyCallersChange == DisciplinedSpec => OnlyCallersChangePages
<1>1. ASSUME StoreInv, StoreInv', [DisciplinedNext]_vars,
             NEW n \in Names, StoreOf(n) # None, StoreOf(n)' # None,
             NEW p \in Pages, StoreOf(n)'[p] # StoreOf(n)[p]
      PROVE  CallerChangesPage \/ Restart
  <2>1. StoreStep
    BY <1>1, DisciplinedIsStoreStep
  <2>2. CASE AbstractStore!Sync \/ UNCHANGED AbstractStore!storeVars
    <3>1. [m \in Names |-> StoreOf(m)'] = [m \in Names |-> StoreOf(m)]
      BY <2>2 DEF AbstractStore!Sync, AbstractStore!storeVars
    <3>2. StoreOf(n)' = StoreOf(n)
      BY <3>1
    <3> QED BY <1>1, <3>2
  <2>3. CASE \E m \in Names : AbstractStore!Delete(m)
    <3>1. PICK m \in Names : AbstractStore!Delete(m)
      BY <2>3
    <3>2. [x \in Names |-> StoreOf(x)'] = [[x \in Names |-> StoreOf(x)] EXCEPT ![m] = None]
      BY <3>1 DEF AbstractStore!Delete
    <3>3. StoreOf(n)' = None \/ StoreOf(n)' = StoreOf(n)
      BY <3>2
    <3> QED BY <1>1, <3>3
  <2> QED BY <2>1, <2>2, <2>3 DEF StoreStep
<1>2. StoreInv /\ StoreInv' /\ [DisciplinedNext]_vars
        => [\A n \in Names, p \in Pages :
              StoreOf(n) # None /\ StoreOf(n)' # None /\ StoreOf(n)'[p] # StoreOf(n)[p]
                => CallerChangesPage \/ Restart]_vars
  BY <1>1
<1> QED BY <1>2, StoreInvAlways, PTL DEF DisciplinedSpec, OnlyCallersChangePages
=============================================================================
