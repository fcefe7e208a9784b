-------------------------- MODULE MyLinkListProof --------------------------
(***************************************************************************)
(* Proofs about MyLinkList for every Cap and ListNum.  MutuallyInverse is  *)
(* inductive together with TypeOK: Del joins the neighbours of an element  *)
(* and leaves it alone, and splicing an element that is alone before or    *)
(* after a head keeps the two directions inverse of each other.            *)
(***************************************************************************)
EXTENDS MyLinkList, DataLemmas, FiniteSetTheorems, TLAPS

LinkedArray(b) == b \in [Node -> [next : Node, prev : Node]]
Inverse2(b)    == \A n \in Node : b[b[n].next].prev = n /\ b[b[n].prev].next = n

\* Del keeps the array linked and leaves the element alone.
LEMMA DelKeeps ==
  ASSUME NEW b, LinkedArray(b), Inverse2(b), NEW e \in Elem
  PROVE  LET d == Del(b, e)
         IN  LinkedArray(d) /\ Inverse2(d) /\ d[e] = [next |-> e, prev |-> e]
<1> DEFINE d == Del(b, e)
           p == b[e].prev
           n == b[e].next
<1>0. e \in Node
  BY ListAssumption DEF Elem, Node
<1>1. e \in Node /\ p \in Node /\ n \in Node
  BY <1>0 DEF LinkedArray
<1>2. CASE p = e
  BY <1>1, <1>2 DEF Del, LinkedArray, Inverse2
<1>3. CASE p # e
  <2>1. n # e
    BY <1>1, <1>3 DEF Inverse2
  <2>2. d = [[b EXCEPT ![p].next = n, ![n].prev = p] EXCEPT ![e] = [next |-> e, prev |-> e]]
    BY <1>3 DEF Del, Link
  <2>3. LinkedArray(d)
    BY <1>1, <2>2 DEF LinkedArray
  <2>4. \A m \in Node : /\ d[m].next = IF m = e THEN e ELSE IF m = p THEN n ELSE b[m].next
                        /\ d[m].prev = IF m = e THEN e ELSE IF m = n THEN p ELSE b[m].prev
    BY <1>1, <2>2 DEF LinkedArray
  <2>5. Inverse2(d)
    BY <1>1, <1>3, <2>1, <2>4 DEF Inverse2, LinkedArray
  <2>6. d[e] = [next |-> e, prev |-> e]
    BY <1>1, <2>2 DEF LinkedArray
  <2> QED BY <2>3, <2>5, <2>6
<1> QED BY <1>2, <1>3

\* An element that is alone, spliced between two neighbours l and r.
LEMMA SpliceKeeps ==
  ASSUME NEW d, LinkedArray(d), Inverse2(d),
         NEW e \in Node, d[e] = [next |-> e, prev |-> e],
         NEW l \in Node, NEW r \in Node, d[l].next = r, l # e
  PROVE  LET s == Link(Link(d, l, e), e, r)
         IN  LinkedArray(s) /\ Inverse2(s)
<1> DEFINE s == Link(Link(d, l, e), e, r)
<1>1. d[r].prev = l /\ r # e
  BY DEF Inverse2
<1>2. LinkedArray(s)
  BY DEF Link, LinkedArray
<1>3. \A m \in Node : /\ s[m].next = IF m = e THEN r ELSE IF m = l THEN e ELSE d[m].next
                      /\ s[m].prev = IF m = e THEN l ELSE IF m = r THEN e ELSE d[m].prev
  <2> DEFINE t == Link(d, l, e)
  <2>1. /\ LinkedArray(t)
        /\ \A m \in Node : /\ t[m].next = IF m = l THEN e ELSE d[m].next
                           /\ t[m].prev = IF m = e THEN l ELSE d[m].prev
    BY DEF Link, LinkedArray
  <2>2. s = [t EXCEPT ![e].next = r, ![r].prev = e]
    BY DEF Link
  <2> HIDE DEF t
  <2>3. \A m \in Node : /\ s[m].next = IF m = e THEN r ELSE t[m].next
                       /\ s[m].prev = IF m = r THEN e ELSE t[m].prev
    BY <2>1, <2>2 DEF LinkedArray
  <2> QED BY <1>1, <2>1, <2>3
<1>4. Inverse2(s)
  BY <1>1, <1>3 DEF Inverse2, LinkedArray
<1> QED BY <1>2, <1>4

\* The array built by the constructor is linked: every node is alone.
LEMMA InitLinked == Init => LinkedArray(a) /\ Inverse2(a)
BY DEF Init, LinkedArray, Inverse2

\* Every operation keeps the array linked.
LEMMA StepKeeps ==
  ASSUME LinkedArray(a), Inverse2(a), [Next]_a
  PROVE  LinkedArray(a') /\ Inverse2(a')
<1>1. CASE UNCHANGED a
  BY <1>1
<1>2. ASSUME NEW e \in Elem, DoDel(e)
      PROVE  LinkedArray(a') /\ Inverse2(a')
  BY <1>2, DelKeeps DEF DoDel
<1>3. ASSUME NEW e \in Elem, NEW l \in ListId, DoInsert(l, e) \/ DoInsertFirst(l, e)
      PROVE  LinkedArray(a') /\ Inverse2(a')
  <2> DEFINE d == Del(a, e)
             h == HeadOf(l)
  <2>1. LinkedArray(d) /\ Inverse2(d) /\ d[e] = [next |-> e, prev |-> e]
    BY DelKeeps
  <2>2. e \in Node /\ h \in Node /\ h # e
    BY ListAssumption DEF Elem, Node, ListId, HeadOf
  <2>3. /\ d[h].prev \in Node /\ d[d[h].prev].next = h /\ d[h].prev # e
        /\ d[h].next \in Node
    BY <2>1, <2>2 DEF LinkedArray, Inverse2
  <2>4. CASE DoInsert(l, e)
    <3>1. a' = Link(Link(d, d[h].prev, e), e, h)
      BY <2>4 DEF DoInsert, Insert
    <3> HIDE DEF d, h
    <3> QED BY <3>1, <2>1, <2>2, <2>3, SpliceKeeps
  <2>5. CASE DoInsertFirst(l, e)
    <3>1. a' = Link(Link(d, h, e), e, d[h].next)
      BY <2>5 DEF DoInsertFirst, InsertFirst
    <3> HIDE DEF d, h
    <3> QED BY <3>1, <2>1, <2>2, <2>3, SpliceKeeps
  <2> QED BY <1>3, <2>4, <2>5
<1> QED BY <1>1, <1>2, <1>3 DEF Next

(* For every pool and every number of lists, whatever the order of the      *)
(* calls, each link of MyLinkList leads to a node of the array.             *)
THEOREM TypeCorrect == Spec => []TypeOK
<1>1. LinkedArray(a) <=> TypeOK
  BY DEF LinkedArray, TypeOK
<1>2. (LinkedArray(a) /\ Inverse2(a)) /\ [Next]_a => (LinkedArray(a) /\ Inverse2(a))'
  BY StepKeeps DEF LinkedArray, Inverse2, Node
<1> QED BY <1>1, <1>2, InitLinked, PTL DEF Spec

(* For every pool and every number of lists, next and prev stay inverse of  *)
(* each other: link, del, insert and insertFirst never leave a half-made    *)
(* link behind, so no element is on two lists.                              *)
THEOREM LinksAgree == Spec => []MutuallyInverse
<1>1. Inverse2(a) <=> MutuallyInverse
  BY DEF Inverse2, MutuallyInverse
<1>2. (LinkedArray(a) /\ Inverse2(a)) /\ [Next]_a => (LinkedArray(a) /\ Inverse2(a))'
  BY StepKeeps DEF LinkedArray, Inverse2, Node
<1> QED BY <1>1, <1>2, InitLinked, PTL DEF Spec

-----------------------------------------------------------------------------
(* The array implements Lists.  s is strung in list l of an array when      *)
(* next leads from the head along s and back; L gives each list its         *)
(* sequence.                                                                *)

At(s, l, i) == IF i \in 1 .. Len(s) THEN s[i] ELSE HeadOf(l)

Strung(b, s, l) == s \in Seq(Elem) /\ \A i \in 0 .. Len(s) : b[At(s, l, i)].next = At(s, l, i + 1)

\* No element twice, in one list or in two.
Apart(L) == \A l, m \in ListId : \A i \in DOMAIN L[l], j \in DOMAIN L[m] :
              L[l][i] = L[m][j] => l = m /\ i = j

Holds(b, L) == (\A l \in ListId : Strung(b, L[l], l)) /\ Apart(L)

\* Elements are not heads, and heads differ.
LEMMA Nodes ==
  /\ Elem \subseteq Node /\ \A e \in Elem : e \in Int /\ ~ IsHead(e)
  /\ \A l \in ListId : HeadOf(l) \in Node /\ IsHead(HeadOf(l)) /\ HeadOf(l) \notin Elem
  /\ \A l, m \in ListId : HeadOf(l) = HeadOf(m) => l = m
BY ListAssumption DEF Elem, Node, ListId, HeadOf, IsHead

\* What a place in a list holds.
LEMMA Places ==
  ASSUME NEW l \in ListId, NEW s \in Seq(Elem)
  PROVE  /\ \A i : At(s, l, i) \in Node
         /\ \A i \in 1 .. Len(s) : At(s, l, i) = s[i] /\ s[i] \in Elem
         /\ At(s, l, 0) = HeadOf(l) /\ At(s, l, Len(s) + 1) = HeadOf(l)
<1>1. Len(s) \in Nat /\ \A i \in 1 .. Len(s) : s[i] \in Elem
  OBVIOUS
<1>2. /\ 0 \notin 1 .. Len(s) /\ Len(s) + 1 \notin 1 .. Len(s)
  BY <1>1
<1> QED BY <1>1, <1>2, Nodes DEF At

\* Where next leads after Del.
LEMMA DelNext ==
  ASSUME NEW b, LinkedArray(b), Inverse2(b), NEW e \in Elem, NEW m \in Node
  PROVE  /\ m = e => Del(b, e)[m].next = e
         /\ m # e /\ b[m].next = e => Del(b, e)[m].next = b[e].next
         /\ m # e /\ b[m].next # e => Del(b, e)[m].next = b[m].next
<1> DEFINE p == b[e].prev
           n == b[e].next
<1>1. e \in Node /\ p \in Node /\ n \in Node
  BY Nodes DEF LinkedArray
<1>2. b[p].next = e /\ b[n].prev = e /\ (b[m].next = e => m = p)
  BY <1>1 DEF Inverse2
<1>3. CASE p = e
  BY <1>1, <1>2, <1>3 DEF Del
<1>4. CASE p # e
  <2>1. n # e
    BY <1>1, <1>4 DEF Inverse2
  <2>2. Del(b, e) = [[b EXCEPT ![p].next = n, ![n].prev = p] EXCEPT ![e] = [next |-> e, prev |-> e]]
    BY <1>4 DEF Del, Link
  <2>3. Del(b, e)[m].next = IF m = e THEN e ELSE IF m = p THEN n ELSE b[m].next
    BY <1>1, <2>2 DEF LinkedArray
  <2> QED BY <1>1, <1>2, <2>3
<1> QED BY <1>3, <1>4

\* Del takes the element out of the list that has it.
LEMMA DelStrung ==
  ASSUME NEW b, LinkedArray(b), Inverse2(b), NEW e \in Elem,
         NEW l \in ListId, NEW s, Strung(b, s, l), IsInjective(s)
  PROVE  Strung(Del(b, e), AbstractLists!Without(s, e), l)
<1> DEFINE d == Del(b, e)
           at == {i \in DOMAIN s : s[i] = e}
<1>1. /\ s \in Seq(Elem) /\ Len(s) \in Nat /\ DOMAIN s = 1 .. Len(s)
      /\ \A i \in 0 .. Len(s) : b[At(s, l, i)].next = At(s, l, i + 1)
  BY DEF Strung
<1>2. /\ \A i : At(s, l, i) \in Node
      /\ \A i \in 1 .. Len(s) : At(s, l, i) = s[i] /\ s[i] \in Elem
      /\ At(s, l, 0) = HeadOf(l) /\ At(s, l, Len(s) + 1) = HeadOf(l) /\ HeadOf(l) # e
  BY <1>1, Places, Nodes
<1>3. CASE at = {}
  <2>1. AbstractLists!Without(s, e) = s
    BY <1>3 DEF AbstractLists!Without
  <2>2. ASSUME NEW i \in 0 .. (Len(s) + 1) PROVE At(s, l, i) # e
    <3>1. i = 0 \/ i \in 1 .. Len(s) \/ i = Len(s) + 1
      BY <1>1
    <3> QED BY <3>1, <1>1, <1>2, <1>3
  <2>3. ASSUME NEW i \in 0 .. Len(s) PROVE d[At(s, l, i)].next = At(s, l, i + 1)
    <3>1. i \in 0 .. (Len(s) + 1) /\ i + 1 \in 0 .. (Len(s) + 1)
      BY <1>1
    <3>2. At(s, l, i) # e /\ b[At(s, l, i)].next # e
      BY <3>1, <2>2, <1>1
    <3> QED BY <3>2, <1>1, <1>2, DelNext
  <2> QED BY <2>1, <2>3, <1>1 DEF Strung
<1>4. CASE at # {}
  <2> DEFINE k == Min(at)
             w == AbstractLists!Without(s, e)
  <2>1. k \in 1 .. Len(s) /\ s[k] = e
    <3>1. at \subseteq Nat
      BY <1>1
    <3>2. k \in at
      BY ONLY <1>4, <3>1, LeastNat
    <3> QED BY <3>2, <1>1
  <2>2. w = RemoveAt(s, k)
    BY <1>4 DEF AbstractLists!Without, AbstractLists!RemoveAt, AbstractLists!Min, RemoveAt, Min
  <2> HIDE DEF w, k, at
  <2>3. /\ w \in Seq(Elem) /\ Len(w) = Len(s) - 1
        /\ \A i \in 1 .. (Len(s) - 1) : w[i] = IF i < k THEN s[i] ELSE s[i + 1]
    BY ONLY <2>1, <2>2, <1>1, RemoveAtFacts
  <2>4. ASSUME NEW i \in 0 .. Len(s)
        PROVE  At(w, l, i) = IF i < k THEN At(s, l, i) ELSE At(s, l, i + 1)
    <3>1. CASE i \in 1 .. Len(w)
      <4>1. At(w, l, i) = w[i]
        BY <3>1 DEF At
      <4>2. i \in 1 .. Len(s) /\ i + 1 \in 1 .. Len(s)
        BY <3>1, <2>3, <1>1
      <4> QED BY <4>1, <4>2, <3>1, <2>3, <1>2
    <3>2. CASE i = 0
      <4>1. At(w, l, i) = HeadOf(l) /\ i < k
        BY <3>2, <2>1 DEF At
      <4> QED BY <4>1, <3>2, <1>2
    <3>3. CASE i = Len(s)
      <4>1. At(w, l, i) = HeadOf(l) /\ ~ (i < k)
        BY <3>3, <2>1, <2>3, <1>1 DEF At
      <4> QED BY <4>1, <3>3, <1>2
    <3> QED BY <3>1, <3>2, <3>3, <2>3, <1>1
  <2>5. ASSUME NEW i \in 0 .. (Len(s) + 1), At(s, l, i) = e PROVE i = k
    <3>1. i = 0 \/ i \in 1 .. Len(s) \/ i = Len(s) + 1
      BY <1>1
    <3>2. i \in 1 .. Len(s)
      BY <3>1, <2>5, <1>2
    <3> QED BY <3>2, <2>1, <2>5, <1>1, <1>2 DEF IsInjective
  <2>6. ASSUME NEW i \in 0 .. Len(w) PROVE d[At(w, l, i)].next = At(w, l, i + 1)
    <3>0. i \in 0 .. (Len(s) - 1) /\ i \in 0 .. Len(s) /\ i + 1 \in 0 .. Len(s) /\ k \in Int
      BY <2>1, <2>3, <1>1
    <3>1. CASE i + 1 < k
      <4>1. At(w, l, i) = At(s, l, i) /\ At(w, l, i + 1) = At(s, l, i + 1)
        BY <3>0, <3>1, <2>4
      <4>2. i \in 0 .. (Len(s) + 1) /\ i + 1 \in 0 .. (Len(s) + 1) /\ i # k /\ i + 1 # k
        BY <3>0, <3>1, <1>1
      <4>3. At(s, l, i) # e /\ At(s, l, i + 1) # e
        BY <4>2, <2>5
      <4>4. b[At(s, l, i)].next = At(s, l, i + 1)
        BY <3>0, <1>1
      <4> QED BY <4>1, <4>3, <4>4, <1>2, DelNext
    <3>2. CASE i + 1 = k
      <4>1. At(w, l, i) = At(s, l, i) /\ At(w, l, i + 1) = At(s, l, i + 2)
        BY <3>0, <3>2, <2>4
      <4>2. i \in 0 .. (Len(s) + 1) /\ i # k
        BY <3>0, <3>2, <1>1
      <4>3. At(s, l, i) # e
        BY <4>2, <2>5
      <4>4. b[At(s, l, i)].next = e
        BY <3>0, <3>2, <1>1, <1>2, <2>1
      <4>5. b[e].next = At(s, l, i + 2)
        <5>1. k \in 0 .. Len(s) /\ k + 1 = i + 2 /\ At(s, l, k) = e
          BY <3>0, <3>2, <2>1, <1>1, <1>2
        <5> QED BY <5>1, <1>1
      <4> QED BY <4>1, <4>3, <4>4, <4>5, <1>2, DelNext
    <3>3. CASE i + 1 > k
      <4>1. At(w, l, i) = At(s, l, i + 1) /\ At(w, l, i + 1) = At(s, l, i + 2)
        <5>1. ~ (i < k) /\ ~ (i + 1 < k) /\ (i + 1) + 1 = i + 2
          BY <3>0, <3>3
        <5> QED BY <3>0, <5>1, <2>4
      <4>2. i + 1 \in 0 .. (Len(s) + 1) /\ i + 2 \in 0 .. (Len(s) + 1) /\ i + 1 # k /\ i + 2 # k
        BY <3>0, <3>3, <1>1
      <4>3. At(s, l, i + 1) # e /\ At(s, l, i + 2) # e
        BY <4>2, <2>5
      <4>4. b[At(s, l, i + 1)].next = At(s, l, i + 2)
        <5>1. (i + 1) + 1 = i + 2
          BY <3>0
        <5> QED BY <5>1, <3>0, <1>1
      <4> QED BY <4>1, <4>3, <4>4, <1>2, DelNext
    <3> QED BY <3>0, <3>1, <3>2, <3>3
  <2> QED BY <2>3, <2>6 DEF Strung, w
<1> QED BY <1>3, <1>4

\* Where the i-th element of s without e was in s.
Source(s, e, i) ==
  LET at == {j \in DOMAIN s : s[j] = e} IN IF at = {} \/ i < Min(at) THEN i ELSE i + 1

LEMMA WithoutAt ==
  ASSUME NEW s \in Seq(Elem), IsInjective(s), NEW e
  PROVE  LET w == AbstractLists!Without(s, e)
         IN  /\ \A i \in DOMAIN w : /\ Source(s, e, i) \in DOMAIN s
                                    /\ w[i] = s[Source(s, e, i)] /\ w[i] # e
             /\ \A i, j \in DOMAIN w : Source(s, e, i) = Source(s, e, j) => i = j
<1> DEFINE at == {j \in DOMAIN s : s[j] = e}
           k == Min(at)
           w == AbstractLists!Without(s, e)
<1>1. Len(s) \in Nat /\ DOMAIN s = 1 .. Len(s) /\ \A i \in 1 .. Len(s) : s[i] \in Elem
  OBVIOUS
<1>2. CASE at = {}
  <2>1. w = s /\ \A i : Source(s, e, i) = i
    BY <1>2 DEF AbstractLists!Without, Source
  <2> QED BY <2>1, <1>2
<1>3. CASE at # {}
  <2>1. k \in 1 .. Len(s) /\ s[k] = e
    <3>1. at \subseteq Nat
      BY <1>1
    <3>2. k \in at
      BY ONLY <1>3, <3>1, LeastNat
    <3> QED BY <3>2, <1>1
  <2>2. w = RemoveAt(s, k) /\ \A i : Source(s, e, i) = IF i < k THEN i ELSE i + 1
    BY <1>3 DEF AbstractLists!Without, AbstractLists!RemoveAt, AbstractLists!Min, RemoveAt, Min, Source
  <2>3. \A i, j \in DOMAIN s : s[i] = s[j] => i = j
    BY DEF IsInjective
  <2> HIDE DEF w, k, at
  <2>4. /\ w \in Seq(Elem) /\ Len(w) = Len(s) - 1
        /\ \A i \in 1 .. (Len(s) - 1) : w[i] = IF i < k THEN s[i] ELSE s[i + 1]
    BY ONLY <2>1, <2>2, <1>1, s \in Seq(Elem), RemoveAtFacts
  <2>5. DOMAIN w = 1 .. (Len(s) - 1) /\ k \in Int
    BY <2>1, <2>4
  <2>6. ASSUME NEW i \in DOMAIN w
        PROVE  Source(s, e, i) \in DOMAIN s /\ w[i] = s[Source(s, e, i)] /\ Source(s, e, i) # k
    BY <2>1, <2>2, <2>4, <2>5, <1>1
  <2>7. ASSUME NEW i \in DOMAIN w, NEW j \in DOMAIN w, Source(s, e, i) = Source(s, e, j)
        PROVE  i = j
    <3>1. i \in Int /\ j \in Int /\ k \in Int
      BY <2>5, <1>1
    <3> QED BY <3>1, <2>2, <2>7
  <2> QED BY <2>1, <2>3, <2>6, <2>7 DEF w
<1> QED BY <1>2, <1>3

\* e is in no list.
Nowhere(e, L) == \A l \in ListId : \A i \in DOMAIN L[l] : L[l][i] # e

\* Del takes the element out of every list.
LEMMA DelHolds ==
  ASSUME NEW b, LinkedArray(b), Inverse2(b), NEW e \in Elem, NEW L, Holds(b, L)
  PROVE  LET M == [l \in ListId |-> AbstractLists!Without(L[l], e)]
         IN  /\ Holds(Del(b, e), M)
             /\ Nowhere(e, M)
<1> USE DEF Nowhere
<1> DEFINE M == [l \in ListId |-> AbstractLists!Without(L[l], e)]
<1>1. ASSUME NEW l \in ListId
      PROVE  L[l] \in Seq(Elem) /\ IsInjective(L[l])
  BY DEF Holds, Strung, Apart, IsInjective
<1>2. ASSUME NEW l \in ListId PROVE Strung(Del(b, e), M[l], l)
  BY <1>1, DelStrung DEF Holds
<1>3. ASSUME NEW l \in ListId, NEW i \in DOMAIN M[l]
      PROVE  /\ Source(L[l], e, i) \in DOMAIN L[l]
             /\ M[l][i] = L[l][Source(L[l], e, i)] /\ M[l][i] # e
  BY <1>1, WithoutAt
<1>4. ASSUME NEW l \in ListId, NEW i \in DOMAIN M[l], NEW j \in DOMAIN M[l],
             Source(L[l], e, i) = Source(L[l], e, j)
      PROVE  i = j
  BY <1>1, <1>4, WithoutAt
<1> HIDE DEF M
<1>5. ASSUME NEW l \in ListId, NEW m \in ListId, NEW i \in DOMAIN M[l], NEW j \in DOMAIN M[m],
             M[l][i] = M[m][j]
      PROVE  l = m /\ i = j
  <2>1. l = m /\ Source(L[l], e, i) = Source(L[m], e, j)
    BY <1>3, <1>5 DEF Holds, Apart
  <2> QED BY <2>1, <1>4
<1>6. Holds(Del(b, e), M)
  BY <1>2, <1>5 DEF Holds, Apart
<1> QED BY <1>3, <1>6 DEF M

\* Where next leads when an element that is alone is put between two neighbours.
LEMMA SpliceNext ==
  ASSUME NEW d, LinkedArray(d), NEW e \in Node, NEW p \in Node, NEW n \in Node, p # e, NEW m \in Node
  PROVE  Link(Link(d, p, e), e, n)[m].next = IF m = e THEN n ELSE IF m = p THEN e ELSE d[m].next
<1> DEFINE t == Link(d, p, e)
<1>1. LinkedArray(t) /\ t[m].next = IF m = p THEN e ELSE d[m].next
  BY DEF Link, LinkedArray
<1>2. Link(t, e, n) = [t EXCEPT ![e].next = n, ![n].prev = e]
  BY DEF Link
<1> HIDE DEF t
<1>3. Link(t, e, n)[m].next = IF m = e THEN n ELSE t[m].next
  BY <1>1, <1>2 DEF LinkedArray
<1> QED BY <1>1, <1>3 DEF t

\* A list that does not have e nor the node before its new place.
LEMMA SpliceOther ==
  ASSUME NEW d, LinkedArray(d), NEW e \in Node, NEW p \in Node, NEW n \in Node, p # e,
         NEW m \in ListId, NEW s, Strung(d, s, m),
         \A i \in 0 .. Len(s) : At(s, m, i) # e /\ At(s, m, i) # p
  PROVE  Strung(Link(Link(d, p, e), e, n), s, m)
<1>1. s \in Seq(Elem)
  BY DEF Strung
<1>2. ASSUME NEW i \in 0 .. Len(s)
      PROVE  Link(Link(d, p, e), e, n)[At(s, m, i)].next = At(s, m, i + 1)
  <2>1. At(s, m, i) \in Node
    BY <1>1, Places
  <2> QED BY <2>1, SpliceNext DEF Strung
<1> QED BY <1>1, <1>2 DEF Strung

\* The x-th of c is e, the others are those of s, the i-th the src[i]-th.
OneMore(c, s, x, e, src) ==
  /\ \A i \in DOMAIN c : IF i = x THEN c[i] = e ELSE src[i] \in DOMAIN s /\ c[i] = s[src[i]]
  /\ \A i, j \in DOMAIN c : i # x /\ j # x /\ src[i] = src[j] => i = j

LEMMA OneMoreApart ==
  ASSUME NEW M, DOMAIN M = ListId, Apart(M), NEW l \in ListId, NEW e, Nowhere(e, M),
         NEW c, NEW x, NEW src, OneMore(c, M[l], x, e, src)
  PROVE  Apart([M EXCEPT ![l] = c])
<1> USE DEF Nowhere, OneMore
<1> DEFINE N == [M EXCEPT ![l] = c]
<1>1. N[l] = c /\ \A m \in ListId : m # l => N[m] = M[m]
  OBVIOUS
<1> HIDE DEF N
<1>2. ASSUME NEW m \in ListId, NEW i \in DOMAIN N[l], NEW j \in DOMAIN N[m], N[l][i] = N[m][j]
      PROVE  l = m /\ i = j
  <2>1. CASE m = l
    <3>1. i \in DOMAIN c /\ j \in DOMAIN c /\ c[i] = c[j]
      BY <1>1, <1>2, <2>1
    <3>2. i = x <=> j = x
      BY <3>1
    <3>3. ASSUME i # x, j # x PROVE src[i] = src[j]
      BY <3>1, <3>3 DEF Apart
    <3> QED BY <2>1, <3>1, <3>2, <3>3
  <2>2. CASE m # l
    <3>1. i \in DOMAIN c /\ j \in DOMAIN M[m] /\ c[i] = M[m][j]
      BY <1>1, <1>2, <2>2
    <3> QED BY <2>2, <3>1 DEF Apart
  <2> QED BY <2>1, <2>2
<1>3. ASSUME NEW k \in ListId, NEW m \in ListId, NEW i \in DOMAIN N[k], NEW j \in DOMAIN N[m],
             N[k][i] = N[m][j]
      PROVE  k = m /\ i = j
  <2>1. CASE k = l
    BY <1>2, <1>3, <2>1
  <2>2. CASE m = l
    BY <1>2, <1>3, <2>2
  <2>3. CASE k # l /\ m # l
    BY <1>1, <1>3, <2>3 DEF Apart
  <2> QED BY <2>1, <2>2, <2>3
<1> QED BY <1>3 DEF Apart, N

\* An element that is alone and in no list is put before the first of a list.
LEMMA FrontHolds ==
  ASSUME NEW d, LinkedArray(d), Inverse2(d), NEW M, DOMAIN M = ListId, Holds(d, M),
         NEW e \in Elem, Nowhere(e, M), NEW l \in ListId
  PROVE  Holds(Link(Link(d, HeadOf(l), e), e, d[HeadOf(l)].next), [M EXCEPT ![l] = Cons(e, @)])
<1> DEFINE h == HeadOf(l)
           r == d[h].next
           b == Link(Link(d, h, e), e, r)
           s == M[l]
           c == Cons(e, s)
           N == [M EXCEPT ![l] = c]
<1>1. /\ s \in Seq(Elem) /\ Len(s) \in Nat /\ DOMAIN s = 1 .. Len(s)
      /\ \A i \in 0 .. Len(s) : d[At(s, l, i)].next = At(s, l, i + 1)
  BY DEF Holds, Strung
<1>2. e \in Node /\ h \in Node /\ h # e /\ h \notin Elem /\ r \in Node
  BY Nodes DEF LinkedArray
<1> HIDE DEF c, s, h, r
<1>3. /\ c \in Seq(Elem) /\ Len(c) = Len(s) + 1 /\ DOMAIN c = 1 .. (Len(s) + 1)
      /\ c[1] = e /\ \A i \in 1 .. Len(s) : c[i + 1] = s[i]
  <2>1. /\ c \in Seq(Elem) /\ Len(c) = Len(s) + 1
        /\ c[1] = e /\ \A i \in 1 .. Len(s) : c[i + 1] = s[i]
    <3>1. s \in Seq(Elem)
      BY <1>1
    <3> QED BY ONLY <3>1, e \in Elem, ConsAt DEF c
  <2> QED BY <2>1, <1>1
<1>4. ASSUME NEW m \in ListId, m # l PROVE Strung(b, M[m], m)
  <2>1. Strung(d, M[m], m) /\ M[m] \in Seq(Elem)
    BY DEF Holds, Strung
  <2>2. ASSUME NEW i \in 0 .. Len(M[m]) PROVE At(M[m], m, i) # e /\ At(M[m], m, i) # h
    <3>1. CASE i \in 1 .. Len(M[m])
      BY <2>1, <3>1, <1>2, Places DEF Nowhere
    <3>2. CASE i \notin 1 .. Len(M[m])
      BY <3>2, <1>4, Nodes DEF At, h
    <3> QED BY <3>1, <3>2
  <2> QED BY <1>2, <2>1, <2>2, SpliceOther
<1>5. Strung(b, c, l)
  <2>1. At(c, l, 0) = h /\ At(c, l, 1) = e /\ At(s, l, 0) = h
    BY <1>1, <1>3 DEF At, h
  <2>2. ASSUME NEW i \in 1 .. (Len(s) + 1) PROVE At(c, l, i + 1) = At(s, l, i)
    <3>1. CASE i \in 1 .. Len(s)
      <4>1. i + 1 \in 1 .. Len(c)
        BY <3>1, <1>1, <1>3
      <4> QED BY <4>1, <3>1, <1>3 DEF At
    <3>2. CASE i = Len(s) + 1
      <4>1. i \notin 1 .. Len(s) /\ i + 1 \notin 1 .. Len(c)
        BY <3>2, <1>1, <1>3
      <4> QED BY <4>1 DEF At
    <3> QED BY <3>1, <3>2, <1>1
  <2>3. ASSUME NEW i \in 0 .. Len(c) PROVE b[At(c, l, i)].next = At(c, l, i + 1)
    <3>1. CASE i = 0
      <4>1. b[h].next = e
        BY <1>2, SpliceNext
      <4> QED BY <3>1, <4>1, <2>1
    <3>2. CASE i = 1
      <4>1. b[e].next = r
        BY <1>2, SpliceNext
      <4>2. r = At(s, l, 1)
        BY <1>1, <2>1 DEF r
      <4>3. At(c, l, 2) = At(s, l, 1)
        <5>1. 1 \in 1 .. (Len(s) + 1) /\ 1 + 1 = 2
          BY <1>1
        <5> QED BY <5>1, <2>2
      <4> QED BY <3>2, <4>1, <4>2, <4>3, <2>1
    <3>3. CASE i \in 2 .. (Len(s) + 1)
      <4>1. i - 1 \in 1 .. Len(s) /\ (i - 1) + 1 = i
        BY <3>3, <1>1
      <4>2. At(c, l, i) = At(s, l, i - 1) /\ At(c, l, i + 1) = At(s, l, i)
        <5>1. i - 1 \in 1 .. (Len(s) + 1) /\ i \in 1 .. (Len(s) + 1)
          BY <4>1, <1>1, <3>3
        <5> QED BY <4>1, <5>1, <2>2
      <4>3. At(s, l, i - 1) \in Node /\ At(s, l, i - 1) # e /\ At(s, l, i - 1) # h
        <5>1. At(s, l, i - 1) = s[i - 1] /\ s[i - 1] \in Elem
          BY <4>1, <1>1, Places
        <5> QED BY <5>1, <4>1, <1>1, <1>2, Nodes DEF s, Nowhere
      <4>4. d[At(s, l, i - 1)].next = At(s, l, i)
        <5>1. i - 1 \in 0 .. Len(s)
          BY <4>1, <1>1
        <5> QED BY <5>1, <4>1, <1>1
      <4>5. b[At(s, l, i - 1)].next = d[At(s, l, i - 1)].next
        BY <4>3, <1>2, SpliceNext
      <4> QED BY <4>2, <4>4, <4>5
    <3> QED BY <3>1, <3>2, <3>3, <1>1, <1>3
  <2> QED BY <2>3, <1>3 DEF Strung
<1>6. Apart(N)
  <2> DEFINE src == [i \in DOMAIN c |-> i - 1]
  <2>1. 1 \in DOMAIN c => c[1] = e
    BY <1>3
  <2>2. ASSUME NEW i \in DOMAIN c, i # 1 PROVE src[i] \in DOMAIN s /\ c[i] = s[src[i]]
    <3>1. i - 1 \in 1 .. Len(s) /\ (i - 1) + 1 = i
      BY <1>1, <1>3, <2>2
    <3> QED BY <3>1, <1>1, <1>3
  <2>3. \A i, j \in DOMAIN c : i # 1 /\ j # 1 /\ src[i] = src[j] => i = j
    BY <1>1, <1>3
  <2>4. Apart(M)
    BY DEF Holds
  <2> HIDE DEF src
  <2>5. OneMore(c, M[l], 1, e, src)
    BY <2>1, <2>2, <2>3 DEF OneMore, s
  <2> QED BY <2>4, <2>5, OneMoreApart
<1>7. \A m \in ListId : N[m] = IF m = l THEN c ELSE M[m]
  OBVIOUS
<1>8. N = [M EXCEPT ![l] = Cons(e, @)]
  BY DEF c, s
<1> HIDE DEF N, b
<1>9. Holds(b, N)
  BY <1>4, <1>5, <1>6, <1>7 DEF Holds
<1> QED BY <1>8, <1>9 DEF b, h, r

\* Likewise behind the last.
LEMMA BackHolds ==
  ASSUME NEW d, LinkedArray(d), Inverse2(d), NEW M, DOMAIN M = ListId, Holds(d, M),
         NEW e \in Elem, Nowhere(e, M), d[e].next = e, NEW l \in ListId
  PROVE  Holds(Link(Link(d, d[HeadOf(l)].prev, e), e, HeadOf(l)), [M EXCEPT ![l] = Append(@, e)])
<1> DEFINE h == HeadOf(l)
           p == d[h].prev
           b == Link(Link(d, p, e), e, h)
           s == M[l]
           c == Append(s, e)
           N == [M EXCEPT ![l] = c]
<1>1. /\ s \in Seq(Elem) /\ Len(s) \in Nat /\ DOMAIN s = 1 .. Len(s)
      /\ \A i \in 0 .. Len(s) : d[At(s, l, i)].next = At(s, l, i + 1)
  BY DEF Holds, Strung
<1>2. e \in Node /\ h \in Node /\ h # e /\ h \notin Elem /\ p \in Node /\ d[p].next = h /\ p # e
  BY Nodes DEF LinkedArray, Inverse2
<1>3. /\ c \in Seq(Elem) /\ Len(c) = Len(s) + 1 /\ DOMAIN c = 1 .. (Len(s) + 1)
      /\ c[Len(s) + 1] = e /\ \A i \in 1 .. Len(s) : c[i] = s[i]
  BY <1>1
<1> HIDE DEF c, s, h, p
<1>4. ASSUME NEW m \in ListId, m # l PROVE Strung(b, M[m], m)
  <2>1. Strung(d, M[m], m) /\ M[m] \in Seq(Elem) /\ Len(M[m]) \in Nat
    BY DEF Holds, Strung
  <2>2. ASSUME NEW i \in 0 .. (Len(M[m]) + 1) PROVE At(M[m], m, i) # e /\ At(M[m], m, i) # h
    <3>1. CASE i \in 1 .. Len(M[m])
      BY <2>1, <3>1, <1>2, Places DEF Nowhere
    <3>2. CASE i \notin 1 .. Len(M[m])
      BY <3>2, <1>4, Nodes DEF At, h
    <3> QED BY <3>1, <3>2
  <2>3. ASSUME NEW i \in 0 .. Len(M[m]) PROVE At(M[m], m, i) # p
    <3>1. i \in 0 .. (Len(M[m]) + 1) /\ i + 1 \in 0 .. (Len(M[m]) + 1)
      BY <2>1
    <3>2. d[At(M[m], m, i)].next # h
      BY <3>1, <2>1, <2>2 DEF Strung
    <3> QED BY <3>2, <1>2
  <2>4. \A i \in 0 .. Len(M[m]) : At(M[m], m, i) # e /\ At(M[m], m, i) # p
    <3>1. \A i \in 0 .. Len(M[m]) : i \in 0 .. (Len(M[m]) + 1)
      BY <2>1
    <3> QED BY <3>1, <2>2, <2>3
  <2> QED BY <1>2, <2>1, <2>4, SpliceOther
<1>5. Strung(b, c, l)
  <2>1. /\ At(s, l, 0) = h /\ At(s, l, Len(s) + 1) = h
        /\ At(c, l, Len(s) + 1) = e /\ At(c, l, Len(s) + 2) = h
    BY <1>1, <1>3 DEF At, h
  <2>2. ASSUME NEW i \in 0 .. Len(s) PROVE At(c, l, i) = At(s, l, i)
    <3>1. i \in 1 .. Len(c) <=> i \in 1 .. Len(s)
      BY <1>1, <1>3
    <3> QED BY <3>1, <1>3 DEF At
  <2>3. ASSUME NEW i \in 0 .. Len(s) PROVE At(s, l, i) \in Node /\ At(s, l, i) # e
    <3>1. CASE i = 0
      BY <3>1, <2>1, <1>2
    <3>2. CASE i \in 1 .. Len(s)
      <4>1. At(s, l, i) = s[i] /\ s[i] \in Elem
        BY <3>2, <1>1, Places
      <4> QED BY <4>1, <3>2, <1>1, Nodes DEF s, Nowhere
    <3> QED BY <3>1, <3>2, <1>1
  <2>4. ASSUME NEW i \in 0 .. Len(c) PROVE b[At(c, l, i)].next = At(c, l, i + 1)
    <3>1. CASE i \in 0 .. (Len(s) - 1)
      <4>1. i \in 0 .. Len(s) /\ i + 1 \in 1 .. Len(s) /\ i + 1 \in 0 .. Len(s)
        BY <3>1, <1>1
      <4>2. d[At(s, l, i)].next = At(s, l, i + 1) /\ At(s, l, i + 1) \in Elem
        BY <4>1, <1>1, Places
      <4>3. At(s, l, i) # p
        BY <4>2, <1>2
      <4>4. b[At(s, l, i)].next = d[At(s, l, i)].next
        BY <4>1, <4>3, <2>3, <1>2, SpliceNext
      <4> QED BY <4>1, <4>2, <4>4, <2>2
    <3>2. CASE i = Len(s)
      <4>1. i \in 0 .. Len(s) /\ At(c, l, i) = At(s, l, i) /\ At(c, l, i + 1) = e
        BY <3>2, <2>1, <2>2, <1>1
      <4>2. d[At(s, l, i)].next = h
        BY <4>1, <3>2, <2>1, <1>1
      <4>3. At(s, l, i) = p
        BY <4>1, <4>2, <2>3 DEF Inverse2, p
      <4>4. b[p].next = e
        BY <1>2, SpliceNext
      <4> QED BY <4>1, <4>3, <4>4
    <3>3. CASE i = Len(s) + 1
      <4>1. b[e].next = h
        BY <1>2, SpliceNext
      <4>2. i + 1 = Len(s) + 2
        BY <3>3, <1>1
      <4> QED BY <3>3, <4>1, <4>2, <2>1
    <3>4. i \in 0 .. (Len(s) - 1) \/ i = Len(s) \/ i = Len(s) + 1
      <4>1. Len(s) \in Nat /\ Len(c) = Len(s) + 1
        BY <1>1, <1>3
      <4>2. i \in Int /\ 0 <= i /\ i <= Len(s) + 1
        BY ONLY <4>1, i \in 0 .. Len(c)
      <4> QED BY ONLY <4>1, <4>2
    <3> QED BY <3>1, <3>2, <3>3, <3>4
  <2> QED BY <2>4, <1>3 DEF Strung
<1>6. Apart(N)
  <2> DEFINE src == [i \in DOMAIN c |-> i]
             x == Len(s) + 1
  <2>1. c[x] = e
    BY <1>3
  <2>2. ASSUME NEW i \in DOMAIN c, i # x PROVE src[i] \in DOMAIN s /\ c[i] = s[src[i]]
    <3>1. i \in 1 .. Len(s)
      BY <1>1, <1>3, <2>2
    <3> QED BY <3>1, <1>1, <1>3
  <2>3. \A i, j \in DOMAIN c : i # x /\ j # x /\ src[i] = src[j] => i = j
    BY <1>1, <1>3
  <2>4. Apart(M)
    BY DEF Holds
  <2> HIDE DEF src, x
  <2>5. OneMore(c, M[l], x, e, src)
    BY <2>1, <2>2, <2>3 DEF OneMore, s
  <2> QED BY <2>4, <2>5, OneMoreApart
<1>7. \A m \in ListId : N[m] = IF m = l THEN c ELSE M[m]
  OBVIOUS
<1>8. N = [M EXCEPT ![l] = Append(@, e)]
  BY DEF c, s
<1> HIDE DEF N, b
<1>9. Holds(b, N)
  BY <1>4, <1>5, <1>6, <1>7 DEF Holds
<1> QED BY <1>8, <1>9 DEF b, h, p

-----------------------------------------------------------------------------
(* What a client sees.                                                      *)

\* A list has no more elements than there are.
LEMMA ShortLists ==
  ASSUME NEW s \in Seq(Elem), IsInjective(s)
  PROVE  Len(s) \in Nat /\ Len(s) <= Cap
<1>1. Cap \in Nat /\ 0 \in Int /\ Cap - 1 \in Int /\ Len(s) \in Nat /\ 1 \in Int /\ Len(s) \in Int
  BY ListAssumption
<1>2. IsFiniteSet(0 .. (Cap - 1)) /\ Cardinality(0 .. (Cap - 1)) = IF 0 > Cap - 1 THEN 0 ELSE (Cap - 1) - 0 + 1
  BY ONLY <1>1, FS_Interval
<1>3. IsFiniteSet(1 .. Len(s)) /\ Cardinality(1 .. Len(s)) = IF 1 > Len(s) THEN 0 ELSE Len(s) - 1 + 1
  BY ONLY <1>1, FS_Interval
<1>4. IsFiniteSet(Elem) /\ Cardinality(Elem) = Cap /\ Cardinality(1 .. Len(s)) = Len(s)
  BY <1>1, <1>2, <1>3 DEF Elem
<1>5. s \in [1 .. Len(s) -> Elem]
  OBVIOUS
<1>6. \A i, j \in 1 .. Len(s) : s[i] = s[j] => i = j
  BY DEF IsInjective
<1>7. ~ (Cardinality(1 .. Len(s)) > Cardinality(Elem))
  <2>1. ASSUME Cardinality(1 .. Len(s)) > Cardinality(Elem)
        PROVE  \E i, j \in 1 .. Len(s) : i # j /\ s[i] = s[j]
    BY ONLY <1>3, <1>4, <1>5, <2>1, FS_PigeonHole
  <2> QED BY <2>1, <1>6
<1> QED BY <1>1, <1>4, <1>7

\* The walk along next from a head: b is any array.
WalkFrom(b, x) == Iteration(Node, Cap, x, [k \in 1 .. Cap |-> [n \in Node |-> b[n].next]])

LEMMA WalkIs ==
  ASSUME TypeOK, NEW l \in ListId
  PROVE  LET walk[k \in 0 .. Cap] == IF k = 0 THEN a[HeadOf(l)].next ELSE a[walk[k - 1]].next
         IN  /\ walk \in [0 .. Cap -> Node]
             /\ walk[0] = a[HeadOf(l)].next
             /\ \A k \in 1 .. Cap : walk[k] = a[walk[k - 1]].next
<1> DEFINE x == a[HeadOf(l)].next
           step == [k \in 1 .. Cap |-> [n \in Node |-> a[n].next]]
           f == WalkFrom(a, x)
<1>1. x \in Node /\ Cap \in Nat /\ step \in [1 .. Cap -> [Node -> Node]]
  BY Nodes, ListAssumption DEF TypeOK
<1>2. f = Iteration(Node, Cap, x, step)
  BY DEF WalkFrom
<1> HIDE DEF f, step, x
<1>3. Iterates(f, Node, Cap, x, step)
  BY <1>1, <1>2, IterationExists
<1>4. f \in [0 .. Cap -> Node] /\ f[0] = x
  BY <1>3 DEF Iterates
<1>5. ASSUME NEW k \in 1 .. Cap PROVE f[k] = a[f[k - 1]].next
  <2>1. f[k] = step[k][f[k - 1]]
    BY <1>3 DEF Iterates
  <2>2. f[k - 1] \in Node
    BY <1>1, <1>4
  <2> QED BY <2>1, <2>2 DEF step
<1>6. f = [k \in 0 .. Cap |-> IF k = 0 THEN a[HeadOf(l)].next ELSE a[f[k - 1]].next]
  BY <1>1, <1>4, <1>5 DEF x
<1> DEFINE walk[k \in 0 .. Cap] == IF k = 0 THEN a[HeadOf(l)].next ELSE a[walk[k - 1]].next
<1>7. walk = [k \in 0 .. Cap |-> IF k = 0 THEN a[HeadOf(l)].next ELSE a[walk[k - 1]].next]
  BY <1>6
<1> HIDE DEF walk
<1>8. walk[0] = x
  BY <1>1, <1>7 DEF x
<1>9. ASSUME NEW k \in 1 .. Cap PROVE walk[k] = a[walk[k - 1]].next
  BY <1>1, <1>7
<1>10. walk \in [0 .. Cap -> Node]
  <2> DEFINE Bad == {k \in 0 .. Cap : walk[k] \notin Node}
  <2>1. CASE Bad = {}
    BY <2>1, <1>7
  <2>2. CASE Bad # {}
    <3> DEFINE n == Min(Bad)
    <3>1. n \in Bad /\ \A y \in Bad : n <= y
      <4>1. Bad \subseteq Nat
        OBVIOUS
      <4> HIDE DEF Bad
      <4> QED BY <4>1, <2>2, LeastNat
    <3>2. n \in 0 .. Cap /\ walk[n] \notin Node
      BY <3>1
    <3> HIDE DEF n, Bad
    <3>3. n # 0
      BY <3>2, <1>8, <1>1
    <3>4. n \in 1 .. Cap /\ n - 1 \in 0 .. Cap /\ ~ (n <= n - 1)
      BY <3>2, <3>3, <1>1
    <3>5. walk[n - 1] \in Node
      BY <3>1, <3>4 DEF Bad
    <3>6. a[walk[n - 1]].next \in Node
      BY <3>5 DEF TypeOK
    <3> QED BY <3>2, <3>4, <3>6, <1>9
  <2> QED BY <2>1, <2>2
<1> QED BY <1>8, <1>9, <1>10 DEF walk, x

\* A client sees the sequence that is strung.
LEMMA SeesStrung ==
  ASSUME TypeOK, NEW l \in ListId, NEW s, Strung(a, s, l), IsInjective(s)
  PROVE  Contents(l) = s
<1> DEFINE walk[k \in 0 .. Cap] == IF k = 0 THEN a[HeadOf(l)].next ELSE a[walk[k - 1]].next
           ends == {k \in 0 .. Cap : IsHead(walk[k])}
           len  == IF ends = {} THEN Cap ELSE Min(ends)
<1>1. /\ s \in Seq(Elem) /\ Len(s) \in Nat /\ DOMAIN s = 1 .. Len(s) /\ Len(s) <= Cap /\ Cap \in Nat
      /\ \A i \in 0 .. Len(s) : a[At(s, l, i)].next = At(s, l, i + 1)
  BY ShortLists, ListAssumption DEF Strung
<1>2. Contents(l) = [k \in 1 .. len |-> walk[k - 1]]
  BY DEF Contents
<1>3. walk[0] = a[HeadOf(l)].next /\ \A k \in 1 .. Cap : walk[k] = a[walk[k - 1]].next
  BY WalkIs
<1> HIDE DEF walk
<1>4. ASSUME NEW k \in 0 .. Len(s) PROVE walk[k] = At(s, l, k + 1)
  <2> DEFINE Bad == {n \in 0 .. Len(s) : walk[n] # At(s, l, n + 1)}
             n == Min(Bad)
  <2> SUFFICES ASSUME Bad # {} PROVE FALSE
    OBVIOUS
  <2>1. n \in Bad /\ \A y \in Bad : n <= y
    <3>1. Bad \subseteq Nat
      BY <1>1
    <3> HIDE DEF Bad
    <3> QED BY <3>1, LeastNat
  <2>2. n \in 0 .. Len(s) /\ walk[n] # At(s, l, n + 1)
    BY <2>1
  <2> HIDE DEF n, Bad
  <2>3. n # 0
    <3>1. At(s, l, 0) = HeadOf(l) /\ 0 \in 0 .. Len(s) /\ 0 + 1 = 1
      BY <1>1, Places
    <3>2. a[HeadOf(l)].next = At(s, l, 1)
      BY <3>1, <1>1
    <3> QED BY <3>2, <2>2, <1>3
  <2>4. n \in 1 .. Cap /\ n - 1 \in 0 .. Len(s) /\ ~ (n <= n - 1) /\ (n - 1) + 1 = n
    BY <2>2, <2>3, <1>1
  <2>5. walk[n - 1] = At(s, l, n)
    BY <2>1, <2>4 DEF Bad
  <2>6. a[At(s, l, n)].next = At(s, l, n + 1)
    BY <2>2, <1>1
  <2> QED BY <2>2, <2>4, <2>5, <2>6, <1>3
<1>5. ASSUME NEW k \in 0 .. (Len(s) - 1) PROVE walk[k] = s[k + 1] /\ k \notin ends
  <2>1. k \in 0 .. Len(s) /\ k + 1 \in 1 .. Len(s)
    BY <1>1
  <2>2. walk[k] = s[k + 1] /\ s[k + 1] \in Elem
    BY <2>1, <1>1, <1>4, Places
  <2> QED BY <2>2, Nodes
<1>6. Len(s) \in ends
  <2>1. Len(s) \in 0 .. Len(s) /\ Len(s) \in 0 .. Cap /\ At(s, l, Len(s) + 1) = HeadOf(l)
    BY <1>1, Places
  <2> QED BY <2>1, <1>4, Nodes
<1>7. len = Len(s)
  <2>1. Min(ends) \in ends /\ \A y \in ends : Min(ends) <= y
    <3>1. ends \subseteq Nat /\ ends # {}
      BY <1>6, <1>1
    <3> HIDE DEF ends
    <3> QED BY ONLY <3>1, LeastNat
  <2>2. Min(ends) \in Int /\ Min(ends) >= 0 /\ Min(ends) <= Len(s)
    BY <2>1, <1>6
  <2>3. Min(ends) \notin 0 .. (Len(s) - 1)
    BY <2>1, <1>5
  <2>4. Min(ends) = Len(s)
    BY <2>2, <2>3, <1>1
  <2> QED BY <2>4, <1>6
<1> HIDE DEF len, ends
<1>8. Contents(l) = [k \in 1 .. Len(s) |-> walk[k - 1]]
  BY <1>2, <1>7
<1>9. ASSUME NEW k \in 1 .. Len(s) PROVE walk[k - 1] = s[k]
  <2>1. k - 1 \in 0 .. (Len(s) - 1) /\ (k - 1) + 1 = k
    BY <1>1
  <2> QED BY <2>1, <1>5
<1>10. s = [k \in 1 .. Len(s) |-> s[k]]
  BY <1>1
<1> QED BY <1>8, <1>9, <1>10

-----------------------------------------------------------------------------
Seen == [l \in ListId |-> Contents(l)]

\* What is seen is strung, and no element is seen twice.
ListsInv == TypeOK /\ MutuallyInverse /\ Holds(a, Seen)

\* Sequences the array holds are what a client sees.
LEMMA SeenIs ==
  ASSUME TypeOK, NEW M, M = [l \in ListId |-> M[l]], Holds(a, M)
  PROVE  Seen = M
<1>1. ASSUME NEW l \in ListId PROVE Contents(l) = M[l]
  <2>1. Strung(a, M[l], l) /\ IsInjective(M[l])
    BY DEF Holds, Apart, IsInjective
  <2> QED BY <2>1, SeesStrung
<1> QED BY <1>1 DEF Seen

\* Without an element, as the abstract operations put it.
LEMMA RemovedIs ==
  ASSUME NEW e
  PROVE  AbstractLists!Removed(e) = [l \in ListId |-> AbstractLists!Without(Seen[l], e)]
<1>1. AbstractLists!ListId = ListId
  BY DEF AbstractLists!ListId, ListId
<1> QED BY <1>1 DEF AbstractLists!Removed, Seen

LEMMA ListsInvInit == Init => ListsInv /\ AbstractLists!Init
<1> SUFFICES ASSUME Init PROVE ListsInv /\ AbstractLists!Init
  OBVIOUS
<1>1. TypeOK /\ MutuallyInverse
  BY DEF Init, TypeOK, MutuallyInverse
<1> DEFINE M == [l \in ListId |-> << >>]
<1>2. ASSUME NEW l \in ListId PROVE Strung(a, << >>, l)
  <2>1. a[HeadOf(l)].next = HeadOf(l)
    BY Nodes DEF Init
  <2>2. \A i : At(<< >>, l, i) = HeadOf(l)
    BY DEF At
  <2> QED BY <2>1, <2>2 DEF Strung
<1>3. Holds(a, M)
  BY <1>2 DEF Holds, Apart
<1>4. Seen = M
  BY <1>1, <1>3, SeenIs
<1>5. AbstractLists!Init
  <2>1. AbstractLists!ListId = ListId
    BY DEF AbstractLists!ListId, ListId
  <2> QED BY <1>4, <2>1 DEF AbstractLists!Init, Seen
<1> QED BY <1>1, <1>3, <1>4, <1>5 DEF ListsInv

SeesWhatItHolds ==
  \A M : M = [l \in ListId |-> M[l]] /\ Holds(a, M) => Seen = M

LEMMA SeenAll == TypeOK => SeesWhatItHolds
BY SeenIs DEF SeesWhatItHolds

LEMMA SeenAllNext == TypeOK' => SeesWhatItHolds'
BY SeenAll, PTL

\* Every operation is that of the sequences.
LEMMA ListsStep ==
  ListsInv /\ [Next]_a => ListsInv' /\ [AbstractLists!Next]_Seen
<1> SUFFICES ASSUME ListsInv, [Next]_a PROVE ListsInv' /\ [AbstractLists!Next]_Seen
  OBVIOUS
<1>1. LinkedArray(a) /\ Inverse2(a) /\ Holds(a, Seen)
  BY DEF ListsInv, LinkedArray, Inverse2, TypeOK, MutuallyInverse
<1>2. TypeOK' /\ MutuallyInverse'
  <2>1. LinkedArray(a') /\ Inverse2(a')
    BY <1>1, StepKeeps
  <2> QED BY <2>1 DEF LinkedArray, Inverse2, TypeOK, MutuallyInverse, Node
<1>3. ASSUME NEW M, M = [l \in ListId |-> M[l]], Holds(a', M)
      PROVE  Seen' = M /\ ListsInv'
  <2>1. SeesWhatItHolds'
    BY <1>2, SeenAllNext
  <2>2. \A L : L = [l \in ListId |-> L[l]] /\ Holds(a', L) => Seen' = L
    BY <2>1 DEF SeesWhatItHolds, Holds, Strung, Apart, At, HeadOf, ListId
  <2>3. Seen' = M
    BY <2>2, <1>3
  <2>4. Holds(a, Seen)'
    BY <2>3, <1>3 DEF Holds, Strung, Apart, At, HeadOf, ListId
  <2> QED BY <2>3, <2>4, <1>2 DEF ListsInv
<1>4. AbstractLists!ListId = ListId /\ AbstractLists!Elem = Elem /\ Seen = [l \in ListId |-> Seen[l]]
  BY DEF AbstractLists!ListId, ListId, AbstractLists!Elem, Elem, Seen
<1>5. CASE UNCHANGED a
  <2>1. Seen' = Seen /\ ListsInv'
    BY <1>1, <1>3, <1>4, <1>5
  <2> QED BY <2>1
<1>6. ASSUME NEW e \in Elem, DoDel(e) PROVE ListsInv' /\ AbstractLists!Next
  <2> DEFINE M == AbstractLists!Removed(e)
  <2>1. M = [l \in ListId |-> AbstractLists!Without(Seen[l], e)]
    BY RemovedIs
  <2>2. Holds(a', M)
    BY <1>1, <1>6, <2>1, DelHolds DEF DoDel
  <2> HIDE DEF M
  <2>3. M = [l \in ListId |-> M[l]]
    BY <2>1
  <2>4. Seen' = M /\ ListsInv'
    BY <2>2, <2>3, <1>3
  <2>5. AbstractLists!TakeOut(e)
    BY <2>4 DEF AbstractLists!TakeOut, Seen, M
  <2> QED BY <2>4, <2>5, <1>4 DEF AbstractLists!Next
<1>7. ASSUME NEW e \in Elem, NEW l \in ListId, DoInsert(l, e) \/ DoInsertFirst(l, e)
      PROVE  ListsInv' /\ AbstractLists!Next
  <2> DEFINE M == AbstractLists!Removed(e)
             d == Del(a, e)
             B == [M EXCEPT ![l] = Append(@, e)]
             F == [M EXCEPT ![l] = Cons(e, @)]
  <2>1. M = [m \in ListId |-> AbstractLists!Without(Seen[m], e)]
    BY RemovedIs
  <2>2. Holds(d, M) /\ Nowhere(e, M) /\ DOMAIN M = ListId
    BY <1>1, <2>1, DelHolds
  <2>3. LinkedArray(d) /\ Inverse2(d) /\ d[e] = [next |-> e, prev |-> e]
    BY <1>1, DelKeeps
  <2> HIDE DEF M, d
  <2>4. CASE DoInsert(l, e)
    <3>1. Holds(a', B)
      <4>1. a' = Link(Link(d, d[HeadOf(l)].prev, e), e, HeadOf(l))
        BY <2>4 DEF DoInsert, Insert, d
      <4>2. d[e].next = e
        BY <2>3
      <4> QED BY <4>1, <4>2, <2>2, <2>3, BackHolds
    <3>2. B = [m \in ListId |-> B[m]]
      BY <2>2
    <3> HIDE DEF B
    <3>3. Seen' = B /\ ListsInv'
      BY <3>1, <3>2, <1>3
    <3>4. AbstractLists!PushBack(l, e)
      BY <3>3 DEF AbstractLists!PushBack, Seen, B, M
    <3> QED BY <3>3, <3>4, <1>4 DEF AbstractLists!Next
  <2>5. CASE DoInsertFirst(l, e)
    <3>1. Holds(a', F)
      <4>1. a' = Link(Link(d, HeadOf(l), e), e, d[HeadOf(l)].next)
        BY <2>5 DEF DoInsertFirst, InsertFirst, d
      <4> QED BY <4>1, <2>2, <2>3, FrontHolds
    <3>2. F = [m \in ListId |-> F[m]]
      BY <2>2
    <3> HIDE DEF F
    <3>3. Seen' = F /\ ListsInv'
      BY <3>1, <3>2, <1>3
    <3>4. AbstractLists!PushFront(l, e)
      BY <3>3 DEF AbstractLists!PushFront, Seen, F, M, AbstractLists!Cons, Cons
    <3> QED BY <3>3, <3>4, <1>4 DEF AbstractLists!Next
  <2> QED BY <1>7, <2>4, <2>5
<1> QED BY <1>5, <1>6, <1>7 DEF Next

(* For every pool and every number of lists: the sequences a client meets   *)
(* walking along next change exactly as Lists says.  An element is in one   *)
(* place, and what del, insert and insertFirst do to it leaves the order of *)
(* all others alone (MyLinkList.h:16-43).                                   *)
THEOREM ArrayImplementsLists == Spec => ImplementsLists
<1>1. Init => ListsInv /\ AbstractLists!Init
  BY ListsInvInit
<1>2. ListsInv /\ [Next]_a => ListsInv' /\ [AbstractLists!Next]_([l \in ListId |-> Contents(l)])
  BY ListsStep DEF Seen
<1> QED BY <1>1, <1>2, PTL DEF Spec, ImplementsLists, AbstractLists!Spec
=============================================================================
