-------------------------- MODULE RecordFileProof --------------------------
(***************************************************************************)
(* Proofs about RecordFile for every number of pages and slots and every   *)
(* record size.  While the file has room: type correctness, that the two   *)
(* bitmaps of page 0 are exact between operations, and that scans go       *)
(* forward and miss nothing.  Where records fit their slots, with room or  *)
(* without: records stay whole and the file implements RecordStore.        *)
(***************************************************************************)
EXTENDS RecordFile, DataLemmas, SequenceTheorems, TLAPS

\* FirstZero finds a clear bit when there is one, and its length otherwise.
LEMMA FirstZeroIn ==
  ASSUME NEW n \in Nat, NEW S, S \subseteq 0 .. (n - 1)
  PROVE  /\ S # 0 .. (n - 1) => FirstZero(S, n) \in (0 .. (n - 1)) \ S
         /\ S = 0 .. (n - 1) => FirstZero(S, n) = n
<1> DEFINE zeros == (0 .. (n - 1)) \ S
<1>1. CASE zeros = {}
  BY <1>1 DEF FirstZero
<1>2. CASE zeros # {}
  <2>1. zeros \subseteq Nat
    OBVIOUS
  <2>2. Min(zeros) \in zeros
    BY <1>2, <2>1, LeastNat
  <2> QED BY <1>2, <2>2 DEF FirstZero
<1> QED BY <1>1, <1>2

\* The writes of page 0 an operation leaves: none, one or two of different
\* bitmaps, in order.
LEMMA TwoWrites ==
  ASSUME NEW w \in PageZeroWrite, NEW x \in PageZeroWrite, w.bitmap # x.bitmap,
         NEW a \in {<< >>, <<w>>}, NEW b \in {<< >>, <<x>>}, NEW td, td = a \o b
  PROVE  /\ td \in Seq(PageZeroWrite)
         /\ \A k \in DOMAIN td : (a # << >> /\ td[k] = w) \/ (b # << >> /\ td[k] = x)
         /\ \A j, k \in DOMAIN td : td[j].bitmap = td[k].bitmap => j = k
         /\ a # << >> => \E k \in DOMAIN td : td[k] = w
         /\ b # << >> => \E k \in DOMAIN td : td[k] = x
<1>1. CASE a = <<w>> /\ b = <<x>>
  <2>1. a \in Seq(PageZeroWrite) /\ Len(a) = 1 /\ a[1] = w
    BY <1>1
  <2>2. b \in Seq(PageZeroWrite) /\ Len(b) = 1 /\ b[1] = x
    BY <1>1
  <2>3. td \in Seq(PageZeroWrite) /\ Len(td) = 2 /\ td[1] = w /\ td[2] = x
    <3>1. /\ td \in Seq(PageZeroWrite) /\ Len(td) = Len(a) + Len(b)
          /\ \A i \in 1 .. (Len(a) + Len(b)) : td[i] = IF i <= Len(a) THEN a[i] ELSE b[i - Len(a)]
      <4> DEFINE S == PageZeroWrite
      <4>1. a \in Seq(S) /\ b \in Seq(S) /\ td = a \o b
        BY <2>1, <2>2
      <4> HIDE DEF S
      <4>2. /\ a \o b \in Seq(S) /\ Len(a \o b) = Len(a) + Len(b)
            /\ \A i \in 1 .. (Len(a) + Len(b)) : (a \o b)[i] = IF i <= Len(a) THEN a[i] ELSE b[i - Len(a)]
        BY ONLY <4>1, ConcatProperties
      <4> QED BY <4>1, <4>2 DEF S
    <3>2. 1 \in 1 .. (Len(a) + Len(b)) /\ 2 \in 1 .. (Len(a) + Len(b))
      BY <2>1, <2>2
    <3>3. td[1] = w
      BY <3>1, <3>2, <2>1
    <3>4. td[2] = b[1]
      BY <3>1, <3>2, <2>1, <2>2
    <3> QED BY <3>1, <3>3, <3>4, <2>1, <2>2
  <2>4. DOMAIN td = 1 .. 2 /\ 1 \in DOMAIN td /\ 2 \in DOMAIN td
    BY <2>3
  <2>5. \A k \in DOMAIN td : k = 1 \/ k = 2
    BY <2>4
  <2>6. \A j, k \in DOMAIN td : td[j].bitmap = td[k].bitmap => j = k
    BY <2>3, <2>5
  <2>7. \A k \in DOMAIN td : (a # << >> /\ td[k] = w) \/ (b # << >> /\ td[k] = x)
    BY <1>1, <2>3, <2>5
  <2> QED BY <2>3, <2>4, <2>6, <2>7
<1>2. CASE a = <<w>> /\ b = << >>
  <2>1. td = <<w>> /\ DOMAIN td = 1 .. 1 /\ td[1] = w
    BY <1>2
  <2> QED BY <1>2, <2>1
<1>3. CASE a = << >> /\ b = <<x>>
  <2>1. td = <<x>> /\ DOMAIN td = 1 .. 1 /\ td[1] = x
    BY <1>3
  <2> QED BY <1>3, <2>1
<1>4. CASE a = << >> /\ b = << >>
  <2>1. td = << >> /\ DOMAIN td = {}
    BY <1>4
  <2> QED BY <1>4, <2>1
<1> QED BY <1>1, <1>2, <1>3, <1>4

-----------------------------------------------------------------------------
(* The bitmaps.                                                             *)

FileTypeOK ==
  /\ used \in [DataPage -> SUBSET Slot]
  /\ full \subseteq Bit
  /\ nonEmpty \subseteq Bit
  /\ todo \in Seq(PageZeroWrite)

BitInv == FileTypeOK /\ TodoCalledFor /\ BitsExactOrPending

\* With nothing left to write the bits are exact.
LEMMA IdleExact ==
  ASSUME BitsExactOrPending, todo = << >>
  PROVE  \A h \in Header, p \in DataPage : BitOf(h, p) <=> Target(h, p)
BY DEF BitsExactOrPending, Pending

\* What an operation on data page p must do to keep BitInv: leave the bits of
\* the other pages, and queue a write for every bit of p that is not exact.
LEMMA OnePageChanged ==
  ASSUME BitInv, todo = << >>, NEW p \in DataPage, p - 1 \in Bit,
         NEW S, S \subseteq Slot, used' = [used EXCEPT ![p] = S],
         UNCHANGED <<full, nonEmpty>>,
         NEW w \in PageZeroWrite, w.bitmap = "full", w.pos = p - 1,
         NEW x \in PageZeroWrite, x.bitmap = "nonEmpty", x.pos = p - 1,
         NEW a, NEW b, \/ a \in {<< >>, <<w>>} /\ b \in {<< >>, <<x>>} /\ todo' = a \o b
                       \/ a \in {<< >>, <<w>>} /\ b \in {<< >>, <<x>>} /\ todo' = b \o a,
         a # << >> => (w.on <=> S = Slot),
         b # << >> => (x.on <=> S # {}),
         a = << >> => (BitOf("full", p) <=> S = Slot),
         b = << >> => (BitOf("nonEmpty", p) <=> S # {})
  PROVE  BitInv'
<1>1. /\ todo' \in Seq(PageZeroWrite)
      /\ \A k \in DOMAIN todo' : (a # << >> /\ todo'[k] = w) \/ (b # << >> /\ todo'[k] = x)
      /\ \A j, k \in DOMAIN todo' : todo'[j].bitmap = todo'[k].bitmap => j = k
      /\ a # << >> => \E k \in DOMAIN todo' : todo'[k] = w
      /\ b # << >> => \E k \in DOMAIN todo' : todo'[k] = x
  <2> DEFINE td == todo'
  <2>1. /\ w.bitmap # x.bitmap /\ x.bitmap # w.bitmap
        /\ w \in PageZeroWrite /\ x \in PageZeroWrite
    OBVIOUS
  <2>2. CASE a \in {<< >>, <<w>>} /\ b \in {<< >>, <<x>>} /\ td = a \o b
    <3> HIDE DEF td
    <3>1. a \in {<< >>, <<w>>} /\ b \in {<< >>, <<x>>} /\ td = a \o b
      BY <2>2
    <3>2. /\ td \in Seq(PageZeroWrite)
          /\ \A k \in DOMAIN td : (a # << >> /\ td[k] = w) \/ (b # << >> /\ td[k] = x)
          /\ \A j, k \in DOMAIN td : td[j].bitmap = td[k].bitmap => j = k
          /\ a # << >> => \E k \in DOMAIN td : td[k] = w
          /\ b # << >> => \E k \in DOMAIN td : td[k] = x
      BY ONLY <3>1, <2>1, TwoWrites
    <3> QED BY ONLY <3>2 DEF td
  <2>3. CASE a \in {<< >>, <<w>>} /\ b \in {<< >>, <<x>>} /\ td = b \o a
    <3> HIDE DEF td
    <3>1. a \in {<< >>, <<w>>} /\ b \in {<< >>, <<x>>} /\ td = b \o a
      BY <2>3
    <3> QED BY ONLY <3>1, <2>1, TwoWrites DEF td
  <2> QED BY <2>2, <2>3
<1>2. /\ used' \in [DataPage -> SUBSET Slot]
      /\ used'[p] = S
      /\ \A q \in DataPage : q # p => used'[q] = used[q]
  BY DEF BitInv, FileTypeOK
<1>3. FileTypeOK'
  BY <1>1, <1>2 DEF BitInv, FileTypeOK
<1>4. TodoCalledFor'
  <2>1. p - 1 + 1 = p
    BY DEF DataPage
  <2>2. ASSUME NEW k \in DOMAIN todo'
        PROVE  (todo[k].pos \in Bit /\ (todo[k].on <=> Target(todo[k].bitmap, todo[k].pos + 1)))'
    <3>0. Target("full", p)' <=> S = Slot
      BY <1>2 DEF Target, Slot
    <3>1. Target("nonEmpty", p)' <=> S # {}
      BY <1>2 DEF Target
    <3>2. CASE a # << >> /\ todo'[k] = w
      <4>1. todo'[k].bitmap = "full" /\ todo'[k].pos = p - 1 /\ (todo'[k].on <=> S = Slot)
        BY <3>2
      <4>2. todo'[k].pos + 1 = p
        BY <4>1, <2>1
      <4>3. Target(todo[k].bitmap, todo[k].pos + 1)' <=> S = Slot
        BY <4>1, <4>2, <1>2 DEF Target, Slot
      <4> QED BY <4>1, <4>3
    <3>3. CASE b # << >> /\ todo'[k] = x
      <4>1. todo'[k].bitmap = "nonEmpty" /\ todo'[k].pos = p - 1 /\ (todo'[k].on <=> S # {})
        BY <3>3
      <4>2. todo'[k].pos + 1 = p
        BY <4>1, <2>1
      <4>3. Target(todo[k].bitmap, todo[k].pos + 1)' <=> S # {}
        BY <4>1, <4>2, <1>2 DEF Target
      <4> QED BY <4>1, <4>3
    <3> QED BY <3>2, <3>3, <1>1
  <2>3. \A j, k \in DOMAIN todo' : todo'[j].bitmap = todo'[k].bitmap => j = k
    BY <1>1
  <2> QED BY <2>2, <2>3 DEF TodoCalledFor
<1>5. BitsExactOrPending'
  <2> SUFFICES ASSUME NEW h \in Header, NEW q \in DataPage
               PROVE  (Pending(h, q) \/ (BitOf(h, q) <=> Target(h, q)))'
    BY DEF BitsExactOrPending
  <2>1. BitOf(h, q)' <=> BitOf(h, q)
    BY DEF BitOf
  <2>2. CASE q # p
    <3>1. BitOf(h, q) <=> Target(h, q)
      BY IdleExact DEF BitInv
    <3>2. Target(h, q)' <=> Target(h, q)
      BY <1>2, <2>2 DEF Target
    <3> QED BY <2>1, <3>1, <3>2
  <2>3. CASE q = p /\ h = "full"
    <3>1. Target(h, q)' <=> S = Slot
      BY <1>2, <2>3 DEF Target, Slot
    <3>2. a # << >> => Pending(h, q)'
      BY <1>1, <2>3 DEF Pending
    <3> QED BY <2>1, <2>3, <3>1, <3>2
  <2>4. CASE q = p /\ h = "nonEmpty"
    <3>1. Target(h, q)' <=> S # {}
      BY <1>2, <2>4 DEF Target
    <3>2. b # << >> => Pending(h, q)'
      BY <1>1, <2>4 DEF Pending
    <3> QED BY <2>1, <2>4, <3>1, <3>2
  <2> QED BY <2>2, <2>3, <2>4 DEF Header
<1> QED BY <1>3, <1>4, <1>5 DEF BitInv

\* InsertRecord works on the first page whose bit in full is clear.
LEMMA InsertKeeps ==
  ASSUME BitInv, full # Bit, NEW v, InsertRecord(v)
  PROVE  BitInv'
<1> DEFINE p == FirstZero(full, PageNum) + 1
           s == FirstZero(used[p], Slots)
           S == used[p] \cup {s}
           w == SetBit("full", p, TRUE)
           x == SetBit("nonEmpty", p, TRUE)
           a == IF S = Slot THEN <<w>> ELSE << >>
           b == IF used[p] = {} THEN <<x>> ELSE << >>
<1>1. FirstZero(full, PageNum) \in Bit \ full
  BY FirstZeroIn, RecordAssumption DEF BitInv, FileTypeOK, Bit
<1>2. p \in DataPage /\ p - 1 \in Bit /\ p - 1 \notin full
  BY <1>1, RecordAssumption DEF Bit, DataPage
<1>3. used[p] \subseteq Slot
  BY <1>2 DEF BitInv, FileTypeOK
<1>4. todo = << >> /\ s < Slots /\ UNCHANGED <<full, nonEmpty>>
  BY DEF InsertRecord
<1>5. used' = [used EXCEPT ![p] = S] /\ used'[p] = S
  BY <1>2 DEF InsertRecord, BitInv, FileTypeOK
<1>6. todo' = a \o b
  BY <1>5 DEF InsertRecord
<1>7. s \in Slot /\ s \notin used[p]
  BY <1>3, <1>4, FirstZeroIn, RecordAssumption DEF Slot
<1>8. S \subseteq Slot /\ S # {}
  BY <1>3, <1>7
<1>9. p - 1 \in Nat
  BY <1>2, RecordAssumption DEF Bit
<1>10. /\ w \in PageZeroWrite /\ w.bitmap = "full" /\ w.pos = p - 1 /\ w.on
       /\ x \in PageZeroWrite /\ x.bitmap = "nonEmpty" /\ x.pos = p - 1 /\ x.on
  BY <1>9 DEF SetBit, PageZeroWrite, Header
<1>11. /\ a \in {<< >>, <<w>>} /\ b \in {<< >>, <<x>>}
       /\ a # << >> => S = Slot
       /\ a = << >> => S # Slot
       /\ b = << >> => used[p] # {}
  OBVIOUS
<1>12. ~ BitOf("full", p)
  BY <1>2 DEF BitOf
<1>13. BitOf("nonEmpty", p) <=> used[p] # {}
  BY <1>2, <1>4, IdleExact DEF BitInv, Target, Header
<1> HIDE DEF p, S, w, x, a, b
<1> QED BY <1>2, <1>4, <1>5, <1>6, <1>8, <1>10, <1>11, <1>12, <1>13, OnePageChanged

\* DeleteRecord works on a page that is not empty, so that its bit in nonEmpty
\* is set and the page one of those the bitmaps cover.
LEMMA DeleteKeeps ==
  ASSUME BitInv, NEW r \in Rid, DeleteRecord(r)
  PROVE  BitInv'
<1> DEFINE p == r[1]
           S == used[p] \ {r[2]}
           w == SetBit("full", p, FALSE)
           x == SetBit("nonEmpty", p, FALSE)
           a == IF used[p] = Slot THEN <<w>> ELSE << >>
           b == IF S = {} THEN <<x>> ELSE << >>
<1>1. p \in DataPage /\ r[2] \in Slot
  BY DEF Rid
<1>2. todo = << >> /\ r[2] \in used[p] /\ UNCHANGED <<full, nonEmpty>>
  BY DEF DeleteRecord
<1>3. p - 1 \in Bit
  <2>1. BitOf("nonEmpty", p) <=> used[p] # {}
    BY <1>1, <1>2, IdleExact DEF BitInv, Target, Header
  <2> QED BY <2>1, <1>2 DEF BitOf, BitInv, FileTypeOK
<1>4. used' = [used EXCEPT ![p] = S] /\ used'[p] = S
  BY <1>1 DEF DeleteRecord, BitInv, FileTypeOK
<1>5. todo' = b \o a
  BY <1>4 DEF DeleteRecord
<1>6. S \subseteq Slot /\ S # Slot
  BY <1>1 DEF BitInv, FileTypeOK
<1>7. p - 1 \in Nat
  BY <1>3, RecordAssumption DEF Bit
<1>8. /\ w \in PageZeroWrite /\ w.bitmap = "full" /\ w.pos = p - 1 /\ ~ w.on
      /\ x \in PageZeroWrite /\ x.bitmap = "nonEmpty" /\ x.pos = p - 1 /\ ~ x.on
  BY <1>7 DEF SetBit, PageZeroWrite, Header
<1>9. /\ a \in {<< >>, <<w>>} /\ b \in {<< >>, <<x>>}
      /\ a = << >> => used[p] # Slot
      /\ b # << >> => S = {}
      /\ b = << >> => S # {}
  OBVIOUS
<1>10. /\ BitOf("full", p) <=> used[p] = Slot
       /\ BitOf("nonEmpty", p) <=> used[p] # {}
  BY <1>1, <1>2, IdleExact DEF BitInv, Target, Header
<1>11. used[p] # {}
  BY <1>2
<1> HIDE DEF p, S, w, x, a, b
<1>12. /\ a # << >> => (w.on <=> S = Slot)
       /\ b # << >> => (x.on <=> S # {})
       /\ a = << >> => (BitOf("full", p) <=> S = Slot)
       /\ b = << >> => (BitOf("nonEmpty", p) <=> S # {})
  BY <1>6, <1>8, <1>9, <1>10, <1>11
<1>13. a \in {<< >>, <<w>>} /\ b \in {<< >>, <<x>>}
  BY <1>9
<1> QED BY <1>1, <1>2, <1>3, <1>4, <1>5, <1>6, <1>8, <1>12, <1>13, OnePageChanged

\* The bit a write of page 0 leaves behind.
LEMMA BitWritten ==
  ASSUME BitInv, WritePageZero, NEW h \in Header, NEW p \in DataPage
  PROVE  /\ Head(todo).bitmap = h /\ Head(todo).pos = p - 1 => (BitOf(h, p)' <=> Head(todo).on)
         /\ ~ (Head(todo).bitmap = h /\ Head(todo).pos = p - 1) => (BitOf(h, p)' <=> BitOf(h, p))
<1> DEFINE w == Head(todo)
<1>1. todo # << >> /\ todo \in Seq(PageZeroWrite)
  BY DEF WritePageZero, BitInv, FileTypeOK
<1>2. w = todo[1] /\ 1 \in DOMAIN todo
  BY <1>1
<1>3. w.pos \in Bit
  BY <1>2 DEF BitInv, TodoCalledFor
<1>4. /\ full' = IF w.bitmap = "full" THEN Changed(full, w) ELSE full
      /\ nonEmpty' = IF w.bitmap = "nonEmpty" THEN Changed(nonEmpty, w) ELSE nonEmpty
  BY <1>3 DEF WritePageZero
<1>5. \A T : /\ w.pos = p - 1 => (p - 1 \in Changed(T, w) <=> w.on)
             /\ w.pos # p - 1 => (p - 1 \in Changed(T, w) <=> p - 1 \in T)
  BY DEF Changed
<1> HIDE DEF w
<1> QED BY <1>4, <1>5 DEF BitOf, Header, w

LEMMA WriteKeeps ==
  ASSUME BitInv, WritePageZero
  PROVE  BitInv'
<1> DEFINE w == Head(todo)
<1>1. todo # << >> /\ todo \in Seq(PageZeroWrite)
  BY DEF WritePageZero, BitInv, FileTypeOK
<1>2. w = todo[1] /\ 1 \in DOMAIN todo /\ w \in PageZeroWrite
  BY <1>1
<1>3. w.pos \in Bit
  BY <1>2 DEF BitInv, TodoCalledFor
<1>4. todo' = Tail(todo) /\ UNCHANGED used
  BY <1>3 DEF WritePageZero
<1>5. /\ todo' \in Seq(PageZeroWrite)
      /\ \A k \in DOMAIN todo' : k + 1 \in DOMAIN todo /\ k + 1 # 1 /\ todo'[k] = todo[k + 1]
      /\ \A k \in DOMAIN todo : k # 1 => k - 1 \in DOMAIN todo' /\ todo'[k - 1] = todo[k]
  BY <1>1, <1>4
<1>6. full' \subseteq Bit /\ nonEmpty' \subseteq Bit
  BY <1>3 DEF WritePageZero, BitInv, FileTypeOK, Changed
<1>7. FileTypeOK'
  BY <1>4, <1>5, <1>6 DEF BitInv, FileTypeOK
<1>8. \A h, q : Target(h, q)' <=> Target(h, q)
  BY <1>4 DEF Target, Slot
<1>9. TodoCalledFor'
  <2>1. ASSUME NEW k \in DOMAIN todo'
        PROVE  (todo[k].pos \in Bit /\ (todo[k].on <=> Target(todo[k].bitmap, todo[k].pos + 1)))'
    <3>1. k + 1 \in DOMAIN todo /\ todo'[k] = todo[k + 1]
      BY <1>5
    <3>2. todo[k + 1].pos \in Bit /\ (todo[k + 1].on <=> Target(todo[k + 1].bitmap, todo[k + 1].pos + 1))
      BY <3>1 DEF BitInv, TodoCalledFor
    <3>3. Target(todo[k].bitmap, todo[k].pos + 1)' <=> Target(todo[k + 1].bitmap, todo[k + 1].pos + 1)
      BY <3>1, <1>4 DEF Target, Slot
    <3> QED BY <3>1, <3>2, <3>3
  <2>2. ASSUME NEW j \in DOMAIN todo', NEW k \in DOMAIN todo',
               todo'[j].bitmap = todo'[k].bitmap
        PROVE  j = k
    <3>1. j + 1 = k + 1
      BY <1>5, <2>2 DEF BitInv, TodoCalledFor
    <3>2. j \in Int /\ k \in Int
      BY <1>5
    <3> QED BY <3>1, <3>2
  <2> QED BY <2>1, <2>2 DEF TodoCalledFor
<1>10. BitsExactOrPending'
  <2> SUFFICES ASSUME NEW h \in Header, NEW p \in DataPage
               PROVE  (Pending(h, p) \/ (BitOf(h, p) <=> Target(h, p)))'
    BY DEF BitsExactOrPending
  <2>1. CASE w.bitmap = h /\ w.pos = p - 1
    <3>1. w.on <=> Target(w.bitmap, w.pos + 1)
      BY <1>2 DEF BitInv, TodoCalledFor
    <3>2. w.pos + 1 = p
      BY <2>1 DEF DataPage
    <3>3. BitOf(h, p)' <=> w.on
      BY <2>1, BitWritten
    <3> QED BY <1>8, <2>1, <3>1, <3>2, <3>3
  <2>2. CASE ~ (w.bitmap = h /\ w.pos = p - 1) /\ Pending(h, p)
    <3>1. PICK k \in DOMAIN todo : todo[k].bitmap = h /\ todo[k].pos = p - 1
      BY <2>2 DEF Pending
    <3>2. k # 1
      BY <1>2, <2>2, <3>1
    <3>3. k - 1 \in DOMAIN todo' /\ todo'[k - 1] = todo[k]
      BY <1>5, <3>2
    <3> QED BY <3>1, <3>3 DEF Pending
  <2>3. CASE ~ (w.bitmap = h /\ w.pos = p - 1) /\ ~ Pending(h, p)
    <3>1. BitOf(h, p) <=> Target(h, p)
      BY <2>3 DEF BitInv, BitsExactOrPending
    <3>2. BitOf(h, p)' <=> BitOf(h, p)
      BY <2>3, BitWritten
    <3> QED BY <1>8, <3>1, <3>2
  <2> QED BY <2>1, <2>2, <2>3
<1> QED BY <1>7, <1>9, <1>10 DEF BitInv

\* The other operations leave all of it alone.
LEMMA OthersKeep ==
  ASSUME BitInv, UNCHANGED <<used, full, nonEmpty, todo>>
  PROVE  BitInv'
BY DEF BitInv, FileTypeOK, TodoCalledFor, BitsExactOrPending, Pending, BitOf, Target,
       DataPage, Slot, Bit, PageZeroWrite, Header

LEMMA BitInvInit == Init => BitInv
<1> SUFFICES ASSUME Init PROVE BitInv
  OBVIOUS
<1>1. FileTypeOK
  BY DEF Init, FileTypeOK
<1>2. TodoCalledFor
  BY DEF Init, TodoCalledFor
<1>3. BitsExactOrPending
  <2>1. 0 \in Slot
    <3>1. Slots \in Nat /\ Slots # 0
      BY RecordAssumption
    <3> QED BY <3>1 DEF Slot
  <2> QED BY <2>1 DEF Init, BitsExactOrPending, BitOf, Target, Pending
<1> QED BY <1>1, <1>2, <1>3 DEF BitInv

LEMMA BitInvStep == BitInv /\ [RoomyNext]_vars => BitInv'
<1> SUFFICES ASSUME BitInv, [RoomyNext]_vars PROVE BitInv'
  OBVIOUS
<1>1. CASE \E r \in Rid : DeleteRecord(r)
  BY <1>1, DeleteKeeps
<1>2. CASE \E r \in Rid, v \in Values : UpdateRecord(r, v)
  BY <1>2, OthersKeep DEF UpdateRecord
<1>3. CASE WritePageZero
  BY <1>3, WriteKeeps
<1>4. CASE Scanning
  BY <1>4, OthersKeep DEF Scanning, OpenScan, GetNextRecord, CloseScan, fileVars
<1>5. CASE full # Bit /\ \E v \in Values : InsertRecord(v)
  BY <1>5, InsertKeeps
<1>6. CASE UNCHANGED vars
  BY <1>6, OthersKeep DEF vars, fileVars
<1> QED BY <1>1, <1>2, <1>3, <1>4, <1>5, <1>6 DEF RoomyNext, Changing

LEMMA BitInvImplies == BitInv => BitmapsExact
<1> SUFFICES ASSUME BitInv, todo = << >>, NEW p \in DataPage
             PROVE  /\ (p - 1) \in full <=> used[p] = Slot
                    /\ (p - 1) \in nonEmpty <=> used[p] # {}
  BY DEF BitmapsExact
<1>1. /\ BitOf("full", p) <=> Target("full", p)
      /\ BitOf("nonEmpty", p) <=> Target("nonEmpty", p)
  BY IdleExact DEF BitInv, Header
<1> QED BY <1>1 DEF BitOf, Target

\* While the file has room the bitmaps of page 0 are exact between operations
\* (rm.cc:80-98 and 117-135), whatever number of pages and slots there is: what
\* FindFirstZeroPosition and GetMaxPageNum rely on.
THEOREM BitmapsStayExact == RoomySpec => []BitmapsExact
<1>1. Init => BitInv
  BY BitInvInit
<1>2. BitInv /\ [RoomyNext]_vars => BitInv'
  BY BitInvStep
<1>3. BitInv => BitmapsExact
  BY BitInvImplies
<1> QED BY <1>1, <1>2, <1>3, PTL DEF RoomySpec

-----------------------------------------------------------------------------
(* Type correctness.                                                        *)

\* The order a scan goes in is a strict order on record ids, and a set of ids
\* that is not empty has a first one.
LEMMA BeforeOrder ==
  /\ \A q \in Nat \X Nat : ~ Before(q, q)
  /\ \A q, r \in Nat \X Nat : q = r \/ Before(q, r) \/ Before(r, q)
  /\ \A q, r, t \in Nat \X Nat : Before(q, r) /\ Before(r, t) => Before(q, t)
BY DEF Before

LEMMA RidNat == Rid \subseteq Nat \X Nat
BY RecordAssumption DEF Rid, DataPage, Slot

LEMMA FirstOfIn ==
  ASSUME NEW R, R \subseteq Rid, R # {}
  PROVE  /\ FirstOf(R) \in R
         /\ \A q \in R : q = FirstOf(R) \/ Before(FirstOf(R), q)
<1>1. R \subseteq Nat \X Nat
  BY RidNat
<1> DEFINE P == {r[1] : r \in R}
           m == Min(P)
           S == {r[2] : r \in {t \in R : t[1] = m}}
           n == Min(S)
<1>2. m \in P /\ \A i \in P : m <= i
  <2>1. P \subseteq Nat /\ P # {}
    BY <1>1
  <2> QED BY <2>1, LeastNat
<1>3. n \in S /\ \A j \in S : n <= j
  <2>1. S \subseteq Nat
    BY <1>1
  <2>2. S # {}
    BY <1>2
  <2> QED BY <2>1, <2>2, LeastNat
<1>4. <<m, n>> \in R
  <2>1. PICK r \in R : r[1] = m /\ r[2] = n
    BY <1>3
  <2>2. r = <<r[1], r[2]>>
    BY <1>1
  <2> QED BY <2>1, <2>2
<1>5. ASSUME NEW q \in R
      PROVE  q = <<m, n>> \/ Before(<<m, n>>, q)
  <2>1. m <= q[1] /\ (q[1] = m => n <= q[2])
    BY <1>2, <1>3
  <2>2. q = <<q[1], q[2]>> /\ q[1] \in Nat /\ q[2] \in Nat
    BY <1>1
  <2>3. m \in Nat /\ n \in Nat
    BY <1>1, <1>4
  <2> HIDE DEF m, n
  <2> QED BY <2>1, <2>2, <2>3 DEF Before
<1> HIDE DEF m, n
<1> QED BY <1>4, <1>5 DEF FirstOf

LEMMA StoredType ==
  ASSUME bytes \in [DataPage -> [Byte -> Values \cup {0}]],
         NEW p \in DataPage, NEW s, NEW v \in Values \cup {0}
  PROVE  Stored(p, s, v) \in [DataPage -> [Byte -> Values \cup {0}]]
<1> DEFINE page == [b \in Byte |-> IF b \in BytesOf(s) THEN v ELSE bytes[p][b]]
<1>1. page \in [Byte -> Values \cup {0}]
  OBVIOUS
<1>2. Stored(p, s, v) = [bytes EXCEPT ![p] = page]
  BY DEF Stored
<1> HIDE DEF page
<1> QED BY <1>1, <1>2

\* What TypeOK says beyond FileTypeOK.
ScanTypeOK ==
  /\ bytes \in [DataPage -> [Byte -> Values \cup {0}]]
  /\ scan \in ((0 .. PageNum + 1) \X Slot) \cup {None}
  /\ seen \in Seq(Rid)
  /\ steady \subseteq Rid
  /\ eof \in BOOLEAN

LEMMA TypeParts == TypeOK <=> FileTypeOK /\ ScanTypeOK
BY DEF TypeOK, FileTypeOK, ScanTypeOK

LEMMA TypeInit == Init => TypeOK
<1> SUFFICES ASSUME Init PROVE TypeOK
  OBVIOUS
<1>1. FileTypeOK
  BY BitInvInit DEF BitInv
<1>2. bytes \in [DataPage -> [Byte -> Values \cup {0}]]
  BY DEF Init
<1>3. scan = None /\ seen \in Seq(Rid) /\ steady \subseteq Rid
  BY DEF Init
<1>4. eof \in BOOLEAN
  BY Zenon DEF Init
<1> QED BY <1>1, <1>2, <1>3, <1>4, TypeParts DEF ScanTypeOK

LEMMA TypeStep == TypeOK /\ BitInv /\ [RoomyNext]_vars => TypeOK'
<1> SUFFICES ASSUME TypeOK, BitInv, [RoomyNext]_vars PROVE ScanTypeOK'
  <2>1. BitInv /\ [RoomyNext]_vars => FileTypeOK'
    BY BitInvStep DEF BitInv
  <2>2. FileTypeOK' /\ ScanTypeOK' => TypeOK'
    BY TypeParts DEF TypeOK, FileTypeOK, ScanTypeOK
  <2> QED BY <2>1, <2>2
<1>1. ScanTypeOK
  BY TypeParts
<1>2. DataPage' = DataPage /\ Byte' = Byte /\ Rid' = Rid /\ Slot' = Slot
  BY DEF DataPage, Byte, Rid, Slot
<1>3. ASSUME bytes' \in [DataPage -> [Byte -> Values \cup {0}]],
             UNCHANGED <<scan, seen, eof>>, StillMatching
      PROVE  ScanTypeOK'
  BY <1>1, <1>2, <1>3 DEF ScanTypeOK, StillMatching
<1>4. ASSUME NEW r \in Rid, DeleteRecord(r) PROVE ScanTypeOK'
  <2>1. r[1] \in DataPage
    BY DEF Rid
  <2> QED BY <1>1, <1>3, <1>4, <2>1, StoredType DEF DeleteRecord, ScanTypeOK
<1>5. ASSUME NEW r \in Rid, NEW v \in Values, UpdateRecord(r, v) PROVE ScanTypeOK'
  <2>1. r[1] \in DataPage
    BY DEF Rid
  <2> QED BY <1>1, <1>3, <1>5, <2>1, StoredType DEF UpdateRecord, ScanTypeOK
<1>6. CASE WritePageZero
  BY <1>1, <1>6 DEF WritePageZero, scanVars, ScanTypeOK
<1>7. ASSUME full # Bit, NEW v \in Values, InsertRecord(v) PROVE ScanTypeOK'
  <2>1. FirstZero(full, PageNum) \in Bit
    BY <1>7, FirstZeroIn, RecordAssumption DEF BitInv, FileTypeOK, Bit
  <2>2. FirstZero(full, PageNum) + 1 \in DataPage
    BY <2>1, RecordAssumption DEF Bit, DataPage
  <2> QED BY <1>1, <1>3, <1>7, <2>2, StoredType DEF InsertRecord, ScanTypeOK
<1>8. CASE OpenScan
  <2>1. scan' \in ((0 .. PageNum + 1) \X Slot)
    BY <1>8, RecordAssumption DEF OpenScan, Start, Slot
  <2>2. UNCHANGED bytes /\ seen' = << >> /\ steady' \subseteq Rid
    BY <1>8 DEF OpenScan, fileVars
  <2>3. eof' \in BOOLEAN
    BY <1>8, Zenon DEF OpenScan
  <2> QED BY <1>1, <2>1, <2>2, <2>3 DEF ScanTypeOK
<1>9. CASE GetNextRecord
  <2>1. CASE Ahead = {}
    <3>1. eof' \in BOOLEAN
      BY <1>9, <2>1, Zenon DEF GetNextRecord
    <3> QED BY <1>1, <1>9, <2>1, <3>1 DEF GetNextRecord, fileVars, ScanTypeOK
  <2>2. CASE Ahead # {}
    <3> DEFINE f == FirstOf(Ahead)
    <3>1. f \in Rid
      BY <2>2, FirstOfIn DEF Ahead
    <3>2. f \in (0 .. PageNum + 1) \X Slot
      BY <3>1, RecordAssumption DEF Rid, DataPage
    <3>3. scan' = f /\ seen' = Append(seen, f) /\ UNCHANGED <<bytes, steady, eof>>
      BY <1>9, <2>2 DEF GetNextRecord, fileVars
    <3> HIDE DEF f
    <3> QED BY <1>1, <3>1, <3>2, <3>3 DEF ScanTypeOK
  <2> QED BY <2>1, <2>2
<1>10. CASE CloseScan
  <2>1. eof' \in BOOLEAN
    BY <1>10, Zenon DEF CloseScan
  <2> QED BY <1>1, <1>10, <2>1 DEF CloseScan, fileVars, ScanTypeOK
<1>11. CASE UNCHANGED vars
  BY <1>1, <1>11 DEF vars, fileVars, scanVars, ScanTypeOK
<1> QED BY <1>4, <1>5, <1>6, <1>7, <1>8, <1>9, <1>10, <1>11 DEF RoomyNext, Changing, Scanning

\* Every page, bitmap, queued write and scan position stays well formed.
THEOREM TypeCorrect == RoomySpec => []TypeOK
<1>1. Init => TypeOK /\ BitInv
  BY TypeInit, BitInvInit
<1>2. TypeOK /\ BitInv /\ [RoomyNext]_vars => (TypeOK /\ BitInv)'
  BY TypeStep, BitInvStep
<1> QED BY <1>1, <1>2, PTL DEF RoomySpec

-----------------------------------------------------------------------------
(* Scans.                                                                   *)

ScanInv == ScanProgress /\ ScanGoesForward /\ ScanComplete

LEMMA ScanInvInit == Init => ScanInv
BY DEF Init, ScanInv, ScanProgress, ScanGoesForward, ScanComplete

\* Where an open scan is.
LEMMA ScanAt ==
  ASSUME TypeOK
  PROVE  scan # None => scan \in Nat \X Nat
BY RecordAssumption DEF TypeOK, Slot

\* An operation that leaves the scan where it is and drops from steady what no
\* longer matches.
LEMMA RecordsChange ==
  ASSUME ScanInv, UNCHANGED <<scan, seen, eof>>, steady' \subseteq steady,
         \A r \in steady' : Matches(r)'
  PROVE  ScanInv'
<1>1. \A r : Returned(r)' <=> Returned(r)
  BY DEF Returned
<1>2. ScanProgress'
  BY <1>1 DEF ScanInv, ScanProgress, Before
<1>3. ScanGoesForward'
  BY DEF ScanInv, ScanGoesForward, Before
<1>4. ScanComplete'
  BY <1>1 DEF ScanInv, ScanComplete
<1> QED BY <1>2, <1>3, <1>4 DEF ScanInv

\* GetMaxPageNum bounds the pages that hold records.
LEMMA MatchesUpToMax ==
  ASSUME TypeOK, BitInv, todo = << >>, NEW r \in Rid, Matches(r)
  PROVE  r[1] <= MaxPageNum
<1>1. r[1] \in DataPage /\ r[1] \in Nat
  BY DEF Rid, DataPage
<1>2. used[r[1]] # {}
  BY DEF Matches
<1>3. r[1] - 1 \in nonEmpty
  BY <1>1, <1>2, BitInvImplies DEF BitmapsExact
<1>4. nonEmpty \subseteq Nat /\ \A y \in nonEmpty : y <= PageNum
  BY RecordAssumption DEF TypeOK, Bit
<1>5. Max(nonEmpty) \in nonEmpty /\ r[1] - 1 <= Max(nonEmpty)
  <2>1. PageNum \in Nat /\ nonEmpty # {}
    BY <1>3, RecordAssumption
  <2> QED BY <1>3, <1>4, <2>1, GreatestNat
<1>6. MaxPageNum = Max(nonEmpty) + 1
  BY <1>3 DEF MaxPageNum, LastOne
<1>7. Max(nonEmpty) \in Nat
  BY <1>4, <1>5
<1> QED BY <1>1, <1>5, <1>6, <1>7

LEMMA OpenKeeps ==
  ASSUME OpenScan
  PROVE  ScanInv'
<1>1. scan' = <<0, Slots - 1>> /\ seen' = << >> /\ UNCHANGED <<used, bytes>>
  BY DEF OpenScan, Start, fileVars
<1>2. steady' = {r \in Rid : Matches(r)} /\ eof' = FALSE
  BY DEF OpenScan
<1>3. \A r \in Rid : Matches(r)' <=> Matches(r)
  BY <1>1 DEF Matches, Offset
<1>4. \A r \in Rid : Before(<<0, Slots - 1>>, r)
  BY DEF Before, Rid, DataPage
<1>5. <<0, Slots - 1>> # None
  BY RecordAssumption
<1>6. ScanProgress'
  BY <1>1, <1>2, <1>3, <1>4, <1>5 DEF ScanProgress, Before
<1>7. ScanGoesForward' /\ ScanComplete'
  BY <1>1, <1>2 DEF ScanGoesForward, ScanComplete
<1> QED BY <1>6, <1>7 DEF ScanInv

LEMMA NextKeeps ==
  ASSUME TypeOK, BitInv, ScanInv, GetNextRecord
  PROVE  ScanInv'
<1>1. /\ todo = << >> /\ scan # None /\ UNCHANGED <<used, bytes, steady>>
      /\ scan \in Nat \X Nat /\ steady \subseteq Rid /\ seen \in Seq(Rid)
  BY ScanAt DEF GetNextRecord, fileVars, TypeOK
<1>2. \A r : Matches(r)' <=> Matches(r)
  BY <1>1 DEF Matches, Offset
<1>3. ASSUME NEW r \in steady, ~ Returned(r)
      PROVE  r \in Ahead
  <2>1. r \in Rid /\ Matches(r) /\ Before(scan, r)
    BY <1>1, <1>3 DEF ScanInv, ScanProgress
  <2>2. r[1] <= MaxPageNum
    BY <1>1, <2>1, MatchesUpToMax
  <2> QED BY <2>1, <2>2 DEF Ahead
<1>4. CASE Ahead = {}
  <2>1. UNCHANGED <<scan, seen>>
    BY <1>4 DEF GetNextRecord
  <2>2. \A r : Returned(r)' <=> Returned(r)
    BY <2>1 DEF Returned
  <2>3. \A r \in steady : Returned(r)
    BY <1>3, <1>4
  <2>4. ScanProgress'
    BY <1>1, <1>2, <2>1, <2>2 DEF ScanInv, ScanProgress, Before
  <2>5. ScanGoesForward'
    BY <2>1 DEF ScanInv, ScanGoesForward, Before
  <2>6. ScanComplete'
    BY <1>1, <2>2, <2>3 DEF ScanComplete
  <2> QED BY <2>4, <2>5, <2>6 DEF ScanInv
<1>5. CASE Ahead # {}
  <2> DEFINE f == FirstOf(Ahead)
  <2>1. f \in Ahead /\ \A q \in Ahead : q = f \/ Before(f, q)
    BY <1>5, FirstOfIn DEF Ahead
  <2>2. f \in Rid /\ f \in Nat \X Nat /\ Before(scan, f)
    BY <2>1, RidNat DEF Ahead
  <2>3. scan' = f /\ seen' = Append(seen, f) /\ UNCHANGED eof
    BY <1>5 DEF GetNextRecord
  <2> HIDE DEF f
  <2>4. /\ DOMAIN seen' = 1 .. (Len(seen) + 1) /\ DOMAIN seen = 1 .. Len(seen)
        /\ Len(seen) \in Nat
        /\ seen'[Len(seen) + 1] = f
        /\ \A k \in DOMAIN seen : seen'[k] = seen[k]
    BY <1>1, <2>2, <2>3
  <2>5. \A k \in DOMAIN seen : Before(seen[k], f)
    <3> SUFFICES ASSUME NEW k \in DOMAIN seen PROVE Before(seen[k], f)
      OBVIOUS
    <3>1. seen[k] \in Nat \X Nat
      BY <1>1, RidNat
    <3>2. seen[k] = scan \/ Before(seen[k], scan)
      BY DEF ScanInv, ScanProgress
    <3> QED BY <1>1, <2>2, <3>1, <3>2, BeforeOrder
  <2>6. \A r : Returned(r)' <=> Returned(r) \/ r = f
    <3>1. \A k : k \in DOMAIN seen' <=> k \in DOMAIN seen \/ k = Len(seen) + 1
      BY <2>4
    <3> QED BY <2>4, <3>1 DEF Returned
  <2>7. ScanProgress'
    <3>1. f # None
      BY <2>2, RecordAssumption
    <3>2. \A k \in DOMAIN seen' : seen'[k] = scan' \/ Before(seen'[k], scan')
      BY <2>3, <2>4, <2>5
    <3>3. \A r \in steady : Matches(r) /\ (Returned(r) \/ r = f \/ Before(f, r))
      BY <1>3, <2>1 DEF ScanInv, ScanProgress
    <3> QED BY <1>1, <1>2, <2>3, <2>6, <3>1, <3>2, <3>3 DEF ScanProgress, Before
  <2>8. ScanGoesForward'
    <3> SUFFICES ASSUME NEW j \in DOMAIN seen', NEW k \in DOMAIN seen', j < k
                 PROVE  Before(seen'[j], seen'[k])
      BY DEF ScanGoesForward, Before
    <3>1. j \in DOMAIN seen
      BY <2>4
    <3>2. CASE k \in DOMAIN seen
      BY <2>4, <3>1, <3>2 DEF ScanInv, ScanGoesForward
    <3>3. CASE k = Len(seen) + 1
      BY <2>4, <2>5, <3>1, <3>3
    <3> QED BY <2>4, <3>2, <3>3
  <2>9. ScanComplete'
    BY <1>1, <2>3, <2>6 DEF ScanInv, ScanComplete
  <2> QED BY <2>7, <2>8, <2>9 DEF ScanInv
<1> QED BY <1>4, <1>5

LEMMA ScanInvStep == TypeOK /\ BitInv /\ ScanInv /\ [RoomyNext]_vars => ScanInv'
<1> SUFFICES ASSUME TypeOK, BitInv, ScanInv, [RoomyNext]_vars PROVE ScanInv'
  OBVIOUS
<1>1. ASSUME UNCHANGED <<scan, seen, eof>>, StillMatching
      PROVE  ScanInv'
  BY <1>1, RecordsChange DEF StillMatching
<1>2. CASE \E r \in Rid : DeleteRecord(r)
  BY <1>1, <1>2 DEF DeleteRecord
<1>3. CASE \E r \in Rid, v \in Values : UpdateRecord(r, v)
  BY <1>1, <1>3 DEF UpdateRecord
<1>4. CASE \E v \in Values : InsertRecord(v)
  BY <1>1, <1>4 DEF InsertRecord
<1>5. CASE UNCHANGED <<used, bytes, scanVars>>
  <2>1. \A r \in steady' : Matches(r)'
    BY <1>5 DEF scanVars, Matches, Offset, ScanInv, ScanProgress
  <2> QED BY <1>5, <2>1, RecordsChange DEF scanVars
<1>6. CASE OpenScan
  BY <1>6, OpenKeeps
<1>7. CASE GetNextRecord
  BY <1>7, NextKeeps
<1>8. CASE CloseScan
  BY <1>8 DEF CloseScan, ScanInv, ScanProgress, ScanGoesForward, ScanComplete
<1> QED BY <1>2, <1>3, <1>4, <1>5, <1>6, <1>7, <1>8
        DEF RoomyNext, Changing, Scanning, WritePageZero, vars, fileVars

LEMMA AlwaysScanInv == RoomySpec => [](TypeOK /\ BitInv /\ ScanInv)
<1>1. Init => TypeOK /\ BitInv /\ ScanInv
  BY TypeInit, BitInvInit, ScanInvInit
<1>2. TypeOK /\ BitInv /\ ScanInv /\ [RoomyNext]_vars => (TypeOK /\ BitInv /\ ScanInv)'
  BY TypeStep, BitInvStep, ScanInvStep
<1> QED BY <1>1, <1>2, PTL DEF RoomySpec

\* A scan of GetNextRecord (rm.cc:273-297) that has answered RM_EOF returned
\* every record that was there and matched all along.
THEOREM ScansAreComplete == RoomySpec => []ScanComplete
<1>1. ScanInv => ScanComplete
  BY DEF ScanInv
<1> QED BY <1>1, AlwaysScanInv, PTL

\* A scan returns no record id twice and none before an earlier one.
THEOREM ScansGoForward == RoomySpec => []ScanGoesForward
<1>1. ScanInv => ScanGoesForward
  BY DEF ScanInv
<1> QED BY <1>1, AlwaysScanInv, PTL
-----------------------------------------------------------------------------
(* Records that fit their slots.                                            *)

\* The hypothesis of the theorems below: a record is no longer than a slot
\* whose length is rounded down to words, 248 bytes for slots of 250 in words
\* of 4.  A longer one reaches into the slot behind it (rm.cc:51, 76, 121, 167).
RecordsFit == RecordSize <= WordSize * (MaxLength \div WordSize)

LEMMA DivIs ==
  ASSUME NEW x \in Nat, NEW w \in Nat \ {0}
  PROVE  x \div w \in Nat /\ w * (x \div w) <= x /\ \A q \in Nat : w * q <= x => q <= x \div w
OBVIOUS

\* Whole words of slots and what is put together from them.
LEMMA WordsAdd ==
  ASSUME NEW x \in Nat, NEW y \in Nat, NEW z \in Nat, x + y <= z, NEW w \in Nat \ {0}
  PROVE  w * (x \div w) + w * (y \div w) <= w * (z \div w)
<1> DEFINE i == x \div w
           j == y \div w
           k == z \div w
<1>1. /\ i \in Nat /\ w * i <= x
      /\ j \in Nat /\ w * j <= y
      /\ k \in Nat /\ \A q \in Nat : w * q <= z => q <= k
  BY DivIs
<1> HIDE DEF i, j, k
<1>2. w * (i + j) = w * i + w * j
  BY <1>1
<1>3. w * i \in Nat /\ w * j \in Nat
  BY <1>1
<1>4. w * (i + j) <= z
  BY <1>1, <1>2, <1>3
<1>5. i + j <= k /\ i + j \in Nat
  BY <1>1, <1>4
<1>6. w * (i + j) <= w * k
  BY <1>1, <1>5
<1> QED BY <1>2, <1>6 DEF i, j, k

\* The slots lie in the page and apart.
LEMMA SlotsApart ==
  ASSUME RecordsFit, NEW s \in Slot
  PROVE  /\ BytesOf(s) \subseteq Byte
         /\ Offset(s) \in BytesOf(s)
         /\ \A t \in Slot : t # s => BytesOf(s) \cap BytesOf(t) = {}
<1>1. /\ MaxLength \in Nat /\ WordSize \in Nat \ {0} /\ Slots \in Nat \ {0}
      /\ RecordSize \in Nat /\ 1 <= RecordSize
  BY RecordAssumption
<1>2. ASSUME NEW t \in Slot PROVE t * MaxLength \in Nat /\ Offset(t) \in Nat /\ t \in Nat
  <2>1. t \in Nat
    BY DEF Slot
  <2>2. t * MaxLength \in Nat
    BY <1>1, <2>1
  <2>3. (t * MaxLength) \div WordSize \in Nat
    BY <1>1, <2>2, DivIs
  <2>4. \A i \in Nat : WordSize * i \in Nat
    BY <1>1
  <2> QED BY <2>1, <2>2, <2>3, <2>4 DEF Offset
<1>3. ASSUME NEW t \in Slot, NEW u \in Nat, t + 1 <= u
      PROVE  /\ u * MaxLength \in Nat
             /\ Offset(t) + RecordSize <= WordSize * ((u * MaxLength) \div WordSize)
  <2>1. u * MaxLength \in Nat
    BY <1>1
  <2>2. t * MaxLength + MaxLength <= u * MaxLength
    <3>1. t \in Nat
      BY <1>2
    <3>2. (t + 1) * MaxLength <= u * MaxLength
      BY <1>1, <1>3, <3>1
    <3>3. (t + 1) * MaxLength = t * MaxLength + MaxLength
      BY <1>1, <3>1
    <3> QED BY <3>2, <3>3
  <2>3. WordSize * ((t * MaxLength) \div WordSize) + WordSize * (MaxLength \div WordSize)
          <= WordSize * ((u * MaxLength) \div WordSize)
    BY <1>1, <1>2, <2>1, <2>2, WordsAdd
  <2>4. /\ WordSize * (MaxLength \div WordSize) \in Nat
        /\ WordSize * ((u * MaxLength) \div WordSize) \in Nat
    <3>1. \A i \in Nat : WordSize * i \in Nat
      BY <1>1
    <3>2. MaxLength \div WordSize \in Nat /\ (u * MaxLength) \div WordSize \in Nat
      BY <1>1, <2>1, DivIs
    <3> QED BY <3>1, <3>2
  <2>5. Offset(t) \in Nat /\ Offset(t) = WordSize * ((t * MaxLength) \div WordSize)
    BY <1>2 DEF Offset
  <2> DEFINE A == WordSize * (MaxLength \div WordSize)
             B == WordSize * ((u * MaxLength) \div WordSize)
             C == Offset(t)
  <2>6. A \in Nat /\ B \in Nat /\ C \in Nat /\ RecordSize <= A /\ C + A <= B
    BY <2>3, <2>4, <2>5 DEF RecordsFit
  <2> HIDE DEF A, B, C
  <2>7. C + RecordSize <= B
    BY <1>1, <2>6
  <2> QED BY <2>1, <2>7 DEF B, C
<1>4. BytesOf(s) \subseteq Byte
  <2>1. s + 1 <= Slots /\ Slots \in Nat
    BY <1>1 DEF Slot
  <2>2. WordSize * ((Slots * MaxLength) \div WordSize) <= Slots * MaxLength /\ Slots * MaxLength \in Nat
    BY <1>1, <1>3, <2>1, DivIs
  <2>3. Offset(s) + RecordSize <= WordSize * ((Slots * MaxLength) \div WordSize)
    BY <1>3, <2>1
  <2>4. WordSize * ((Slots * MaxLength) \div WordSize) \in Int
    BY <1>1, <2>2, DivIs
  <2> DEFINE N == Slots * MaxLength
             B == WordSize * (N \div WordSize)
  <2>5. N \in Nat /\ B \in Int /\ B <= N /\ Offset(s) + RecordSize <= B
    BY <2>2, <2>3, <2>4
  <2> HIDE DEF N, B
  <2>6. 0 .. (N - 1) = Byte
    BY DEF N, Byte
  <2> QED BY <1>1, <1>2, <2>5, <2>6 DEF BytesOf
<1>5. Offset(s) \in BytesOf(s)
  BY <1>1, <1>2 DEF BytesOf
<1>6. ASSUME NEW t \in Slot, NEW u \in Slot, t < u
      PROVE  BytesOf(t) \cap BytesOf(u) = {}
  <2>1. t + 1 <= u
    BY <1>2, <1>6
  <2>2. Offset(t) + RecordSize <= Offset(u)
    BY <1>2, <1>3, <2>1 DEF Offset
  <2> QED BY <1>1, <1>2, <2>2 DEF BytesOf
<1>7. \A t \in Slot : t # s => BytesOf(s) \cap BytesOf(t) = {}
  <2> SUFFICES ASSUME NEW t \in Slot, t # s PROVE BytesOf(s) \cap BytesOf(t) = {}
    OBVIOUS
  <2>1. s < t \/ t < s
    BY <1>2
  <2>2. BytesOf(t) \cap BytesOf(s) = {} => BytesOf(s) \cap BytesOf(t) = {}
    OBVIOUS
  <2> QED BY <2>1, <2>2, <1>6
<1> QED BY <1>4, <1>5, <1>7
\* The record of slot r[2] in pages with bytes B and slots U in use.
Whole(B, r, v)     == \A b \in BytesOf(r[2]) : B[r[1]][b] = v
RecordIn(B, U, r)  ==
  IF r[2] \notin U[r[1]] THEN None
  ELSE LET vs == {B[r[1]][b] : b \in BytesOf(r[2])}
       IN  IF \E v \in Values : vs = {v} THEN CHOOSE v \in Values : vs = {v} ELSE 0

LEMMA RecordIsIn ==
  ASSUME NEW r
  PROVE  RecordAt(r) = RecordIn(bytes, used, r) /\ RecordAt(r)' = RecordIn(bytes', used', r)
BY DEF RecordAt, RecordIn, BytesOf, Offset

\* A slot in use whose bytes are all v holds the record v.
Holds(B, U, r, v) == /\ v \in Values /\ Whole(B, r, v)
                     /\ r[2] \in U[r[1]] /\ Offset(r[2]) \in BytesOf(r[2])

LEMMA WholeRecord ==
  ASSUME NEW B, NEW U, NEW r, NEW v, Holds(B, U, r, v)
  PROVE  RecordIn(B, U, r) = v
<1> USE DEF Holds
<1> DEFINE vs == {B[r[1]][b] : b \in BytesOf(r[2])}
<1>1. vs = {v}
  BY DEF Whole
<1> HIDE DEF vs
<1>2. \A u \in Values : vs = {u} => u = v
  BY <1>1
<1>3. (CHOOSE u \in Values : vs = {u}) = v
  BY <1>1, <1>2
<1> QED BY <1>1, <1>3 DEF RecordIn, vs

\* Every record in use is one value in all of its bytes.
StoreInv ==
  /\ used \in [DataPage -> SUBSET Slot]
  /\ bytes \in [DataPage -> [Byte -> Values \cup {0}]]
  /\ full \subseteq Bit
  /\ \A r \in Rid : r[2] \in used[r[1]] => \E v \in Values : Whole(bytes, r, v)

recs == [r \in Rid |-> RecordAt(r)]

LEMMA RecordInUse ==
  ASSUME RecordsFit, StoreInv, NEW r \in Rid
  PROVE  /\ r[2] \in used[r[1]] => RecordAt(r) \in Values
         /\ RecordAt(r) = None <=> r[2] \notin used[r[1]]
<1>1. r[2] \in Slot /\ None \notin Values
  BY RecordAssumption DEF Rid
<1>2. r[2] \in used[r[1]] => RecordAt(r) \in Values
  <2> SUFFICES ASSUME r[2] \in used[r[1]] PROVE RecordAt(r) \in Values
    OBVIOUS
  <2>1. PICK v \in Values : Whole(bytes, r, v)
    BY DEF StoreInv
  <2>2. RecordIn(bytes, used, r) = v
    <3>1. Holds(bytes, used, r, v)
      BY <1>1, <2>1, SlotsApart DEF Holds
    <3> QED BY <3>1, WholeRecord
  <2> QED BY <2>2, RecordIsIn
<1>3. r[2] \notin used[r[1]] => RecordAt(r) = None
  BY DEF RecordAt
<1> QED BY <1>1, <1>2, <1>3

\* What an operation on slot s of page p does that writes u to its bytes and
\* leaves w of it to be read: the records of the other slots stay.
LEMMA OneSlotChanged ==
  ASSUME RecordsFit, StoreInv,
         NEW p \in DataPage, NEW s \in Slot, NEW u \in Values \cup {0},
         bytes' = Stored(p, s, u),
         NEW S, S \subseteq Slot, used' = [used EXCEPT ![p] = S],
         \A t \in Slot : t # s => (t \in S <=> t \in used[p]),
         s \in S => u \in Values,
         UNCHANGED full,
         NEW w, w = IF s \in S THEN u ELSE None
  PROVE  StoreInv' /\ recs' = [recs EXCEPT ![<<p, s>>] = w]
<1> DEFINE page == [b \in Byte |-> IF b \in BytesOf(s) THEN u ELSE bytes[p][b]]
<1>1. bytes' = [bytes EXCEPT ![p] = page]
  BY DEF Stored
<1>2. /\ used' \in [DataPage -> SUBSET Slot] /\ used'[p] = S
      /\ \A q \in DataPage : q # p => used'[q] = used[q]
  BY DEF StoreInv
<1>3. bytes' \in [DataPage -> [Byte -> Values \cup {0}]]
  BY StoredType DEF StoreInv
<1>4. /\ \A b \in BytesOf(s) : bytes'[p][b] = u
      /\ \A t \in Slot : t # s => \A b \in BytesOf(t) : bytes'[p][b] = bytes[p][b]
      /\ \A q \in DataPage : q # p => bytes'[q] = bytes[q]
  <2>1. bytes'[p] = page /\ \A q \in DataPage : q # p => bytes'[q] = bytes[q]
    BY <1>1 DEF StoreInv
  <2>2. \A b \in BytesOf(s) : page[b] = u
    BY SlotsApart
  <2>3. ASSUME NEW t \in Slot, t # s, NEW b \in BytesOf(t) PROVE page[b] = bytes[p][b]
    <3>1. b \in Byte /\ b \notin BytesOf(s)
      BY <2>3, SlotsApart
    <3> QED BY <3>1
  <2> QED BY <2>1, <2>2, <2>3
<1>5. ASSUME NEW r \in Rid, r # <<p, s>>
      PROVE  /\ \A b \in BytesOf(r[2]) : bytes'[r[1]][b] = bytes[r[1]][b]
             /\ r[2] \in used'[r[1]] <=> r[2] \in used[r[1]]
  <2>1. r = <<r[1], r[2]>> /\ r[1] \in DataPage /\ r[2] \in Slot
    BY DEF Rid
  <2>2. CASE r[1] # p
    BY <1>2, <1>4, <2>1, <2>2
  <2>3. CASE r[1] = p
    <3>1. r[2] # s
      BY <1>5, <2>1, <2>3
    <3> QED BY <1>2, <1>4, <2>1, <2>3, <3>1
  <2> QED BY <2>2, <2>3
<1> HIDE DEF page
<1>6. ASSUME NEW r \in Rid, r[2] \in used'[r[1]]
      PROVE  \E v \in Values : Whole(bytes', r, v)
  <2>1. CASE r = <<p, s>>
    <3>1. r[1] = p /\ r[2] = s
      BY <2>1
    <3>2. s \in S /\ u \in Values
      BY <1>2, <1>6, <3>1
    <3>3. Whole(bytes', r, u)
      BY <1>4, <3>1 DEF Whole
    <3> QED BY <3>2, <3>3
  <2>2. CASE r # <<p, s>>
    <3>1. PICK v \in Values : Whole(bytes, r, v)
      BY <1>5, <1>6, <2>2 DEF StoreInv
    <3>2. Whole(bytes', r, v)
      BY <1>5, <2>2, <3>1 DEF Whole
    <3> QED BY <3>2
  <2> QED BY <2>1, <2>2
<1>7. StoreInv'
  BY <1>2, <1>3, <1>6 DEF StoreInv, Whole, BytesOf, Offset
<1>8. ASSUME NEW r \in Rid
      PROVE  RecordAt(r)' = IF r = <<p, s>> THEN w ELSE RecordAt(r)
  <2>1. CASE r # <<p, s>>
    <3>1. RecordIn(bytes', used', r) = RecordIn(bytes, used, r)
      <4>1. {bytes'[r[1]][b] : b \in BytesOf(r[2])} = {bytes[r[1]][b] : b \in BytesOf(r[2])}
        BY <1>5, <2>1
      <4> QED BY <1>5, <2>1, <4>1 DEF RecordIn
    <3> QED BY <2>1, <3>1, RecordIsIn
  <2>2. CASE r = <<p, s>>
    <3>1. r[1] = p /\ r[2] = s
      BY <2>2
    <3>2. CASE s \in S
      <4>1. Offset(s) \in BytesOf(s)
        BY SlotsApart
      <4>2. Whole(bytes', r, u)
        BY <1>4, <3>1 DEF Whole
      <4>3. RecordIn(bytes', used', r) = u
        <5>1. Holds(bytes', used', r, u)
          BY <1>2, <3>1, <3>2, <4>1, <4>2 DEF Holds
        <5> QED BY <5>1, WholeRecord
      <4> QED BY <2>2, <3>2, <4>3, RecordIsIn
    <3>3. CASE s \notin S
      <4>1. RecordIn(bytes', used', r) = None
        BY <1>2, <3>1, <3>3 DEF RecordIn
      <4> QED BY <2>2, <3>3, <4>1, RecordIsIn
    <3> QED BY <3>2, <3>3
  <2> QED BY <2>1, <2>2
<1>9. recs' = [recs EXCEPT ![<<p, s>>] = w]
  <2>1. recs' = [r \in Rid |-> RecordAt(r)']
    BY DEF recs, Rid, DataPage, Slot
  <2> QED BY <2>1, <1>8 DEF recs
<1> QED BY <1>7, <1>9
LEMMA StoreInvInit == Init => StoreInv /\ AbstractRecords!Init
<1> SUFFICES ASSUME Init PROVE StoreInv /\ AbstractRecords!Init
  OBVIOUS
<1>1. StoreInv
  BY DEF Init, StoreInv, Rid
<1>2. \A r \in Rid : RecordAt(r) = None
  BY DEF Init, RecordAt, Rid
<1> QED BY <1>1, <1>2 DEF AbstractRecords!Init

\* An operation that writes no data page.
LEMMA DataUnchanged ==
  ASSUME StoreInv, UNCHANGED <<used, bytes>>, full' \subseteq Bit
  PROVE  StoreInv' /\ recs' = recs
<1>1. StoreInv'
  BY DEF StoreInv, Whole, BytesOf, Offset, Bit, Byte, DataPage, Rid, Slot
<1>2. \A r : RecordAt(r)' = RecordAt(r)
  BY RecordIsIn
<1> QED BY <1>1, <1>2 DEF recs, Rid, DataPage, Slot

\* Every operation of the file is that of the store on one record id, or
\* changes no record.
LEMMA StoreStep ==
  RecordsFit /\ StoreInv /\ [Next]_vars => StoreInv' /\ [AbstractRecords!Next]_recs
<1> SUFFICES ASSUME RecordsFit, StoreInv, [Next]_vars
             PROVE  StoreInv' /\ [AbstractRecords!Next]_recs
  OBVIOUS
<1>1. ASSUME NEW r \in Rid, DeleteRecord(r) PROVE StoreInv' /\ AbstractRecords!Delete(r)
  <2>1. r = <<r[1], r[2]>> /\ r[1] \in DataPage /\ r[2] \in Slot
    BY DEF Rid
  <2> DEFINE S == used[r[1]] \ {r[2]}
  <2>2. /\ r[2] \in used[r[1]] /\ used' = [used EXCEPT ![r[1]] = S]
        /\ bytes' = Stored(r[1], r[2], 0) /\ UNCHANGED full
    BY <1>1 DEF DeleteRecord
  <2>3. /\ S \subseteq Slot /\ r[2] \notin S
        /\ \A t \in Slot : t # r[2] => (t \in S <=> t \in used[r[1]])
    BY <2>1 DEF StoreInv
  <2> HIDE DEF S
  <2>4. StoreInv' /\ recs' = [recs EXCEPT ![<<r[1], r[2]>>] = None]
    BY <2>1, <2>2, <2>3, OneSlotChanged
  <2>5. recs[r] # None
    BY <2>2, RecordInUse DEF recs
  <2> QED BY <2>1, <2>4, <2>5 DEF AbstractRecords!Delete, recs
<1>2. ASSUME NEW r \in Rid, NEW v \in Values, UpdateRecord(r, v)
      PROVE  StoreInv' /\ AbstractRecords!Update(r, v)
  <2>1. r = <<r[1], r[2]>> /\ r[1] \in DataPage /\ r[2] \in Slot
    BY DEF Rid
  <2> DEFINE S == used[r[1]]
  <2>2. r[2] \in S /\ UNCHANGED full /\ bytes' = Stored(r[1], r[2], v)
    BY <1>2 DEF UpdateRecord
  <2>3. used' = [used EXCEPT ![r[1]] = S] /\ S \subseteq Slot
    BY <1>2, <2>1 DEF UpdateRecord, StoreInv
  <2>4. \A t \in Slot : t # r[2] => (t \in S <=> t \in used[r[1]])
    OBVIOUS
  <2> HIDE DEF S
  <2>5. StoreInv' /\ recs' = [recs EXCEPT ![<<r[1], r[2]>>] = v]
    BY <2>1, <2>2, <2>3, <2>4, OneSlotChanged
  <2>6. recs[r] # None
    BY <2>2, RecordInUse DEF recs, S
  <2> QED BY <2>1, <2>5, <2>6 DEF AbstractRecords!Update, recs
<1>3. ASSUME NEW v \in Values, InsertRecord(v)
      PROVE  StoreInv' /\ \E r \in Rid : AbstractRecords!Insert(r, v)
  <2> DEFINE p == FirstZero(full, PageNum) + 1
             s == FirstZero(used[p], Slots)
             S == used[p] \cup {s}
  <2>1. p \in DataPage
    <3>1. FirstZero(full, PageNum) \in Bit \/ FirstZero(full, PageNum) = PageNum
      BY FirstZeroIn, RecordAssumption DEF StoreInv, Bit
    <3> QED BY <3>1, RecordAssumption DEF DataPage, Bit
  <2>2. used[p] \subseteq Slot
    BY <2>1 DEF StoreInv
  <2>3. /\ s < Slots /\ used' = [used EXCEPT ![p] = S]
        /\ bytes' = Stored(p, s, v) /\ UNCHANGED full
    BY <1>3 DEF InsertRecord
  <2>4. s \in Slot /\ s \notin used[p]
    BY <2>2, <2>3, FirstZeroIn, RecordAssumption DEF Slot
  <2>5. /\ S \subseteq Slot /\ s \in S
        /\ \A t \in Slot : t # s => (t \in S <=> t \in used[p])
    BY <2>2, <2>4
  <2> HIDE DEF p, s, S
  <2>6. StoreInv' /\ recs' = [recs EXCEPT ![<<p, s>>] = v]
    BY <2>1, <2>3, <2>4, <2>5, OneSlotChanged
  <2>7. <<p, s>> \in Rid /\ recs[<<p, s>>] = None
    <3>1. <<p, s>> \in Rid
      BY <2>1, <2>4 DEF Rid
    <3>2. <<p, s>>[1] = p /\ <<p, s>>[2] = s
      OBVIOUS
    <3>3. RecordAt(<<p, s>>) = None
      BY <2>4, <3>1, <3>2, RecordInUse
    <3> QED BY <3>1, <3>3 DEF recs
  <2>8. AbstractRecords!Insert(<<p, s>>, v)
    BY <2>6, <2>7 DEF AbstractRecords!Insert, recs
  <2> QED BY <2>6, <2>7, <2>8
<1>4. ASSUME UNCHANGED <<used, bytes>>, full' \subseteq Bit
      PROVE  StoreInv' /\ [AbstractRecords!Next]_recs
  BY <1>4, DataUnchanged
<1>5. CASE WritePageZero
  <2>1. UNCHANGED <<used, bytes>> /\ full' \subseteq Bit
    BY <1>5 DEF WritePageZero, StoreInv, Changed
  <2> QED BY <1>4, <2>1
<1>6. CASE Scanning \/ UNCHANGED vars
  <2>1. UNCHANGED <<used, bytes>> /\ full' \subseteq Bit
    BY <1>6 DEF Scanning, OpenScan, GetNextRecord, CloseScan, vars, fileVars, StoreInv
  <2> QED BY <1>4, <2>1
<1> QED BY <1>1, <1>2, <1>3, <1>5, <1>6 DEF Next, Changing, AbstractRecords!Next

\* As long as records fit their slots, a file of any number of pages and slots
\* keeps every record as it was written until it is updated or deleted itself
\* (rm.h:25), on the page past the bitmaps too.
THEOREM FileImplementsRecordStore == RecordsFit => (Spec => ImplementsRecordStore)
<1> SUFFICES ASSUME RecordsFit PROVE Spec => ImplementsRecordStore
  OBVIOUS
<1>1. Init => StoreInv /\ AbstractRecords!Init
  BY StoreInvInit
<1>2. StoreInv /\ [Next]_vars => StoreInv' /\ [AbstractRecords!Next]_recs
  BY StoreStep
<1> QED BY <1>1, <1>2, PTL DEF Spec, ImplementsRecordStore, AbstractRecords!Spec, recs

\* As long as records fit their slots no write of a neighbour reaches into a
\* record in use (rm.cc:51, 76, 121, 167).
THEOREM RecordsStayWhole == RecordsFit => (Spec => []RecordsWhole)
<1> SUFFICES ASSUME RecordsFit PROVE Spec => []RecordsWhole
  OBVIOUS
<1>1. Init => StoreInv
  BY StoreInvInit
<1>2. StoreInv /\ [Next]_vars => StoreInv'
  BY StoreStep
<1>3. StoreInv => RecordsWhole
  BY RecordInUse DEF RecordsWhole
<1> QED BY <1>1, <1>2, <1>3, PTL DEF Spec

\* What is proved of a file that has room is true of the loop of rm.h:99 on it,
\* and of that file what is proved of every file.
THEOREM LoopIsRoomy == (LoopSpec => RoomySpec) /\ (RoomySpec => Spec)
<1>1. LoopNext => RoomyNext
  BY DEF LoopNext, RoomyNext, Scanning
<1>2. RoomyNext => Next
  BY DEF RoomyNext, Next
<1> QED BY <1>1, <1>2, PTL DEF LoopSpec, RoomySpec, Spec
=============================================================================
