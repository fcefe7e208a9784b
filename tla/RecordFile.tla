----------------------------- MODULE RecordFile -----------------------------
(***************************************************************************)
(* recordmanager/rm.cc: RM_FileHandle and RM_FileScan on one open file.    *)
(*                                                                         *)
(* A data page holds Slots record slots and a bitmap of those in use; page *)
(* 0 holds two bitmaps over the data pages, those that are full and those  *)
(* that are not empty.  Each change of a page is written back before the   *)
(* next page is touched, so the state here is that of the file: a record   *)
(* operation is a write of its data page followed by the writes of page 0  *)
(* it calls for (todo).                                                    *)
(*                                                                         *)
(* Bytes are counted from the first slot of a page (kRecordStartPosition), *)
(* and every byte of a record has one value, so that what tells records    *)
(* apart is which bytes they occupy.                                       *)
(***************************************************************************)
EXTENDS Integers, Sequences, FiniteSetsExt

CONSTANTS PageNum,     \* kMaxPageNum - 1, the bits of the bitmaps of page 0
          Slots,       \* kRecordNumEachPage
          MaxLength,   \* kRecordMaxLength
          WordSize,    \* bytes of an element of BufType: addr + n is n words on
          RecordSize,  \* record_size_, read from page 0 when the file is opened
          Values,      \* what the bytes of a record can be
          Matching,    \* the records the scan's condition selects
          None         \* no record

ASSUME RecordAssumption ==
  /\ PageNum \in Nat \ {0} /\ Slots \in Nat \ {0}
  /\ WordSize \in Nat \ {0} /\ MaxLength \in Nat /\ RecordSize \in 1 .. MaxLength
  /\ 0 \notin Values /\ Matching \subseteq Values
  /\ None \notin Values \cup (Int \X Int)

VARIABLES used,      \* data page -> slots its bitmap marks
          bytes,     \* data page -> byte -> value
          full,      \* bits set in the first bitmap of page 0
          nonEmpty,  \* bits set in the second bitmap of page 0
          todo,      \* writes of page 0 the operation under way has left
          scan,      \* where RM_FileScan::current_ is; None when no scan is open
          seen,      \* history: record ids the scan returned, in order
          steady,    \* history: ids that matched ever since the scan was opened
          eof        \* history: the scan has returned RM_EOF

fileVars == <<used, bytes, full, nonEmpty>>
scanVars == <<scan, seen, steady, eof>>
vars     == <<fileVars, todo, scanVars>>

Bit      == 0 .. (PageNum - 1)
DataPage == 1 .. (PageNum + 1)
Slot     == 0 .. (Slots - 1)
Rid      == DataPage \X Slot
Byte     == 0 .. (Slots * MaxLength - 1)
Header   == {"full", "nonEmpty"}
PageZeroWrite == [bitmap : Header, pos : Nat, on : BOOLEAN]

TypeOK ==
  /\ used \in [DataPage -> SUBSET Slot]
  /\ bytes \in [DataPage -> [Byte -> Values \cup {0}]]
  /\ full \subseteq Bit
  /\ nonEmpty \subseteq Bit
  /\ todo \in Seq(PageZeroWrite)
  /\ scan \in ((0 .. PageNum + 1) \X Slot) \cup {None}
  /\ seen \in Seq(Rid)
  /\ steady \subseteq Rid
  /\ eof \in BOOLEAN

-----------------------------------------------------------------------------
(* Slots and bitmaps.                                                       *)

\* The record's place: the word offset is rounded down, as in
\* addr + slot * kRecordMaxLength / 4.
TightOffset(s) == (s * MaxLength) \div WordSize    \* mutant of Offset: bytes taken for words
Offset(s)    == WordSize * ((s * MaxLength) \div WordSize)
BytesOf(s)   == Offset(s) .. (Offset(s) + RecordSize - 1)
Stored(p, s, v) == [bytes EXCEPT ![p] = [b \in Byte |-> IF b \in BytesOf(s) THEN v ELSE @[b]]]

\* FindFirstZeroPosition of a bitmap of n bits in which those of S are set.
FirstZero(S, n) == LET zeros == (0 .. (n - 1)) \ S
                   IN  IF zeros = {} THEN n ELSE Min(zeros)
\* FindLastOnePosition: 0 when no bit is set.
LastOne(S) == IF S = {} THEN 0 ELSE Max(S)

\* The record its bytes make up: None when its slot is not in use, and 0 when
\* they are not those of one record.
RecordAt(r) ==
  IF r[2] \notin used[r[1]] THEN None
  ELSE LET vs == {bytes[r[1]][b] : b \in BytesOf(r[2])}
       IN  IF \E v \in Values : vs = {v} THEN CHOOSE v \in Values : vs = {v} ELSE 0

\* The attribute the scan tests is the first of the record.
Matches(r) == r[2] \in used[r[1]] /\ bytes[r[1]][Offset(r[2])] \in Matching

Before(q, r) == q[1] < r[1] \/ (q[1] = r[1] /\ q[2] < r[2])

\* Records inserted, changed or deleted since the scan was opened are not held
\* against it.
StillMatching == steady' = {r \in steady : Matches(r)'}

-----------------------------------------------------------------------------
Init ==
  /\ used = [p \in DataPage |-> {}]
  /\ bytes = [p \in DataPage |-> [b \in Byte |-> 0]]
  /\ full = {} /\ nonEmpty = {}
  /\ todo = << >>
  /\ scan = None /\ seen = << >> /\ steady = {} /\ eof = FALSE

SetBit(bitmap, p, on) == [bitmap |-> bitmap, pos |-> p - 1, on |-> on]

\* Mutant of InsertRecord: IsEmpty is asked after SetOne.
InsertRecordAskedLate(v) ==
  LET p == FirstZero(full, PageNum) + 1
      s == FirstZero(used[p], Slots)
  IN  /\ todo = << >>
      /\ s < Slots
      /\ used' = [used EXCEPT ![p] = @ \cup {s}]
      /\ bytes' = Stored(p, s, v)
      /\ todo' = IF used'[p] = Slot THEN <<SetBit("full", p, TRUE)>> ELSE << >>
      /\ StillMatching
      /\ UNCHANGED <<full, nonEmpty, scan, seen, eof>>

\* InsertRecord up to the write of the data page.  The test page > kMaxPageNum
\* never holds: a page past the bitmaps is used when every bit is set.  A page
\* whose bit is clear but which has no free slot makes SetOne fail before
\* anything is changed.
InsertRecord(v) ==
  LET p == FirstZero(full, PageNum) + 1
      s == FirstZero(used[p], Slots)
  IN  /\ todo = << >>
      /\ s < Slots
      /\ used' = [used EXCEPT ![p] = @ \cup {s}]
      /\ bytes' = Stored(p, s, v)
      /\ todo' = (IF used'[p] = Slot THEN <<SetBit("full", p, TRUE)>> ELSE << >>)
                 \o (IF used[p] = {} THEN <<SetBit("nonEmpty", p, TRUE)>> ELSE << >>)
      /\ StillMatching
      /\ UNCHANGED <<full, nonEmpty, scan, seen, eof>>

\* DeleteRecord up to the write of the data page.
DeleteRecord(r) ==
  LET p == r[1]
  IN  /\ todo = << >>
      /\ r[2] \in used[p]
      /\ used' = [used EXCEPT ![p] = @ \ {r[2]}]
      /\ bytes' = Stored(p, r[2], 0)
      /\ todo' = (IF used'[p] = {} THEN <<SetBit("nonEmpty", p, FALSE)>> ELSE << >>)
                 \o (IF used[p] = Slot THEN <<SetBit("full", p, FALSE)>> ELSE << >>)
      /\ StillMatching
      /\ UNCHANGED <<full, nonEmpty, scan, seen, eof>>

\* The next write of page 0.  A bit past the bitmaps is an error: the operation
\* returns it and does nothing more.
Changed(S, w) == IF w.on THEN S \cup {w.pos} ELSE S \ {w.pos}

WritePageZero ==
  LET w == Head(todo)
  IN  /\ todo # << >>
      /\ IF w.pos \in Bit
         THEN /\ todo' = Tail(todo)
              /\ full' = IF w.bitmap = "full" THEN Changed(full, w) ELSE full
              /\ nonEmpty' = IF w.bitmap = "nonEmpty" THEN Changed(nonEmpty, w) ELSE nonEmpty
         ELSE todo' = << >> /\ UNCHANGED <<full, nonEmpty>>
      /\ UNCHANGED <<used, bytes, scanVars>>

UpdateRecord(r, v) ==
  /\ todo = << >>
  /\ r[2] \in used[r[1]]
  /\ bytes' = Stored(r[1], r[2], v)
  /\ UNCHANGED <<used, full, nonEmpty, todo, scan, seen, eof>>
  /\ StillMatching

\* OpenScan: the scan starts behind the last slot of page 0.
StartBehind == <<0, Slots>>                        \* mutant of Start: the slot behind the last
Start       == <<0, Slots - 1>>

OpenScan ==
  /\ todo = << >>
  /\ scan' = Start
  /\ seen' = << >>
  /\ steady' = {r \in Rid : Matches(r)}
  /\ eof' = FALSE
  /\ UNCHANGED <<fileVars, todo>>

\* GetNextRecord: the first match behind current_, on the pages up to
\* GetMaxPageNum, becomes current_.
MaxPageNumShort == LastOne(nonEmpty)               \* mutant of MaxPageNum: one page short
MaxPageNum == LastOne(nonEmpty) + 1
\* Mutant of Ahead: current_ is looked at again.
AheadAgain == {r \in Rid : (r = scan \/ Before(scan, r)) /\ r[1] <= MaxPageNum /\ Matches(r)}
Ahead      == {r \in Rid : Before(scan, r) /\ r[1] <= MaxPageNum /\ Matches(r)}
FirstOf(R) == CHOOSE r \in R : \A q \in R : q = r \/ Before(r, q)

\* Mutant of GetNextRecord: RM_EOF is never answered.
GetNextRecordForever ==
  /\ todo = << >>
  /\ scan # None
  /\ Ahead # {}
  /\ scan' = FirstOf(Ahead)
  /\ seen' = Append(seen, FirstOf(Ahead))
  /\ UNCHANGED <<fileVars, todo, steady, eof>>

GetNextRecord ==
  /\ todo = << >>
  /\ scan # None
  /\ IF Ahead = {}
     THEN eof' = TRUE /\ UNCHANGED <<scan, seen>>
     ELSE /\ scan' = FirstOf(Ahead)
          /\ seen' = Append(seen, FirstOf(Ahead))
          /\ UNCHANGED eof
  /\ UNCHANGED <<fileVars, todo, steady>>

CloseScan ==
  /\ todo = << >>
  /\ scan' = None /\ seen' = << >> /\ steady' = {} /\ eof' = FALSE
  /\ UNCHANGED <<fileVars, todo>>

-----------------------------------------------------------------------------
Scanning == OpenScan \/ GetNextRecord \/ CloseScan
Changing == \/ \E r \in Rid : DeleteRecord(r) \/ \E v \in Values : UpdateRecord(r, v)
            \/ WritePageZero

Next == Changing \/ Scanning \/ \E v \in Values : InsertRecord(v)
Spec == Init /\ [][Next]_vars

\* The file has not reached PageNum full pages (524288 records), where
\* InsertRecord starts on a page the bitmaps do not cover.
RoomyNext == Changing \/ Scanning \/ (full # Bit /\ \E v \in Values : InsertRecord(v))
RoomySpec == Init /\ [][RoomyNext]_vars

\* The loop of rm.h:99 on such a file: a scan is opened, GetNextRecord is called
\* until it answers RM_EOF, and between two calls the caller does finitely much
\* else.
LoopNext == Changing \/ (scan = None /\ OpenScan) \/ GetNextRecord \/ CloseScan
            \/ (full # Bit /\ \E v \in Values : InsertRecord(v))
LoopSpec == Init /\ [][LoopNext]_vars /\ WF_vars(WritePageZero) /\ SF_vars(GetNextRecord)

-----------------------------------------------------------------------------
(* rm.h:19: page 0 tells which pages are full; its second bitmap tells      *)
(* which are not empty.  Between operations both are exact, on every page   *)
(* that is used to store records: InsertRecord relies on a clear bit of the *)
(* first to find room, GetMaxPageNum on the second to end a scan.           *)
BitmapsExact ==
  todo = << >> => \A p \in DataPage : /\ (p - 1) \in full <=> used[p] = Slot
                                      /\ (p - 1) \in nonEmpty <=> used[p] # {}

(* Why BitmapsExact holds: while an operation is under way the bits that are *)
(* not exact are those todo will still write, each of them once, and it     *)
(* will write what the data page calls for.                                 *)
Target(h, p)  == IF h = "full" THEN used[p] = Slot ELSE used[p] # {}
BitOf(h, p)   == IF h = "full" THEN (p - 1) \in full ELSE (p - 1) \in nonEmpty
Pending(h, p) == \E k \in DOMAIN todo : todo[k].bitmap = h /\ todo[k].pos = p - 1

TodoCalledFor ==
  /\ \A k \in DOMAIN todo : /\ todo[k].pos \in Bit
                            /\ todo[k].on <=> Target(todo[k].bitmap, todo[k].pos + 1)
  /\ \A j, k \in DOMAIN todo : todo[j].bitmap = todo[k].bitmap => j = k
BitsExactOrPending ==
  \A h \in Header, p \in DataPage : Pending(h, p) \/ (BitOf(h, p) <=> Target(h, p))

(* Why scans miss nothing and go forward: what was returned lies up to      *)
(* current_, and what has matched all along and was not returned is ahead.  *)
Returned(r) == \E k \in DOMAIN seen : seen[k] = r

ScanProgress ==
  /\ scan = None => seen = << >> /\ steady = {}
  /\ \A k \in DOMAIN seen : seen[k] = scan \/ Before(seen[k], scan)
  /\ \A r \in steady : Matches(r) /\ (Returned(r) \/ Before(scan, r))

(* Scans miss nothing: when GetNextRecord answers RM_EOF, every record that *)
(* was there and matched all along was returned, whatever was inserted,     *)
(* updated or deleted meanwhile.                                            *)
ScanComplete == eof => \A r \in steady : Returned(r)

(* A scan returns no record twice, even when records are deleted and        *)
(* inserted under it: the ids it returns only go up.                        *)
ScanGoesForward == \A j, k \in DOMAIN seen : j < k => Before(seen[j], seen[k])

(* rm.h:99: the loop over a scan ends.  Records inserted or updated on the  *)
(* way, even to match again behind the scan, cannot keep it going.          *)
ScanEnds == scan # None ~> (eof \/ scan = None)

(* rm.h:25 allows records of up to MaxLength bytes: the file keeps every    *)
(* record as it was written until it is updated or deleted itself.          *)
AbstractRecords == INSTANCE RecordStore WITH
  Rids <- Rid, recs <- [r \in Rid |-> RecordAt(r)]
ImplementsRecordStore == AbstractRecords!Spec

(* The records in use are whole: no write of a neighbour reaches into them. *)
RecordsWhole == \A r \in Rid : RecordAt(r) \in Values \cup {None}
=============================================================================
