---------------------------- MODULE CatalogueProof ----------------------------
(***************************************************************************)
(* Proofs about Catalogue for every set of databases, tables, attributes   *)
(* and declarations: what a restart or the next statement finds.           *)
(***************************************************************************)
EXTENDS Catalogue, DataLemmas, FiniteSetTheorems

-----------------------------------------------------------------------------
(* Names of files.                                                          *)

\* The files a table t has.
FilesOf(T) == {Meta(t) : t \in T} \cup {Data(t) : t \in T}

LEMMA NamesDiffer ==
  /\ DatabaseList \in FileNames /\ TableList \in FileNames /\ DatabaseList # TableList
  /\ FilesOf(Tables) \subseteq FileNames
  /\ \A T : DatabaseList \notin FilesOf(T) /\ TableList \notin FilesOf(T)
  /\ \A t : Meta(t) \notin {DatabaseList, TableList} /\ Data(t) \notin {DatabaseList, TableList}
  /\ \A t, u : Meta(t) # Data(u)
  /\ \A t, u : (Meta(t) = Meta(u) => t = u) /\ (Data(t) = Data(u) => t = u)
<1>1. /\ DatabaseList \in FileNames /\ TableList \in FileNames
      /\ FilesOf(Tables) \subseteq FileNames
  BY DEF FileNames, FilesOf
<1>2. DatabaseList # TableList
  BY DEF DatabaseList, TableList
<1>3. \A t : Meta(t) \notin {DatabaseList, TableList} /\ Data(t) \notin {DatabaseList, TableList}
  BY DEF DatabaseList, TableList, Meta, Data
<1>4. \A t, u : Meta(t) # Data(u)
  BY DEF Meta, Data
<1>5. \A t, u : (Meta(t) = Meta(u) => t = u) /\ (Data(t) = Data(u) => t = u)
  BY DEF Meta, Data
<1>6. \A T : DatabaseList \notin FilesOf(T) /\ TableList \notin FilesOf(T)
  BY <1>3 DEF FilesOf
<1> QED BY <1>1, <1>2, <1>3, <1>4, <1>5, <1>6

-----------------------------------------------------------------------------
(* Sessions.  The files of the tables D have been dropped: an id may still  *)
(* reach what they were, and nothing is said of them.                       *)

Sessions == [cwd : Dbs \cup {Root}, disk : Disk, open : [FileNames -> OpenFiles \cup {None}],
             frames : Seq(Frames), passed : SUBSET Disk, done : BOOLEAN]

\* The directory a file is in.
Home(dir, n) == IF n = DatabaseList THEN Root ELSE dir

NamesRight(names, S, max) == names \in Seq(S) /\ WellFormed(names, max)

\* There is a file n.
Present(dk, dir, n) == dk[Home(dir, n)] # None /\ dk[Home(dir, n)][n] # None

OpensRight(op, dk, dir, D) ==
  \A n \in FileNames \ FilesOf(D) : op[n] # None =>
    op[n].at = Home(dir, n) /\ op[n].gone = None /\ Present(dk, dir, n)

Ids(op) == {op[n].id : n \in {m \in FileNames : op[m] # None}}

IdsApart(op) ==
  /\ IsFiniteSet(Ids(op))
  /\ \A m, n \in FileNames : op[m] # None /\ op[n] # None /\ m # n => op[m].id # op[n].id

\* A frame has what is on disk, but for the list of databases, which CreateDb
\* empties behind its frame.
FrameRight(f, dk, dir, D) ==
  /\ ~f.dirty /\ f.name # None
  /\ f.name = DatabaseList => f.page = 0 /\ NamesRight(ListIn(f.data), Dbs, MaxDatabases)
  /\ f.name \notin FilesOf(D) \cup {DatabaseList} =>
       dir # Root /\ Present(dk, dir, f.name) /\ f.data = dk[dir][f.name][f.page]

FramesRight(fr, dk, dir, D) == \A k \in DOMAIN fr : FrameRight(fr[k], dk, dir, D)

DatabasesRight(dk) ==
  /\ dk[Root] # None
  /\ dk[Root][DatabaseList] # None =>
       NamesRight(ListIn(dk[Root][DatabaseList][0]), Dbs, MaxDatabases)

Sound(s, D) ==
  /\ s \in Sessions
  /\ s.disk \in s.passed /\ s.disk[s.cwd] # None /\ DatabasesRight(s.disk)
  /\ OpensRight(s.open, s.disk, s.cwd, D) /\ IdsApart(s.open)
  /\ FramesRight(s.frames, s.disk, s.cwd, D)

NoFrames(fr, n) == \A k \in DOMAIN fr : fr[k].name # n

\* What a call leaves alone.
ButOpen(r, s) == /\ r.cwd = s.cwd /\ r.disk = s.disk /\ r.frames = s.frames
                 /\ r.passed = s.passed /\ r.done = s.done
ButFrames(r, s) == /\ r.cwd = s.cwd /\ r.disk = s.disk /\ r.open = s.open
                   /\ r.passed = s.passed /\ r.done = s.done
ButDisk(r, s) == r.cwd = s.cwd /\ r.open = s.open /\ r.frames = s.frames /\ r.done = s.done

LEMMA SoundParts ==
  ASSUME NEW D, NEW s, Sound(s, D)
  PROVE  /\ s \in Sessions /\ s.disk \in s.passed /\ s.disk[s.cwd] # None /\ DatabasesRight(s.disk)
         /\ OpensRight(s.open, s.disk, s.cwd, D) /\ IdsApart(s.open)
      /\ FramesRight(s.frames, s.disk, s.cwd, D)
         /\ s.cwd \in Dbs \cup {Root} /\ s.disk \in Disk /\ s.open \in [FileNames -> OpenFiles \cup {None}]
         /\ s.frames \in Seq(Frames) /\ s.passed \subseteq Disk /\ s.done \in BOOLEAN
         /\ s = [cwd |-> s.cwd, disk |-> s.disk, open |-> s.open, frames |-> s.frames,
                 passed |-> s.passed, done |-> s.done]
<1>1. s \in Sessions /\ s.disk \in s.passed /\ s.disk[s.cwd] # None /\ DatabasesRight(s.disk)
      /\ OpensRight(s.open, s.disk, s.cwd, D) /\ IdsApart(s.open)
      /\ FramesRight(s.frames, s.disk, s.cwd, D)
  BY DEF Sound
<1> QED BY <1>1 DEF Sessions

LEMMA SameSession ==
  ASSUME NEW s \in Sessions, NEW r \in Sessions, ButOpen(r, s), r.open = s.open
  PROVE  r = s
BY DEF ButOpen, Sessions

LEMMA OnDiskParts ==
  ASSUME NEW s \in Sessions, NEW dk
  PROVE  OnDisk(s, dk) = [cwd |-> s.cwd, disk |-> dk, open |-> s.open, frames |-> s.frames,
                          passed |-> s.passed \cup {dk}, done |-> s.done]
<1>1. s = [cwd |-> s.cwd, disk |-> s.disk, open |-> s.open, frames |-> s.frames,
           passed |-> s.passed, done |-> s.done]
  BY DEF Sessions
<1>2. OnDisk(s, dk) = [s EXCEPT !.disk = dk, !.passed = s.passed \cup {dk}]
  BY DEF OnDisk
<1> QED BY <1>1, <1>2

-----------------------------------------------------------------------------
(* Calls of the file manager.                                               *)

\* The lowest number that is not in U.
Low(U) == CHOOSE k \in 0 .. Cardinality(U) : k \notin U /\ \A j \in 0 .. (k - 1) : j \in U

LEMMA LowIsLowest ==
  ASSUME NEW U, IsFiniteSet(U), U \subseteq Nat
  PROVE  Low(U) \in Nat /\ Low(U) \notin U /\ \A j \in 0 .. (Low(U) - 1) : j \in U
<1> DEFINE C == Cardinality(U)
           Free == {k \in Nat : k \notin U}
           k0 == Min(Free)
           P(k) == k \notin U /\ \A j \in 0 .. (k - 1) : j \in U
<1>1. C \in Nat
  BY FS_CardinalityType
<1>2. \E k \in 0 .. C : k \notin U
  <2>1. SUFFICES ASSUME 0 .. C \subseteq U PROVE FALSE
    OBVIOUS
  <2>2. IsFiniteSet(0 .. C) /\ Cardinality(0 .. C) = C + 1
    BY <1>1, FS_Interval
  <2>3. Cardinality(0 .. C) <= C
    BY <2>1, FS_Subset
  <2> QED BY <1>1, <2>2, <2>3
<1>3. Free # {} /\ Free \subseteq Nat
  BY <1>1, <1>2
<1>4. k0 \in Free /\ \A y \in Free : k0 <= y
  <2> HIDE DEF Free
  <2> QED BY <1>3, LeastNat
<1> HIDE DEF k0, C
<1>5. P(k0) /\ k0 \in 0 .. C
  <2>1. k0 \in Nat /\ k0 \notin U
    BY <1>4
  <2>2. ASSUME NEW j \in 0 .. (k0 - 1) PROVE j \in U
    <3>1. j \in Nat /\ ~ (k0 <= j)
      BY <2>1
    <3> QED BY <3>1, <1>4
  <2>3. PICK k \in 0 .. C : k \in Free
    BY <1>1, <1>2
  <2>4. k0 <= k
    BY <1>4, <2>3
  <2> QED BY <1>1, <2>1, <2>2, <2>3, <2>4
<1>6. Low(U) = CHOOSE k \in 0 .. C : P(k)
  BY DEF Low, C
<1> HIDE DEF P
<1>7. Low(U) \in 0 .. C /\ P(Low(U))
  BY <1>5, <1>6
<1> QED BY <1>1, <1>7 DEF P

\* It stays when more numbers are taken, but not itself.
LEMMA LowStays ==
  ASSUME NEW U, NEW V, IsFiniteSet(V), U \subseteq V, V \subseteq Nat, Low(U) \notin V
  PROVE  Low(V) = Low(U)
<1>1. IsFiniteSet(U) /\ U \subseteq Nat
  BY FS_Subset
<1>2. Low(U) \in Nat /\ \A j \in 0 .. (Low(U) - 1) : j \in U
  BY <1>1, LowIsLowest
<1>3. Low(V) \in Nat /\ Low(V) \notin V /\ \A j \in 0 .. (Low(V) - 1) : j \in V
  BY LowIsLowest
<1>4. ~ (Low(V) < Low(U))
  BY <1>2, <1>3
<1>5. ~ (Low(U) < Low(V))
  BY <1>2, <1>3
<1> QED BY <1>2, <1>3, <1>4, <1>5

\* There is always an id to give out, the lowest that is not in use.
LEMMA FreeIdIsLowest ==
  ASSUME NEW s, IsFiniteSet(UsedIds(s)), UsedIds(s) \subseteq Nat
  PROVE  /\ FreeId(s) = Low(UsedIds(s))
         /\ FreeId(s) \in Nat /\ FreeId(s) \notin UsedIds(s)
<1>1. FreeId(s) = Low(UsedIds(s))
  BY DEF FreeId, Low
<1> QED BY <1>1, LowIsLowest

LEMMA OpenIds ==
  ASSUME NEW s \in Sessions
  PROVE  /\ UsedIds(s) \subseteq Nat
         /\ \A n \in FileNames : s.open[n] # None =>
              s.open[n] \in OpenFiles /\ s.open[n].id \in UsedIds(s) /\ s.open[n].id \in Nat
<1>1. \A n \in FileNames : s.open[n] # None => s.open[n] \in OpenFiles
  BY DEF Sessions
<1>2. \A o \in OpenFiles : o.id \in Nat
  BY DEF OpenFiles
<1> QED BY <1>1, <1>2 DEF UsedIds

LEMMA OpenFileSound ==
  ASSUME NEW D, NEW s, Sound(s, D), NEW n \in FileNames \ FilesOf(D),
         n = DatabaseList => s.cwd = Root \/ s.open[n] # None
  PROVE  LET r == OpenFile(s, n)
         IN  /\ Sound(r, D)
             /\ ButOpen(r, s)
             /\ \A m \in FileNames \ {n} : r.open[m] = s.open[m]
             /\ s.open[n] # None => r = s
             /\ ~Opens(s, n) => r = s
             /\ s.open[n] = None /\ Opens(s, n) =>
                  r.open = [s.open EXCEPT ![n] = [id |-> FreeId(s), at |-> s.cwd, gone |-> None]]
             /\ Opens(s, n) => r.open[n] # None /\ Present(s.disk, s.cwd, n)
<1> DEFINE r == OpenFile(s, n)
           o == [id |-> FreeId(s), at |-> s.cwd, gone |-> None]
<1>1. /\ s \in Sessions /\ s.cwd \in Dbs \cup {Root} /\ s.open \in [FileNames -> OpenFiles \cup {None}]
      /\ s.disk \in s.passed /\ s.disk[s.cwd] # None /\ DatabasesRight(s.disk)
      /\ OpensRight(s.open, s.disk, s.cwd, D) /\ IdsApart(s.open)
      /\ FramesRight(s.frames, s.disk, s.cwd, D)
      /\ s = [cwd |-> s.cwd, disk |-> s.disk, open |-> s.open, frames |-> s.frames,
              passed |-> s.passed, done |-> s.done]
  BY ONLY Sound(s, D), SoundParts
<1>2. CASE s.open[n] # None
  <2>1. r = s
    BY <1>2 DEF OpenFile
  <2>2. Present(s.disk, s.cwd, n)
    BY <1>1, <1>2 DEF OpensRight
  <2> QED BY <2>1, <2>2, <1>1, <1>2 DEF ButOpen
<1>3. CASE s.open[n] = None /\ ~Opens(s, n)
  <2>1. r = s
    BY <1>3 DEF OpenFile
  <2> QED BY <2>1, <1>1, <1>3 DEF ButOpen
<1>4. CASE s.open[n] = None /\ Opens(s, n)
  <2>1. FreeId(s) \in Nat /\ FreeId(s) \notin UsedIds(s)
    BY <1>1, FreeIdIsLowest, OpenIds, UsedIds(s) = Ids(s.open) DEF IdsApart, UsedIds, Ids
  <2>2. o \in OpenFiles /\ o # None
    BY <1>1, <2>1, NoneAssumption DEF OpenFiles
  <2>3. r = [s EXCEPT !.open = [s.open EXCEPT ![n] = o]]
    <3>1. r = [s EXCEPT !.open[n] = o]
      BY <1>4 DEF OpenFile
    <3> HIDE DEF r, o
    <3> QED BY <3>1, <1>1
  <2> HIDE DEF r
  <2> DEFINE op == [s.open EXCEPT ![n] = o]
  <2>4. /\ op \in [FileNames -> OpenFiles \cup {None}] /\ op[n] = o
        /\ \A m \in FileNames \ {n} : op[m] = s.open[m]
    BY <1>1, <2>2
  <2> HIDE DEF op, o
  <2>5. /\ r \in Sessions /\ r.open = op /\ r.disk = s.disk /\ r.cwd = s.cwd /\ r.frames = s.frames
        /\ r.passed = s.passed /\ ButOpen(r, s)
    <3>1. r = [cwd |-> s.cwd, disk |-> s.disk, open |-> op, frames |-> s.frames,
               passed |-> s.passed, done |-> s.done]
      BY <2>3, <1>1 DEF op
    <3> QED BY <3>1, <1>1, <2>4 DEF Sessions, ButOpen
  <2>6. Home(s.cwd, n) = s.cwd /\ Present(s.disk, s.cwd, n)
    BY <1>1, <1>4 DEF Opens, Home, Present
  <2>8. OpensRight(op, s.disk, s.cwd, D)
    <3>1. o.at = s.cwd /\ o.gone = None
      BY DEF o
    <3> QED BY <2>4, <2>5, <2>6, <3>1, <1>1 DEF OpensRight
  <2>9. IdsApart(op)
    <3>1. o.id = FreeId(s)
      BY DEF o
    <3>2. \A m \in FileNames : s.open[m] # None => s.open[m].id \in UsedIds(s)
      BY DEF UsedIds
    <3>3. Ids(op) \subseteq Ids(s.open) \cup {o.id}
      BY <2>2, <2>4, <1>4 DEF Ids
    <3>4. IsFiniteSet(Ids(op))
      <4>1. IsFiniteSet(Ids(s.open) \cup {o.id})
        BY <1>1, FS_AddElement DEF IdsApart
      <4> QED BY <3>3, <4>1, FS_Subset
    <3>5. \A k, m \in FileNames : op[k] # None /\ op[m] # None /\ k # m => op[k].id # op[m].id
      BY <2>1, <2>4, <3>1, <3>2, <1>1 DEF IdsApart
    <3> QED BY <3>4, <3>5 DEF IdsApart
  <2>10. FramesRight(r.frames, r.disk, r.cwd, D)
    BY <1>1, <2>5
  <2>11. Sound(r, D)
    BY <1>1, <2>5, <2>8, <2>9, <2>10 DEF Sound
  <2> QED BY <1>4, <2>2, <2>4, <2>5, <2>6, <2>11 DEF r, op, o
<1> QED BY <1>2, <1>3, <1>4

LEMMA FileOpened ==
  ASSUME NEW D, NEW s, Sound(s, D), NEW n \in FileNames \ FilesOf(D), n # DatabaseList
  PROVE  /\ Sound(OpenFile(s, n), D) /\ ButOpen(OpenFile(s, n), s)
         /\ \A m \in FileNames \ {n} : OpenFile(s, n).open[m] = s.open[m]
         /\ Opens(s, n) => OpenFile(s, n).open[n] # None
<1> DEFINE r == OpenFile(s, n)
<1>1. /\ Sound(r, D)
      /\ ButOpen(r, s)
      /\ \A m \in FileNames \ {n} : r.open[m] = s.open[m]
      /\ s.open[n] # None => r = s
      /\ ~Opens(s, n) => r = s
      /\ s.open[n] = None /\ Opens(s, n) =>
           r.open = [s.open EXCEPT ![n] = [id |-> FreeId(s), at |-> s.cwd, gone |-> None]]
      /\ Opens(s, n) => r.open[n] # None /\ Present(s.disk, s.cwd, n)
  BY OpenFileSound
<1> QED BY <1>1

LEMMA CloseFileSound ==
  ASSUME NEW D, NEW s, Sound(s, D), NEW n \in FileNames
  PROVE  LET r == CloseFile(s, n)
         IN  Sound(r, D) /\ ButOpen(r, s) /\ r.open = [s.open EXCEPT ![n] = None]
<1> DEFINE r == CloseFile(s, n)
           op == [s.open EXCEPT ![n] = None]
<1>1. /\ s \in Sessions /\ s.cwd \in Dbs \cup {Root} /\ s.open \in [FileNames -> OpenFiles \cup {None}]
      /\ s.disk \in s.passed /\ s.disk[s.cwd] # None /\ DatabasesRight(s.disk)
      /\ OpensRight(s.open, s.disk, s.cwd, D) /\ IdsApart(s.open)
      /\ FramesRight(s.frames, s.disk, s.cwd, D)
      /\ s = [cwd |-> s.cwd, disk |-> s.disk, open |-> s.open, frames |-> s.frames,
              passed |-> s.passed, done |-> s.done]
  BY ONLY Sound(s, D), SoundParts
<1>2. r = [cwd |-> s.cwd, disk |-> s.disk, open |-> op, frames |-> s.frames,
           passed |-> s.passed, done |-> s.done]
  BY <1>1 DEF CloseFile
<1>3. /\ op \in [FileNames -> OpenFiles \cup {None}] /\ op[n] = None
      /\ \A m \in FileNames \ {n} : op[m] = s.open[m]
  BY <1>1
<1> HIDE DEF op, r
<1>4. /\ r \in Sessions /\ r.open = op /\ r.disk = s.disk /\ r.cwd = s.cwd /\ r.frames = s.frames
      /\ r.passed = s.passed /\ ButOpen(r, s)
  BY <1>1, <1>2, <1>3 DEF Sessions, ButOpen
<1>6. OpensRight(op, s.disk, s.cwd, D)
  BY <1>1, <1>3 DEF OpensRight
<1>7. IdsApart(op)
  <2>1. Ids(op) \subseteq Ids(s.open)
    BY <1>3 DEF Ids
  <2>2. IsFiniteSet(Ids(op))
    BY <2>1, <1>1, FS_Subset DEF IdsApart
  <2> QED BY <2>2, <1>1, <1>3 DEF IdsApart
<1>8. FramesRight(r.frames, r.disk, r.cwd, D)
  BY <1>1, <1>4
<1>9. Sound(r, D)
  BY <1>1, <1>4, <1>6, <1>7, <1>8 DEF Sound
<1> QED BY <1>4, <1>9 DEF r, op

-----------------------------------------------------------------------------
(* Frames.                                                                  *)

LEMMA FrameFound ==
  ASSUME NEW s, s.frames \in Seq(Frames), NEW n, NEW p
  PROVE  LET k      == FrameOf(s, n, p)
             has(j) == s.frames[j].id = s.open[n].id /\ s.frames[j].page = p
         IN  /\ k \in 0 .. Len(s.frames)
             /\ k # 0 => has(k)
             /\ \A j \in 1 .. Len(s.frames) : has(j) => k # 0 /\ k <= j
<1> DEFINE hits == {k \in DOMAIN s.frames : s.frames[k].id = s.open[n].id /\ s.frames[k].page = p}
<1>1. DOMAIN s.frames = 1 .. Len(s.frames) /\ Len(s.frames) \in Nat
  OBVIOUS
<1>2. hits \subseteq Nat
  BY <1>1
<1>3. hits # {} => Min(hits) \in hits /\ \A y \in hits : Min(hits) <= y
  <2> HIDE DEF hits
  <2> QED BY <1>2, LeastNat
<1>4. FrameOf(s, n, p) = IF hits = {} THEN 0 ELSE Min(hits)
  BY DEF FrameOf
<1>5. \A j \in 1 .. Len(s.frames) : s.frames[j].id = s.open[n].id /\ s.frames[j].page = p => j \in hits
  BY <1>1
<1>6. \A k \in hits : k \in 1 .. Len(s.frames) /\ s.frames[k].id = s.open[n].id /\ s.frames[k].page = p
  BY <1>1
<1> HIDE DEF hits
<1>7. CASE hits = {}
  BY <1>1, <1>4, <1>5, <1>7
<1>8. CASE hits # {}
  BY <1>1, <1>3, <1>4, <1>5, <1>6, <1>8
<1> QED BY <1>7, <1>8

\* What one frame less or one more leaves of the others.
LEMMA FrameTaken ==
  ASSUME NEW fr \in Seq(Frames), NEW m \in 1 .. Len(fr)
  PROVE  /\ RemoveAt(fr, m) \in Seq(Frames) /\ Len(RemoveAt(fr, m)) = Len(fr) - 1
         /\ \A i \in DOMAIN RemoveAt(fr, m) : \E j \in (DOMAIN fr) \ {m} : RemoveAt(fr, m)[i] = fr[j]
<1> DEFINE r == RemoveAt(fr, m)
<1>1. /\ r \in Seq(Frames) /\ Len(r) = Len(fr) - 1
      /\ \A i \in 1 .. (Len(fr) - 1) : r[i] = IF i < m THEN fr[i] ELSE fr[i + 1]
  BY RemoveAtFacts
<1>2. Len(fr) \in Nat /\ DOMAIN fr = 1 .. Len(fr) /\ DOMAIN r = 1 .. (Len(fr) - 1)
  BY <1>1
<1> HIDE DEF r
<1>3. ASSUME NEW i \in 1 .. (Len(fr) - 1) PROVE \E j \in (DOMAIN fr) \ {m} : r[i] = fr[j]
  <2>1. CASE i < m
    <3>1. i \in (DOMAIN fr) \ {m}
      BY <2>1, <1>2
    <3> QED BY <3>1, <2>1, <1>1
  <2>2. CASE ~ (i < m)
    <3>1. i + 1 \in (DOMAIN fr) \ {m}
      BY <2>2, <1>2
    <3> QED BY <3>1, <2>2, <1>1
  <2> QED BY <2>1, <2>2
<1> QED BY <1>1, <1>2, <1>3 DEF r

LEMMA FramePut ==
  ASSUME NEW fr \in Seq(Frames), NEW f \in Frames
  PROVE  /\ Cons(f, fr) \in Seq(Frames) /\ Len(Cons(f, fr)) = Len(fr) + 1
         /\ Cons(f, fr)[1] = f
         /\ \A i \in DOMAIN Cons(f, fr) : i # 1 => i - 1 \in DOMAIN fr /\ Cons(f, fr)[i] = fr[i - 1]
         /\ RemoveAt(Cons(f, fr), 1) = fr
<1> DEFINE c == Cons(f, fr)
           r == RemoveAt(c, 1)
<1>1. /\ c \in Seq(Frames) /\ Len(c) = Len(fr) + 1 /\ c[1] = f
      /\ \A i \in 1 .. Len(fr) : c[i + 1] = fr[i]
  <2>1. c \in Seq(Frames)
    BY ONLY fr \in Seq(Frames), f \in Frames, ConsAt
  <2>2. Len(c) = Len(fr) + 1
    BY ONLY fr \in Seq(Frames), f \in Frames, ConsAt
  <2>3. c[1] = f
    BY ONLY fr \in Seq(Frames), f \in Frames, ConsAt
  <2>4. \A S, s, e : s \in Seq(S) /\ e \in S => \A i \in 1 .. Len(s) : Cons(e, s)[i + 1] = s[i]
    BY ONLY ConsAt
  <2>5. \A i \in 1 .. Len(fr) : Cons(f, fr)[i + 1] = fr[i]
    BY ONLY fr \in Seq(Frames), f \in Frames, <2>4
  <2> QED BY ONLY <2>1, <2>2, <2>3, <2>5
<1>2. Len(fr) \in Nat /\ DOMAIN fr = 1 .. Len(fr) /\ DOMAIN c = 1 .. (Len(fr) + 1)
  BY <1>1
<1> HIDE DEF c
<1>3. ASSUME NEW i \in DOMAIN c, i # 1 PROVE i - 1 \in DOMAIN fr /\ c[i] = fr[i - 1]
  <2>1. i - 1 \in 1 .. Len(fr) /\ (i - 1) + 1 = i
    BY <1>2, <1>3
  <2> QED BY <2>1, <1>1, <1>2
<1>4. r = fr
  <2>1. 1 \in 1 .. Len(c)
    BY <1>1, <1>2
  <2>2. /\ r \in Seq(Frames) /\ Len(r) = Len(c) - 1
        /\ \A i \in 1 .. (Len(c) - 1) : r[i] = IF i < 1 THEN c[i] ELSE c[i + 1]
    BY ONLY <2>1, <1>1, RemoveAtFacts
  <2> HIDE DEF r
  <2>3. Len(r) = Len(fr)
    BY <1>1, <1>2, <2>2
  <2>4. \A i \in 1 .. Len(r) : r[i] = fr[i]
    BY <1>1, <1>2, <2>2, <2>3
  <2> QED BY ONLY <2>2, <2>3, <2>4, fr \in Seq(Frames), SeqEqual
<1> QED BY <1>1, <1>3, <1>4 DEF c

\* getPage of page p of a file n that is open and has not been dropped.
CanGet(s, D, n, p) ==
  /\ Sound(s, D)
  /\ n \in FileNames \ FilesOf(D) /\ s.open[n] # None
  /\ p \in Page /\ IF n = DatabaseList THEN p = 0 ELSE s.cwd # Root

LEMMA PageRead ==
  ASSUME NEW D, NEW s, NEW n, NEW p, CanGet(s, D, n, p)
  PROVE  /\ ReadPage(s, n, p) \in Content
         /\ n = DatabaseList => NamesRight(ListIn(ReadPage(s, n, p)), Dbs, MaxDatabases)
         /\ n # DatabaseList => ReadPage(s, n, p) = s.disk[s.cwd][n][p]
         /\ Present(s.disk, s.cwd, n) /\ s.disk[Home(s.cwd, n)][n] \in File
<1>1. /\ Sound(s, D) /\ n \in FileNames \ FilesOf(D) /\ s.open[n] # None
      /\ p \in Page /\ IF n = DatabaseList THEN p = 0 ELSE s.cwd # Root
  BY DEF CanGet
<1>2. /\ s.cwd \in Dbs \cup {Root} /\ s.disk \in Disk
      /\ DatabasesRight(s.disk) /\ OpensRight(s.open, s.disk, s.cwd, D)
  BY ONLY <1>1, SoundParts
<1>3. s.open[n].at = Home(s.cwd, n) /\ s.open[n].gone = None /\ Present(s.disk, s.cwd, n)
  BY <1>1, <1>2 DEF OpensRight
<1>4. Home(s.cwd, n) \in Dbs \cup {Root}
  BY <1>2 DEF Home
<1>5. s.disk[Home(s.cwd, n)][n] \in File
  BY <1>1, <1>2, <1>3, <1>4 DEF Disk, Directory, Present
<1>6. ReadPage(s, n, p) = s.disk[Home(s.cwd, n)][n][p]
  BY <1>3 DEF ReadPage
<1>7. ReadPage(s, n, p) \in Content
  BY <1>1, <1>5, <1>6 DEF File
<1>8. n = DatabaseList => NamesRight(ListIn(ReadPage(s, n, p)), Dbs, MaxDatabases)
  BY <1>1, <1>2, <1>3, <1>6 DEF DatabasesRight, Present, Home
<1> QED BY <1>3, <1>5, <1>6, <1>7, <1>8 DEF Home

LEMMA FramesChanged ==
  ASSUME NEW D, NEW s, Sound(s, D), NEW r, NEW fr \in Seq(Frames),
         FramesRight(fr, s.disk, s.cwd, D), r = [s EXCEPT !.frames = fr]
  PROVE  /\ Sound(r, D) /\ r.frames = fr /\ ButFrames(r, s)
         /\ r.open = s.open /\ r.disk = s.disk /\ r.cwd = s.cwd /\ r.passed = s.passed /\ r.done = s.done
<1>1. /\ s \in Sessions /\ s.disk \in s.passed /\ s.disk[s.cwd] # None /\ DatabasesRight(s.disk)
      /\ OpensRight(s.open, s.disk, s.cwd, D) /\ IdsApart(s.open)
      /\ s = [cwd |-> s.cwd, disk |-> s.disk, open |-> s.open, frames |-> s.frames,
              passed |-> s.passed, done |-> s.done]
  BY ONLY Sound(s, D), SoundParts
<1>2. r = [cwd |-> s.cwd, disk |-> s.disk, open |-> s.open, frames |-> fr,
           passed |-> s.passed, done |-> s.done]
  BY <1>1
<1>3. r \in Sessions
  BY <1>1, <1>2 DEF Sessions
<1>4. /\ r.frames = fr /\ r.open = s.open /\ r.disk = s.disk /\ r.cwd = s.cwd
      /\ r.passed = s.passed /\ r.done = s.done
  BY <1>2
<1> QED BY <1>1, <1>3, <1>4 DEF Sound, ButFrames

LEMMA GetPageSound ==
  ASSUME NEW D, NEW s, NEW n, NEW p, CanGet(s, D, n, p)
  PROVE  LET g == GetPage(s, n, p)
             k == FrameOf(g, n, p)
         IN  /\ Sound(g, D) /\ ButFrames(g, s)
             /\ k \in 1 .. Len(g.frames) /\ g.frames[k].name = n
             /\ Seen(s, n, p) \in Content
             /\ n = DatabaseList => NamesRight(ListIn(Seen(s, n, p)), Dbs, MaxDatabases)
             /\ n # DatabaseList => Seen(s, n, p) = s.disk[s.cwd][n][p]
             /\ \/ g.frames = s.frames /\ k = FrameOf(s, n, p)
                \/ /\ k = 1 /\ ~(FrameOf(s, n, p) # 0 /\ s.frames[FrameOf(s, n, p)].name = n)
                   /\ \E f \in Frames : f.name = n /\ g.frames = Cons(f, s.frames)
<1> DEFINE g == GetPage(s, n, p)
           k0 == FrameOf(s, n, p)
           v == ReadPage(s, n, p)
           f == [id |-> s.open[n].id, page |-> p, name |-> n, data |-> v, dirty |-> FALSE]
<1>1. /\ Sound(s, D) /\ n \in FileNames \ FilesOf(D) /\ s.open[n] # None
      /\ p \in Page /\ IF n = DatabaseList THEN p = 0 ELSE s.cwd # Root
  BY DEF CanGet
<1>2. /\ s.frames \in Seq(Frames) /\ FramesRight(s.frames, s.disk, s.cwd, D)
      /\ s \in Sessions
  BY ONLY <1>1, SoundParts
<1>3. /\ v \in Content
      /\ n = DatabaseList => NamesRight(ListIn(v), Dbs, MaxDatabases)
      /\ n # DatabaseList => v = s.disk[s.cwd][n][p]
      /\ Present(s.disk, s.cwd, n)
  BY ONLY CanGet(s, D, n, p), PageRead
<1>4. /\ k0 \in 0 .. Len(s.frames)
      /\ k0 # 0 => s.frames[k0].id = s.open[n].id /\ s.frames[k0].page = p
  BY ONLY <1>2, FrameFound
<1>5. CASE k0 # 0 /\ s.frames[k0].name = n
  <2>1. g = s
    BY <1>5 DEF GetPage
  <2>2. Seen(s, n, p) = s.frames[k0].data
    BY <2>1 DEF Seen
  <2>3. k0 \in DOMAIN s.frames /\ k0 \in 1 .. Len(s.frames)
    BY <1>2, <1>4, <1>5
  <2>4. FrameRight(s.frames[k0], s.disk, s.cwd, D) /\ s.frames[k0] \in Frames
    BY <1>2, <2>3 DEF FramesRight
  <2>5. s.frames[k0].data \in Content
    BY <2>4 DEF Frames
  <2>6. /\ n = DatabaseList => NamesRight(ListIn(Seen(s, n, p)), Dbs, MaxDatabases)
        /\ n # DatabaseList => Seen(s, n, p) = s.disk[s.cwd][n][p]
    BY <1>1, <1>4, <1>5, <2>2, <2>4 DEF FrameRight
  <2>7. ButFrames(g, s)
    BY <2>1, <1>2 DEF ButFrames
  <2> HIDE DEF g, k0
  <2> QED BY <1>1, <1>5, <2>1, <2>2, <2>3, <2>5, <2>6, <2>7 DEF g, k0
<1>6. CASE ~(k0 # 0 /\ s.frames[k0].name = n)
  <2>1. g = [s EXCEPT !.frames = Cons(f, s.frames)]
    <3>1. g = [s EXCEPT !.frames = Cons(f, @)]
      BY <1>6 DEF GetPage
    <3> HIDE DEF f, g
    <3> QED BY <3>1, <1>2 DEF Sessions
  <2>2. f \in Frames
    <3>1. s.open[n].id \in Nat
      BY <1>1, <1>2, OpenIds
    <3> QED BY <3>1, <1>1, <1>3 DEF Frames
  <2>3. FrameRight(f, s.disk, s.cwd, D)
    <3>1. n # None
      BY <1>1, NoneAssumption
    <3> QED BY <3>1, <1>1, <1>3 DEF FrameRight
  <2>4. f.name = n /\ f.id = s.open[n].id /\ f.page = p /\ f.data = v
    OBVIOUS
  <2> DEFINE fr == Cons(f, s.frames)
  <2> HIDE DEF f, g, v
  <2>5. /\ fr \in Seq(Frames) /\ Len(fr) = Len(s.frames) + 1 /\ fr[1] = f
        /\ \A i \in DOMAIN fr : i # 1 => i - 1 \in DOMAIN s.frames /\ fr[i] = s.frames[i - 1]
    BY <1>2, <2>2, FramePut
  <2> HIDE DEF fr
  <2>6. FramesRight(fr, s.disk, s.cwd, D)
    BY <1>2, <2>3, <2>5 DEF FramesRight
  <2>7. /\ Sound(g, D) /\ g.frames = fr /\ ButFrames(g, s) /\ g.open = s.open
    <3>1. g = [s EXCEPT !.frames = fr]
      BY <2>1 DEF fr
    <3> QED BY ONLY <3>1, <1>1, <2>5, <2>6, FramesChanged
  <2> DEFINE k == FrameOf(g, n, p)
  <2>8. k = 1 /\ 1 \in 1 .. Len(fr)
    <3>1. /\ k \in 0 .. Len(g.frames)
          /\ \A j \in 1 .. Len(g.frames) :
               g.frames[j].id = g.open[n].id /\ g.frames[j].page = p => k # 0 /\ k <= j
      BY ONLY <2>5, <2>7, FrameFound
    <3>2. 1 \in 1 .. Len(fr)
      BY <1>2, <2>5
    <3> QED BY <3>1, <3>2, <2>4, <2>5, <2>7
  <2>9. Seen(s, n, p) = v
    BY <2>4, <2>5, <2>7, <2>8 DEF Seen, g
  <2>10. \E x \in Frames : x.name = n /\ g.frames = Cons(x, s.frames)
    BY <2>2, <2>4, <2>7 DEF fr
  <2> QED BY <1>3, <1>6, <2>4, <2>5, <2>7, <2>8, <2>9, <2>10 DEF g, v
<1> QED BY <1>5, <1>6

\* What is left when a page that was got is given back.
LEMMA ReleaseSound ==
  ASSUME NEW D, NEW s, NEW n, NEW p, CanGet(s, D, n, p)
  PROVE  LET r == Release(GetPage(s, n, p), n, p)
         IN  /\ Sound(r, D) /\ ButFrames(r, s)
             /\ \A m : NoFrames(s.frames, m) => NoFrames(r.frames, m)
             /\ NoFrames(s.frames, n) => r.frames = s.frames
             /\ (\A k \in DOMAIN s.frames : s.frames[k].name = n => k = FrameOf(s, n, p))
                  => NoFrames(r.frames, n)
<1> DEFINE g == GetPage(s, n, p)
           k == FrameOf(g, n, p)
           k0 == FrameOf(s, n, p)
           r == Release(g, n, p)
           fr == RemoveAt(g.frames, k)
<1>1. /\ Sound(g, D) /\ ButFrames(g, s)
      /\ k \in 1 .. Len(g.frames) /\ g.frames[k].name = n
      /\ \/ g.frames = s.frames /\ k = k0
         \/ /\ k = 1 /\ ~(k0 # 0 /\ s.frames[k0].name = n)
            /\ \E f \in Frames : f.name = n /\ g.frames = Cons(f, s.frames)
  BY ONLY CanGet(s, D, n, p), GetPageSound
<1>2. /\ Sound(s, D) /\ s.frames \in Seq(Frames) /\ FramesRight(s.frames, s.disk, s.cwd, D)
      /\ s \in Sessions
  BY SoundParts DEF CanGet
<1>3. g.disk = s.disk /\ g.cwd = s.cwd /\ g.frames \in Seq(Frames) /\ FramesRight(g.frames, g.disk, g.cwd, D)
      /\ g \in Sessions
  <2> HIDE DEF g
  <2>1. g.frames \in Seq(Frames) /\ FramesRight(g.frames, g.disk, g.cwd, D) /\ g \in Sessions
    BY ONLY <1>1, SoundParts
  <2> QED BY <2>1, <1>1, <1>2 DEF ButFrames, Sessions
<1>4. r = [g EXCEPT !.frames = fr]
  <2>1. r = [g EXCEPT !.frames = RemoveAt(@, k)]
    BY DEF Release
  <2> HIDE DEF g, k
  <2> QED BY <2>1, <1>3 DEF Sessions
<1> HIDE DEF g, k, k0, r
<1>5. /\ fr \in Seq(Frames) /\ Len(fr) = Len(g.frames) - 1
      /\ \A i \in DOMAIN fr : \E j \in (DOMAIN g.frames) \ {k} : fr[i] = g.frames[j]
  BY <1>1, <1>3, FrameTaken
<1> HIDE DEF fr
<1>6. FramesRight(fr, g.disk, g.cwd, D)
  BY <1>3, <1>5 DEF FramesRight
<1>7. Sound(r, D) /\ r.frames = fr /\ ButFrames(r, g)
  BY ONLY <1>1, <1>4, <1>5, <1>6, FramesChanged
<1>8. ButFrames(r, s)
  BY <1>1, <1>2, <1>4, <1>7 DEF ButFrames
<1>9. CASE g.frames = s.frames /\ k = k0
  <2>1. \A m : NoFrames(s.frames, m) => NoFrames(r.frames, m)
    BY <1>5, <1>7, <1>9 DEF NoFrames
  <2>2. ~NoFrames(s.frames, n)
    BY <1>1, <1>2, <1>9 DEF NoFrames
  <2>3. (\A i \in DOMAIN s.frames : s.frames[i].name = n => i = k0) => NoFrames(r.frames, n)
    BY <1>5, <1>7, <1>9 DEF NoFrames
  <2> QED BY <1>7, <1>8, <2>1, <2>2, <2>3 DEF r, k0, g
<1>10. CASE /\ k = 1 /\ ~(k0 # 0 /\ s.frames[k0].name = n)
            /\ \E f \in Frames : f.name = n /\ g.frames = Cons(f, s.frames)
  <2>1. r.frames = s.frames
    BY <1>2, <1>7, <1>10, FramePut DEF fr
  <2>2. (\A i \in DOMAIN s.frames : s.frames[i].name = n => i = k0) => NoFrames(s.frames, n)
    <3>1. 0 \notin DOMAIN s.frames
      BY <1>2
    <3> QED BY <3>1, <1>10 DEF NoFrames
  <2> QED BY <1>7, <1>8, <2>1, <2>2 DEF r, k0, g
<1> QED BY <1>1, <1>9, <1>10

-----------------------------------------------------------------------------
(* Writes.                                                                  *)

\* The disk with x as the file n of directory d.
Put(dk, d, n, x) == [dk EXCEPT ![d] = [dk[d] EXCEPT ![n] = x]]

LEMMA PutParts ==
  ASSUME NEW dk \in Disk, NEW d \in Dbs \cup {Root}, dk[d] # None, NEW n \in FileNames,
         NEW x \in File \cup {None}
  PROVE  /\ Put(dk, d, n, x) \in Disk
         /\ Put(dk, d, n, x)[d] \in Directory /\ Put(dk, d, n, x)[d] # None
         /\ Put(dk, d, n, x)[d][n] = x
         /\ \A m \in FileNames \ {n} : Put(dk, d, n, x)[d][m] = dk[d][m]
         /\ \A e \in (Dbs \cup {Root}) \ {d} : Put(dk, d, n, x)[e] = dk[e]
<1>1. dk[d] \in Directory
  BY DEF Disk
<1> DEFINE y == [dk[d] EXCEPT ![n] = x]
<1>2. y \in Directory /\ y[n] = x /\ \A m \in FileNames \ {n} : y[m] = dk[d][m]
  BY <1>1 DEF Directory
<1>3. y # None
  BY <1>2, NoneAssumption
<1>4. Put(dk, d, n, x) = [dk EXCEPT ![d] = y]
  BY DEF Put
<1> HIDE DEF y
<1>5. /\ [dk EXCEPT ![d] = y] \in Disk /\ [dk EXCEPT ![d] = y][d] = y
      /\ \A e \in (Dbs \cup {Root}) \ {d} : [dk EXCEPT ![d] = y][e] = dk[e]
  BY <1>2 DEF Disk
<1> QED BY <1>2, <1>3, <1>4, <1>5

\* A file that no frame is of may be written as a whole or in part.
LEMMA FileWritten ==
  ASSUME NEW D, NEW s, Sound(s, D), NEW n \in FileNames, NEW x \in File,
         n = DatabaseList => NamesRight(ListIn(x[0]), Dbs, MaxDatabases),
         n # DatabaseList => s.cwd # Root /\ NoFrames(s.frames, n)
  PROVE  LET dk == Put(s.disk, Home(s.cwd, n), n, x)
             r  == OnDisk(s, dk)
         IN  /\ Sound(r, D) /\ ButDisk(r, s)
             /\ r.disk = dk /\ r.passed = s.passed \cup {dk}
<1> DEFINE h == Home(s.cwd, n)
           dk == Put(s.disk, h, n, x)
           r == OnDisk(s, dk)
<1>1. /\ s \in Sessions /\ s.disk \in s.passed /\ s.disk[s.cwd] # None /\ DatabasesRight(s.disk)
      /\ OpensRight(s.open, s.disk, s.cwd, D) /\ IdsApart(s.open)
      /\ FramesRight(s.frames, s.disk, s.cwd, D)
      /\ s.cwd \in Dbs \cup {Root} /\ s.disk \in Disk /\ s.passed \subseteq Disk
      /\ s = [cwd |-> s.cwd, disk |-> s.disk, open |-> s.open, frames |-> s.frames,
              passed |-> s.passed, done |-> s.done]
  BY ONLY Sound(s, D), SoundParts
<1>2. h \in Dbs \cup {Root} /\ s.disk[h] # None
  BY <1>1 DEF Home, DatabasesRight
<1>3. /\ dk \in Disk /\ dk[h] # None /\ dk[h][n] = x
      /\ \A m \in FileNames \ {n} : dk[h][m] = s.disk[h][m]
      /\ \A e \in (Dbs \cup {Root}) \ {h} : dk[e] = s.disk[e]
  BY <1>1, <1>2, PutParts
<1> HIDE DEF dk
<1>4. r = [cwd |-> s.cwd, disk |-> dk, open |-> s.open, frames |-> s.frames,
           passed |-> s.passed \cup {dk}, done |-> s.done]
  BY <1>1, OnDiskParts
<1> HIDE DEF r
<1>5. r \in Sessions
  BY <1>1, <1>3, <1>4 DEF Sessions
<1>6. /\ r.cwd = s.cwd /\ r.disk = dk /\ r.open = s.open /\ r.frames = s.frames
      /\ r.passed = s.passed \cup {dk}
  BY <1>4
<1>7. dk[s.cwd] # None /\ r.disk \in r.passed
  BY <1>1, <1>3, <1>6
<1>8. x # None
  BY NoneAssumption
<1>9. \A m \in FileNames : Present(s.disk, s.cwd, m) => Present(dk, s.cwd, m)
  BY <1>1, <1>3, <1>8 DEF Present, Home
<1>10. OpensRight(s.open, dk, s.cwd, D)
  BY <1>1, <1>9 DEF OpensRight
<1>11. DatabasesRight(dk)
  <2>1. CASE n = DatabaseList
    BY <2>1, <1>3 DEF Home, DatabasesRight
  <2>2. CASE n # DatabaseList
    <3>1. h # Root
      BY <2>2 DEF Home
    <3> QED BY <3>1, <1>1, <1>3 DEF DatabasesRight
  <2> QED BY <2>1, <2>2
<1>12. FramesRight(s.frames, dk, s.cwd, D)
  <2>1. ASSUME NEW k \in DOMAIN s.frames, s.frames[k].name \notin FilesOf(D) \cup {DatabaseList}
        PROVE  /\ s.cwd # Root /\ Present(dk, s.cwd, s.frames[k].name)
               /\ s.frames[k].data = dk[s.cwd][s.frames[k].name][s.frames[k].page]
    <3> DEFINE f == s.frames[k]
    <3>1. FrameRight(f, s.disk, s.cwd, D)
      BY <1>1 DEF FramesRight
    <3>2. s.cwd # Root /\ Present(s.disk, s.cwd, f.name) /\ f.data = s.disk[s.cwd][f.name][f.page]
      BY <2>1, <3>1 DEF FrameRight
    <3>3. f.name \in FileNames
      <4>1. f \in Frames
        BY <1>1 DEF Sessions
      <4> QED BY <4>1, <3>1 DEF Frames, FrameRight
    <3>4. dk[s.cwd][f.name] = s.disk[s.cwd][f.name]
      <4>1. CASE n = DatabaseList
        BY <4>1, <1>1, <1>3, <3>2 DEF Home
      <4>2. CASE n # DatabaseList
        BY <4>2, <1>3, <3>3 DEF Home, NoFrames
      <4> QED BY <4>1, <4>2
    <3> HIDE DEF f
    <3>5. Present(dk, s.cwd, f.name)
      BY <1>9, <3>2, <3>3
    <3> QED BY <3>2, <3>4, <3>5 DEF f
  <2> QED BY <2>1, <1>1 DEF FramesRight, FrameRight
<1>13. Sound(r, D)
  BY <1>1, <1>5, <1>6, <1>7, <1>10, <1>11, <1>12 DEF Sound
<1>14. ButDisk(r, s)
  BY <1>4 DEF ButDisk
<1> QED BY <1>6, <1>13, <1>14 DEF r, dk

\* A page of an open file that has no more frames.
LEMMA WritePageSound ==
  ASSUME NEW D, NEW s, NEW n, NEW p, CanGet(s, D, n, p), NEW v \in Content,
         n = DatabaseList => NamesRight(ListIn(v), Dbs, MaxDatabases),
         n # DatabaseList => NoFrames(s.frames, n)
  PROVE  LET x  == [s.disk[Home(s.cwd, n)][n] EXCEPT ![p] = v]
             dk == Put(s.disk, Home(s.cwd, n), n, x)
             r  == WritePage(s, s.open[n].id, p, v)
         IN  /\ Sound(r, D) /\ ButDisk(r, s) /\ r.disk = dk /\ r.passed = s.passed \cup {dk}
             /\ x \in File /\ x[p] = v /\ \A q \in Page \ {p} : x[q] = s.disk[Home(s.cwd, n)][n][q]
<1> DEFINE h == Home(s.cwd, n)
           x == [s.disk[h][n] EXCEPT ![p] = v]
           dk == Put(s.disk, h, n, x)
           r == WritePage(s, s.open[n].id, p, v)
           names == {m \in FileNames : s.open[m] # None /\ s.open[m].id = s.open[n].id}
<1>1. /\ Sound(s, D) /\ n \in FileNames \ FilesOf(D) /\ s.open[n] # None
      /\ p \in Page /\ IF n = DatabaseList THEN p = 0 ELSE s.cwd # Root
  BY DEF CanGet
<1>2. OpensRight(s.open, s.disk, s.cwd, D) /\ IdsApart(s.open)
  BY ONLY <1>1, SoundParts
<1>3. names = {n}
  BY <1>1, <1>2 DEF IdsApart
<1>4. s.open[n].at = h /\ s.open[n].gone = None
  BY <1>1, <1>2 DEF OpensRight
<1>5. r = OnDisk(s, [s.disk EXCEPT ![h][n][p] = v])
  <2>1. (CHOOSE m \in names : TRUE) = n /\ names # {}
    BY <1>3
  <2> QED BY <2>1, <1>4 DEF WritePage
<1>6. r = OnDisk(s, dk)
  <2>1. [s.disk EXCEPT ![h][n][p] = v] = dk
    BY DEF Put
  <2> QED BY <2>1, <1>5
<1>7. s.disk[h][n] \in File
  BY ONLY CanGet(s, D, n, p), PageRead
<1>8. x \in File /\ x[p] = v /\ \A q \in Page \ {p} : x[q] = s.disk[h][n][q]
  BY <1>1, <1>7 DEF File
<1>9. n = DatabaseList => NamesRight(ListIn(x[0]), Dbs, MaxDatabases)
  BY <1>1, <1>8
<1> HIDE DEF x, r
<1>10. Sound(r, D) /\ ButDisk(r, s) /\ r.disk = dk /\ r.passed = s.passed \cup {dk}
  BY <1>1, <1>6, <1>8, <1>9, FileWritten
<1> QED BY <1>8, <1>10 DEF x, r, dk, h

\* getPage, a change, markDirty and writeBack.
LEMMA StoredSound ==
  ASSUME NEW D, NEW s, NEW n, NEW p, CanGet(s, D, n, p), NEW v \in Content,
         n = DatabaseList => NamesRight(ListIn(v), Dbs, MaxDatabases),
         n # DatabaseList => \A k \in DOMAIN s.frames : s.frames[k].name = n => k = FrameOf(s, n, p)
  PROVE  LET x  == [s.disk[Home(s.cwd, n)][n] EXCEPT ![p] = v]
             dk == Put(s.disk, Home(s.cwd, n), n, x)
             w  == Stored(s, n, p, v)
         IN  /\ Sound(w, D)
             /\ w.cwd = s.cwd /\ w.open = s.open /\ w.done = s.done
             /\ w.disk = dk /\ w.passed = s.passed \cup {dk}
             /\ \A m : NoFrames(s.frames, m) => NoFrames(w.frames, m)
             /\ NoFrames(s.frames, n) => w.frames = s.frames
             /\ n # DatabaseList => NoFrames(w.frames, n)
             /\ x \in File /\ x[p] = v /\ \A q \in Page \ {p} : x[q] = s.disk[Home(s.cwd, n)][n][q]
<1> DEFINE g == GetPage(s, n, p)
           r == Release(g, n, p)
           w == Stored(s, n, p, v)
<1>1. /\ Sound(s, D) /\ n \in FileNames \ FilesOf(D) /\ s.open[n] # None
      /\ p \in Page /\ IF n = DatabaseList THEN p = 0 ELSE s.cwd # Root
  BY DEF CanGet
<1>2. /\ Sound(r, D) /\ ButFrames(r, s)
      /\ \A m : NoFrames(s.frames, m) => NoFrames(r.frames, m)
      /\ NoFrames(s.frames, n) => r.frames = s.frames
      /\ (\A k \in DOMAIN s.frames : s.frames[k].name = n => k = FrameOf(s, n, p))
           => NoFrames(r.frames, n)
  BY ONLY CanGet(s, D, n, p), ReleaseSound
<1>3. g.open = s.open
  <2> HIDE DEF g
  <2>1. ButFrames(g, s)
    BY ONLY CanGet(s, D, n, p), GetPageSound DEF g
  <2> QED BY <2>1 DEF ButFrames
<1>4. w = WritePage(r, r.open[n].id, p, v)
  BY <1>2, <1>3 DEF Stored, ButFrames
<1> HIDE DEF r, g, w
<1>5. CanGet(r, D, n, p)
  BY <1>1, <1>2 DEF CanGet, ButFrames
<1>6. n # DatabaseList => NoFrames(r.frames, n)
  BY <1>2
<1> DEFINE x == [r.disk[Home(r.cwd, n)][n] EXCEPT ![p] = v]
           dk == Put(r.disk, Home(r.cwd, n), n, x)
<1>7. /\ Sound(w, D) /\ ButDisk(w, r) /\ w.disk = dk /\ w.passed = r.passed \cup {dk}
      /\ x \in File /\ x[p] = v /\ \A q \in Page \ {p} : x[q] = r.disk[Home(r.cwd, n)][n][q]
  BY ONLY <1>4, <1>5, <1>6, v \in Content, WritePageSound,
          n = DatabaseList => NamesRight(ListIn(v), Dbs, MaxDatabases)
<1>8. r.disk = s.disk /\ r.cwd = s.cwd /\ r.passed = s.passed /\ r.open = s.open /\ r.done = s.done
  BY <1>2 DEF ButFrames
<1>9. w.frames = r.frames /\ w.cwd = r.cwd /\ w.open = r.open /\ w.done = r.done
  BY <1>7 DEF ButDisk
<1> QED BY <1>2, <1>6, <1>7, <1>8, <1>9 DEF w

LEMMA NewFileRight ==
  NewFile \in File /\ NewFile[0] = ZeroPage /\ NamesRight(ListIn(NewFile[0]), Dbs, MaxDatabases)
<1>1. 0 \in Page
  BY SessionAssumption DEF Page
<1>2. NewFile \in File /\ NewFile[0] = ZeroPage
  BY <1>1 DEF NewFile, File, Content
<1>3. ListIn(ZeroPage) = << >>
  BY DEF ListIn, ZeroPage
<1>4. \A S : NamesRight(<< >>, S, MaxDatabases)
  <2>1. \A S : << >> \in Seq(S)
    OBVIOUS
  <2>2. Len(<< >>) = 0 /\ DOMAIN << >> = {}
    OBVIOUS
  <2> QED BY <2>1, <2>2, SystemAssumption DEF NamesRight, WellFormed, IsInjective
<1> QED BY <1>2, <1>3, <1>4

LEMMA CreateFileSound ==
  ASSUME NEW D, NEW s, Sound(s, D), NEW n \in FileNames,
         IF n = DatabaseList THEN s.cwd = Root ELSE s.cwd # Root /\ NoFrames(s.frames, n)
  PROVE  LET dk == Put(s.disk, s.cwd, n, NewFile)
             r  == CreateFile(s, n)
         IN  Sound(r, D) /\ ButDisk(r, s) /\ r.disk = dk /\ r.passed = s.passed \cup {dk}
<1> DEFINE dk == Put(s.disk, s.cwd, n, NewFile)
           r == CreateFile(s, n)
<1>1. Home(s.cwd, n) = s.cwd
  BY DEF Home
<1>2. r = OnDisk(s, dk)
  <2>1. [s.disk EXCEPT ![s.cwd][n] = NewFile] = dk
    BY DEF Put
  <2> QED BY <2>1 DEF CreateFile
<1> HIDE DEF r
<1>3. Sound(r, D) /\ ButDisk(r, s) /\ r.disk = dk /\ r.passed = s.passed \cup {dk}
  BY <1>1, <1>2, NewFileRight, FileWritten
<1> QED BY <1>3 DEF r

\* A file of a table that has been dropped.
LEMMA DeleteFileSound ==
  ASSUME NEW D, NEW s, Sound(s, D), NEW n \in FileNames \cap FilesOf(D), s.cwd # Root
  PROVE  LET dk == Put(s.disk, s.cwd, n, None)
             r  == DeleteFile(s, n)
         IN  /\ Sound(r, D) /\ r.cwd = s.cwd /\ r.frames = s.frames /\ r.done = s.done
             /\ r.disk = dk /\ r.passed = s.passed \cup {dk}
             /\ \A m \in FileNames \ {n} : r.open[m] = s.open[m]
             /\ s.open[n] = None => r.open[n] = None
             /\ s.open[n] # None => r.open[n] # None /\ r.open[n].id = s.open[n].id
<1> DEFINE dk == Put(s.disk, s.cwd, n, None)
           r == DeleteFile(s, n)
           o == Unlinked(s.open[n], n, s.disk, s.cwd)
           op == [s.open EXCEPT ![n] = o]
<1>1. /\ s \in Sessions /\ s.disk \in s.passed /\ s.disk[s.cwd] # None /\ DatabasesRight(s.disk)
      /\ OpensRight(s.open, s.disk, s.cwd, D) /\ IdsApart(s.open)
      /\ FramesRight(s.frames, s.disk, s.cwd, D)
      /\ s.cwd \in Dbs \cup {Root} /\ s.disk \in Disk /\ s.passed \subseteq Disk
      /\ s.open \in [FileNames -> OpenFiles \cup {None}] /\ s.frames \in Seq(Frames)
      /\ s = [cwd |-> s.cwd, disk |-> s.disk, open |-> s.open, frames |-> s.frames,
              passed |-> s.passed, done |-> s.done]
  BY ONLY Sound(s, D), SoundParts
<1>2. /\ dk \in Disk /\ dk[s.cwd] # None
      /\ \A m \in FileNames \ {n} : dk[s.cwd][m] = s.disk[s.cwd][m]
      /\ \A e \in (Dbs \cup {Root}) \ {s.cwd} : dk[e] = s.disk[e]
  BY <1>1, PutParts
<1>3. r = [cwd |-> s.cwd, disk |-> dk, open |-> op, frames |-> s.frames,
           passed |-> s.passed \cup {dk}, done |-> s.done]
  <2>1. [s.disk EXCEPT ![s.cwd][n] = None] = dk
    BY DEF Put
  <2>2. r = [OnDisk(s, dk) EXCEPT !.open[n] = Unlinked(@, n, s.disk, s.cwd)]
    BY <2>1 DEF DeleteFile
  <2>3. OnDisk(s, dk) = [cwd |-> s.cwd, disk |-> dk, open |-> s.open, frames |-> s.frames,
                         passed |-> s.passed \cup {dk}, done |-> s.done]
    BY <1>1, OnDiskParts
  <2> HIDE DEF dk, r
  <2> QED BY <2>2, <2>3
<1> HIDE DEF dk, r
<1>4. /\ o \in OpenFiles \cup {None}
      /\ s.open[n] = None => o = None
      /\ s.open[n] # None => o # None /\ o.id = s.open[n].id
  <2>1. CASE s.open[n] = None
    BY <2>1 DEF Unlinked
  <2>2. CASE s.open[n] # None
    <3>1. s.open[n] \in OpenFiles
      BY <2>2, <1>1
    <3>2. s.disk[s.cwd][n] \in File \cup {None}
      BY <1>1 DEF Disk, Directory
    <3>3. [s.open[n] EXCEPT !.gone = s.disk[s.cwd][n]] \in OpenFiles
      BY <3>1, <3>2 DEF OpenFiles
    <3>4. [s.open[n] EXCEPT !.gone = s.disk[s.cwd][n]].id = s.open[n].id
      BY <3>1 DEF OpenFiles
    <3> QED BY <2>2, <3>1, <3>3, <3>4, NoneAssumption DEF Unlinked
  <2> QED BY <2>1, <2>2
<1> HIDE DEF o
<1>5. /\ op \in [FileNames -> OpenFiles \cup {None}] /\ op[n] = o
      /\ \A m \in FileNames \ {n} : op[m] = s.open[m]
  BY <1>1, <1>4
<1> HIDE DEF op
<1>6. r \in Sessions
  BY <1>1, <1>2, <1>3, <1>5 DEF Sessions
<1>7. /\ r.cwd = s.cwd /\ r.disk = dk /\ r.open = op /\ r.frames = s.frames
      /\ r.passed = s.passed \cup {dk} /\ r.done = s.done
  BY <1>3
<1>8. \A m \in FileNames : m \notin FilesOf(D) /\ Present(s.disk, s.cwd, m) => Present(dk, s.cwd, m)
  BY <1>1, <1>2 DEF Present, Home
<1>9. OpensRight(op, dk, s.cwd, D)
  BY <1>1, <1>5, <1>8 DEF OpensRight
<1>10. IdsApart(op)
  <2>1. \A m \in FileNames : op[m] # None => s.open[m] # None /\ op[m].id = s.open[m].id
    BY <1>4, <1>5
  <2>2. Ids(op) \subseteq Ids(s.open)
    BY <2>1 DEF Ids
  <2>3. IsFiniteSet(Ids(op))
    BY <2>2, <1>1, FS_Subset DEF IdsApart
  <2> QED BY <2>1, <2>3, <1>1 DEF IdsApart
<1>11. DatabasesRight(dk)
  BY <1>1, <1>2 DEF DatabasesRight
<1>12. FramesRight(s.frames, dk, s.cwd, D)
  <2>1. ASSUME NEW k \in DOMAIN s.frames PROVE FrameRight(s.frames[k], dk, s.cwd, D)
    <3> DEFINE f == s.frames[k]
    <3>1. FrameRight(f, s.disk, s.cwd, D) /\ f \in Frames
      BY <1>1 DEF FramesRight
    <3>2. f.name \in FileNames
      BY <3>1 DEF Frames, FrameRight
    <3> HIDE DEF f
    <3>3. f.name \notin FilesOf(D) \cup {DatabaseList} =>
            Present(dk, s.cwd, f.name) /\ dk[s.cwd][f.name] = s.disk[s.cwd][f.name]
      BY <3>1, <3>2, <1>2, <1>8 DEF FrameRight
    <3> QED BY <3>1, <3>3 DEF FrameRight, f
  <2> QED BY <2>1 DEF FramesRight
<1>13. Sound(r, D)
  BY <1>2, <1>6, <1>7, <1>9, <1>10, <1>11, <1>12 DEF Sound
<1> QED BY <1>4, <1>5, <1>7, <1>13 DEF r, dk

-----------------------------------------------------------------------------
(* The list of tables.  It is opened under the lowest id that the other     *)
(* open files leave, and no other file is closed while it is open.          *)

OtherIds(op) == {op[n].id : n \in {m \in FileNames \ {TableList} : op[m] # None}}
ListId(op)   == Low(OtherIds(op))

ListLow(op) == op[TableList] # None => op[TableList].id = ListId(op)

\* A frame of the list is the first with its key.
FirstOf(fr, k, id) ==
  /\ fr[k].id = id /\ fr[k].page = 0
  /\ \A j \in 1 .. (k - 1) : ~(fr[j].id = id /\ fr[j].page = 0)

Sole(op, fr) ==
  /\ ListLow(op)
  /\ \A k \in DOMAIN fr : fr[k].name = TableList => FirstOf(fr, k, ListId(op))

LEMMA OtherIdsParts ==
  ASSUME NEW D, NEW s, Sound(s, D)
  PROVE  /\ OtherIds(s.open) \subseteq Nat /\ IsFiniteSet(OtherIds(s.open))
         /\ s.open[TableList] = None => OtherIds(s.open) = UsedIds(s) /\ ListId(s.open) = FreeId(s)
         /\ s.open[TableList] # None =>
              /\ s.open[TableList].id \in Nat
              /\ UsedIds(s) = OtherIds(s.open) \cup {s.open[TableList].id}
         /\ IsFiniteSet(UsedIds(s)) /\ UsedIds(s) \subseteq Nat
<1>1. s \in Sessions /\ IdsApart(s.open)
  BY SoundParts
<1>2. UsedIds(s) \subseteq Nat /\ \A n \in FileNames : s.open[n] # None => s.open[n].id \in Nat
  BY <1>1, OpenIds
<1>3. UsedIds(s) = Ids(s.open)
  BY DEF UsedIds, Ids
<1>4. IsFiniteSet(UsedIds(s))
  BY <1>1, <1>3 DEF IdsApart
<1>5. OtherIds(s.open) \subseteq UsedIds(s)
  BY DEF OtherIds, UsedIds
<1>6. IsFiniteSet(OtherIds(s.open))
  BY <1>4, <1>5, FS_Subset
<1>7. s.open[TableList] = None => OtherIds(s.open) = UsedIds(s)
  BY DEF OtherIds, UsedIds
<1>8. FreeId(s) = Low(UsedIds(s))
  BY <1>2, <1>4, FreeIdIsLowest
<1>9. s.open[TableList] # None => UsedIds(s) = OtherIds(s.open) \cup {s.open[TableList].id}
  BY NamesDiffer DEF OtherIds, UsedIds
<1> QED BY <1>2, <1>4, <1>5, <1>6, <1>7, <1>8, <1>9, NamesDiffer DEF ListId

\* The list is opened or closed.
LEMMA ListOpened ==
  ASSUME NEW D, NEW s, Sound(s, D), Sole(s.open, s.frames), Opens(s, TableList), s.cwd # Root
  PROVE  LET a == OpenFile(s, TableList)
         IN  /\ CanGet(a, D, TableList, 0) /\ ButOpen(a, s) /\ Sole(a.open, a.frames)
             /\ \A m \in FileNames \ {TableList} : a.open[m] = s.open[m]
             /\ s.open[TableList] # None => a = s
             /\ \A k \in DOMAIN a.frames : a.frames[k].name = TableList => k = FrameOf(a, TableList, 0)
<1> DEFINE a == OpenFile(s, TableList)
<1>1. TableList \in FileNames \ FilesOf(D) /\ TableList # DatabaseList
  BY NamesDiffer
<1>2. /\ Sound(a, D) /\ ButOpen(a, s)
      /\ \A m \in FileNames \ {TableList} : a.open[m] = s.open[m]
      /\ s.open[TableList] # None => a = s
      /\ s.open[TableList] = None =>
           a.open = [s.open EXCEPT ![TableList] = [id |-> FreeId(s), at |-> s.cwd, gone |-> None]]
      /\ a.open[TableList] # None
  BY <1>1, OpenFileSound
<1>3. s.open \in [FileNames -> OpenFiles \cup {None}] /\ a.frames \in Seq(Frames)
  <2> HIDE DEF a
  <2>1. a.frames \in Seq(Frames)
    BY ONLY <1>2, SoundParts
  <2>2. s.open \in [FileNames -> OpenFiles \cup {None}]
    BY ONLY Sound(s, D), SoundParts
  <2> QED BY <2>1, <2>2
<1>4. s.open[TableList] = None => a.open[TableList].id = ListId(s.open)
  BY <1>1, <1>2, <1>3, OtherIdsParts
<1> HIDE DEF a
<1>5. OtherIds(a.open) = OtherIds(s.open)
  BY <1>2 DEF OtherIds
<1>6. ListId(a.open) = ListId(s.open) /\ a.frames = s.frames /\ a.cwd = s.cwd
  BY <1>2, <1>5 DEF ListId, ButOpen
<1>7. ListLow(a.open)
  BY <1>2, <1>4, <1>6 DEF ListLow, Sole
<1>8. Sole(a.open, a.frames)
  BY <1>6, <1>7 DEF Sole
<1>9. 0 \in Page
  BY SessionAssumption DEF Page
<1>10. CanGet(a, D, TableList, 0)
  BY <1>1, <1>2, <1>6, <1>9 DEF CanGet
<1>11. ASSUME NEW k \in DOMAIN a.frames, a.frames[k].name = TableList
       PROVE  k = FrameOf(a, TableList, 0)
  <2> DEFINE j == FrameOf(a, TableList, 0)
  <2>1. k \in 1 .. Len(a.frames) /\ Len(a.frames) \in Nat
    BY <1>3
  <2>2. FirstOf(a.frames, k, ListId(a.open))
    BY <1>8, <1>11 DEF Sole
  <2>3. a.open[TableList].id = ListId(a.open)
    BY <1>2, <1>7 DEF ListLow
  <2>4. /\ j \in 0 .. Len(a.frames)
        /\ j # 0 => a.frames[j].id = a.open[TableList].id /\ a.frames[j].page = 0
        /\ \A i \in 1 .. Len(a.frames) :
             a.frames[i].id = a.open[TableList].id /\ a.frames[i].page = 0 => j # 0 /\ j <= i
    BY <1>3, FrameFound
  <2> HIDE DEF j
  <2>5. j # 0 /\ j <= k
    BY <2>1, <2>2, <2>3, <2>4 DEF FirstOf
  <2>6. ~ (j \in 1 .. (k - 1))
    BY <2>2, <2>3, <2>4, <2>5 DEF FirstOf
  <2>7. j = k
    BY <2>1, <2>4, <2>5, <2>6
  <2> QED BY <2>7 DEF j
<1> QED BY <1>2, <1>8, <1>10, <1>11 DEF a

\* Once the list is closed, nothing is asked of its id.
LEMMA ListClosed ==
  ASSUME NEW op \in [FileNames -> OpenFiles \cup {None}], NEW fr, Sole(op, fr)
  PROVE  Sole([op EXCEPT ![TableList] = None], fr)
<1> DEFINE c == [op EXCEPT ![TableList] = None]
<1>1. c[TableList] = None /\ \A m \in FileNames \ {TableList} : c[m] = op[m]
  BY NamesDiffer
<1> HIDE DEF c
<1>2. OtherIds(c) = OtherIds(op)
  BY <1>1 DEF OtherIds
<1>3. Sole(c, fr)
  BY <1>1, <1>2 DEF Sole, ListLow, ListId
<1> QED BY <1>3 DEF c

\* Another file is opened.
LEMMA OtherOpened ==
  ASSUME NEW D, NEW s, Sound(s, D), ListLow(s.open),
         NEW n \in FileNames \ FilesOf(D), n \notin {TableList, DatabaseList}
  PROVE  ListLow(OpenFile(s, n).open)
<1> DEFINE a == OpenFile(s, n)
<1>1. /\ \A m \in FileNames \ {n} : a.open[m] = s.open[m]
      /\ s.open[n] # None \/ ~Opens(s, n) => a = s
      /\ s.open[n] = None /\ Opens(s, n) =>
           a.open = [s.open EXCEPT ![n] = [id |-> FreeId(s), at |-> s.cwd, gone |-> None]]
      /\ Opens(s, n) => a.open[n] # None
      /\ Sound(a, D)
  BY OpenFileSound
<1>2. s.open \in [FileNames -> OpenFiles \cup {None}] /\ TableList \in FileNames
  BY SoundParts, NamesDiffer
<1>3. CASE s.open[n] # None \/ ~Opens(s, n)
  BY <1>1, <1>3
<1>4. CASE s.open[n] = None /\ Opens(s, n)
  <2>1. a.open[n].id = FreeId(s) /\ a.open[TableList] = s.open[TableList] /\ a.open[n] # None
    BY <1>1, <1>2, <1>4
  <2> HIDE DEF a
  <2>2. SUFFICES ASSUME s.open[TableList] # None
                 PROVE  s.open[TableList].id = ListId(a.open)
    BY <2>1 DEF ListLow, a
  <2>3. s.open[TableList].id = Low(OtherIds(s.open))
    BY <2>2 DEF ListLow, ListId
  <2>4. /\ UsedIds(s) = OtherIds(s.open) \cup {s.open[TableList].id}
        /\ IsFiniteSet(UsedIds(s)) /\ UsedIds(s) \subseteq Nat
        /\ OtherIds(s.open) \subseteq Nat /\ IsFiniteSet(OtherIds(s.open))
    BY <2>2, OtherIdsParts
  <2>5. FreeId(s) \in Nat /\ FreeId(s) \notin UsedIds(s)
    BY <2>4, FreeIdIsLowest
  <2>6. OtherIds(a.open) = OtherIds(s.open) \cup {FreeId(s)}
    BY <1>1, <1>4, <2>1 DEF OtherIds
  <2>7. IsFiniteSet(OtherIds(a.open))
    BY <2>4, <2>6, FS_AddElement
  <2>8. Low(OtherIds(s.open)) \notin OtherIds(s.open)
    BY <2>4, LowIsLowest
  <2>9. Low(OtherIds(a.open)) = Low(OtherIds(s.open))
    BY <2>3, <2>4, <2>5, <2>6, <2>7, <2>8, LowStays
  <2> QED BY <2>3, <2>9 DEF ListId
<1> QED BY <1>3, <1>4

\* The list as it is on disk.
ListOn(dk, d) == ListIn(dk[d][TableList][0])

LEMMA ListRead ==
  ASSUME NEW D, NEW s, Sound(s, D), Sole(s.open, s.frames), Opens(s, TableList), s.cwd # Root
  PROVE  LET a == OpenFile(s, TableList)
             g == GetPage(a, TableList, 0)
         IN  /\ ListSeen(a, TableList) = ListOn(s.disk, s.cwd)
             /\ Sound(g, D) /\ Sole(g.open, g.frames) /\ HasList(s.disk, s.cwd)
             /\ g.cwd = s.cwd /\ g.disk = s.disk /\ g.passed = s.passed /\ g.done = s.done
             /\ \A m \in FileNames \ {TableList} : g.open[m] = s.open[m]
             /\ g.open[TableList] # None
             /\ \A m : m # TableList /\ NoFrames(s.frames, m) => NoFrames(g.frames, m)
<1> DEFINE a == OpenFile(s, TableList)
           g == GetPage(a, TableList, 0)
           k == FrameOf(g, TableList, 0)
<1>1. /\ CanGet(a, D, TableList, 0) /\ ButOpen(a, s) /\ Sole(a.open, a.frames)
      /\ \A m \in FileNames \ {TableList} : a.open[m] = s.open[m]
      /\ \A i \in DOMAIN a.frames : a.frames[i].name = TableList => i = FrameOf(a, TableList, 0)
  BY ListOpened
<1> HIDE DEF a
<1>2. /\ Sound(g, D) /\ ButFrames(g, a)
      /\ k \in 1 .. Len(g.frames) /\ g.frames[k].name = TableList
      /\ TableList # DatabaseList => Seen(a, TableList, 0) = a.disk[a.cwd][TableList][0]
      /\ \/ g.frames = a.frames /\ k = FrameOf(a, TableList, 0)
         \/ /\ k = 1 /\ ~(FrameOf(a, TableList, 0) # 0 /\ a.frames[FrameOf(a, TableList, 0)].name = TableList)
            /\ \E f \in Frames : f.name = TableList /\ g.frames = Cons(f, a.frames)
  BY ONLY <1>1, GetPageSound
<1>3. /\ g.frames \in Seq(Frames) /\ a.frames \in Seq(Frames)
      /\ k # 0 => g.frames[k].id = g.open[TableList].id /\ g.frames[k].page = 0
  <2> HIDE DEF g
  <2>1. g.frames \in Seq(Frames)
    BY ONLY <1>2, SoundParts
  <2>2. a.frames \in Seq(Frames)
    BY ONLY <1>1, SoundParts DEF CanGet
  <2> QED BY <2>1, <2>2, FrameFound
<1> HIDE DEF g, k
<1>4. /\ g.cwd = s.cwd /\ g.disk = s.disk /\ g.passed = s.passed /\ g.done = s.done /\ g.open = a.open
      /\ a.cwd = s.cwd /\ a.disk = s.disk /\ a.frames = s.frames
      /\ g.open[TableList] # None
  BY <1>1, <1>2 DEF ButOpen, ButFrames, CanGet
<1>5. ListSeen(a, TableList) = ListOn(s.disk, s.cwd)
  BY <1>2, <1>4, NamesDiffer DEF ListSeen, ListOn
<1>6. HasList(s.disk, s.cwd)
  <2>1. Present(a.disk, a.cwd, TableList)
    BY ONLY <1>1, PageRead
  <2> QED BY <2>1, <1>4, NamesDiffer DEF Present, Home, HasList
<1>7. CASE g.frames = a.frames
  BY <1>1, <1>2, <1>4, <1>5, <1>6, <1>7 DEF a, g
<1>8. CASE /\ k = 1 /\ ~(FrameOf(a, TableList, 0) # 0 /\ a.frames[FrameOf(a, TableList, 0)].name = TableList)
           /\ \E f \in Frames : f.name = TableList /\ g.frames = Cons(f, a.frames)
  <2>1. PICK f \in Frames : f.name = TableList /\ g.frames = Cons(f, a.frames)
    BY <1>8
  <2>2. NoFrames(a.frames, TableList)
    <3>1. 0 \notin DOMAIN a.frames
      BY <1>3
    <3> QED BY <3>1, <1>1, <1>8 DEF NoFrames
  <2>3. /\ Cons(f, a.frames)[1] = f
        /\ \A i \in DOMAIN Cons(f, a.frames) :
             i # 1 => i - 1 \in DOMAIN a.frames /\ Cons(f, a.frames)[i] = a.frames[i - 1]
    BY <1>3, FramePut
  <2>4. \A i \in DOMAIN g.frames : g.frames[i].name = TableList => i = 1
    BY <2>1, <2>2, <2>3 DEF NoFrames
  <2>5. g.open[TableList].id = ListId(g.open)
    BY <1>1, <1>4 DEF Sole, ListLow
  <2>6. FirstOf(g.frames, 1, ListId(g.open))
    BY <1>3, <1>8, <2>5 DEF FirstOf
  <2>7. Sole(g.open, g.frames)
    BY <1>1, <1>4, <2>4, <2>6 DEF Sole
  <2>8. \A m : m # TableList /\ NoFrames(s.frames, m) => NoFrames(g.frames, m)
    BY <1>4, <2>1, <2>3 DEF NoFrames
  <2> QED BY <1>1, <1>2, <1>4, <1>5, <1>6, <2>7, <2>8 DEF a, g
<1> QED BY <1>2, <1>7, <1>8

\* A list that is given back or written has no frame.
LEMMA TableExistSound ==
  ASSUME NEW D, NEW s, Sound(s, D), Sole(s.open, s.frames), Opens(s, TableList), s.cwd # Root, NEW t
  PROVE  LET r == TableExist(s, t)
         IN  /\ Sound(r, D) /\ NoFrames(r.frames, TableList)
             /\ r.cwd = s.cwd /\ r.disk = s.disk /\ r.passed = s.passed /\ r.done = s.done
             /\ r.open[TableList] = None
             /\ \A m \in FileNames \ {TableList} : r.open[m] = s.open[m]
             /\ \A m : NoFrames(s.frames, m) => NoFrames(r.frames, m)
<1> DEFINE a == OpenFile(s, TableList)
           q == Release(GetPage(a, TableList, 0), TableList, 0)
           r == TableExist(s, t)
<1>1. /\ CanGet(a, D, TableList, 0) /\ ButOpen(a, s) /\ Sole(a.open, a.frames)
      /\ \A m \in FileNames \ {TableList} : a.open[m] = s.open[m]
      /\ \A i \in DOMAIN a.frames : a.frames[i].name = TableList => i = FrameOf(a, TableList, 0)
  BY ListOpened
<1>2. r = CloseFile(q, TableList)
  BY DEF TableExist
<1> HIDE DEF a, r
<1>3. /\ Sound(q, D) /\ ButFrames(q, a) /\ NoFrames(q.frames, TableList)
      /\ \A m : NoFrames(a.frames, m) => NoFrames(q.frames, m)
  BY ONLY <1>1, ReleaseSound
<1> HIDE DEF q
<1>4. Sound(r, D) /\ ButOpen(r, q) /\ r.open = [q.open EXCEPT ![TableList] = None]
  BY <1>2, <1>3, CloseFileSound, NamesDiffer
<1>5. q.open \in [FileNames -> OpenFiles \cup {None}]
  BY ONLY <1>3, SoundParts
<1> QED BY <1>1, <1>3, <1>4, <1>5, NamesDiffer DEF ButOpen, ButFrames, r

LEMMA ListStored ==
  ASSUME NEW D, NEW s, Sound(s, D), Sole(s.open, s.frames), Opens(s, TableList), s.cwd # Root,
         NEW v \in Content
  PROVE  LET x  == [s.disk[s.cwd][TableList] EXCEPT ![0] = v]
             dk == Put(s.disk, s.cwd, TableList, x)
             b  == CloseFile(Stored(OpenFile(s, TableList), TableList, 0, v), TableList)
         IN  /\ Sound(b, D) /\ NoFrames(b.frames, TableList)
             /\ b.cwd = s.cwd /\ b.disk = dk /\ b.passed = s.passed \cup {dk} /\ b.done = s.done
             /\ b.open[TableList] = None
             /\ \A m \in FileNames \ {TableList} : b.open[m] = s.open[m]
             /\ \A m : NoFrames(s.frames, m) => NoFrames(b.frames, m)
             /\ x \in File /\ x[0] = v
<1> DEFINE a == OpenFile(s, TableList)
           w == Stored(a, TableList, 0, v)
           b == CloseFile(w, TableList)
           x == [s.disk[s.cwd][TableList] EXCEPT ![0] = v]
           dk == Put(s.disk, s.cwd, TableList, x)
<1>1. /\ CanGet(a, D, TableList, 0) /\ ButOpen(a, s) /\ Sole(a.open, a.frames)
      /\ \A m \in FileNames \ {TableList} : a.open[m] = s.open[m]
      /\ \A i \in DOMAIN a.frames : a.frames[i].name = TableList => i = FrameOf(a, TableList, 0)
  BY ListOpened
<1>2. TableList # DatabaseList /\ TableList \in FileNames
  BY NamesDiffer
<1> HIDE DEF a
<1> DEFINE h == Home(a.cwd, TableList)
           y == [a.disk[h][TableList] EXCEPT ![0] = v]
           ek == Put(a.disk, h, TableList, y)
<1>3. /\ Sound(w, D)
      /\ w.cwd = a.cwd /\ w.open = a.open /\ w.done = a.done
      /\ \A m : NoFrames(a.frames, m) => NoFrames(w.frames, m)
      /\ NoFrames(w.frames, TableList)
      /\ w.disk = ek /\ w.passed = a.passed \cup {ek} /\ y \in File /\ y[0] = v
  BY ONLY <1>1, <1>2, v \in Content, StoredSound
<1>4. a.cwd = s.cwd /\ a.disk = s.disk /\ a.passed = s.passed /\ a.done = s.done /\ a.frames = s.frames
      /\ Home(a.cwd, TableList) = s.cwd
  BY <1>1, <1>2 DEF ButOpen, Home
<1>5. w.disk = dk /\ w.passed = s.passed \cup {dk} /\ x \in File /\ x[0] = v
  <2>1. y = x /\ ek = dk
    BY <1>4
  <2> HIDE DEF w, x, dk, y, ek, h
  <2> QED BY <2>1, <1>3, <1>4
<1> HIDE DEF w, x, dk
<1>6. Sound(b, D) /\ ButOpen(b, w) /\ b.open = [w.open EXCEPT ![TableList] = None]
  BY <1>3, CloseFileSound, NamesDiffer
<1>7. w.open \in [FileNames -> OpenFiles \cup {None}]
  BY ONLY <1>3, SoundParts
<1> HIDE DEF b
<1>8. /\ b.open[TableList] = None /\ \A m \in FileNames \ {TableList} : b.open[m] = s.open[m]
      /\ b.frames = w.frames /\ b.cwd = w.cwd /\ b.disk = w.disk /\ b.passed = w.passed /\ b.done = w.done
  BY <1>1, <1>2, <1>3, <1>6, <1>7 DEF ButOpen
<1> QED BY <1>3, <1>4, <1>5, <1>6, <1>8 DEF b, w, a, x, dk

-----------------------------------------------------------------------------
(* Pages that are read, one after another.                                  *)

LEMMA GotOthers ==
  ASSUME NEW D, NEW s, NEW n, NEW p, CanGet(s, D, n, p)
  PROVE  LET g == GetPage(s, n, p)
         IN  /\ Sound(g, D) /\ ButFrames(g, s)
             /\ \A m : m # n /\ NoFrames(s.frames, m) => NoFrames(g.frames, m)
<1> DEFINE g == GetPage(s, n, p)
           k == FrameOf(g, n, p)
<1>1. /\ Sound(g, D) /\ ButFrames(g, s)
      /\ \/ g.frames = s.frames
         \/ \E f \in Frames : f.name = n /\ g.frames = Cons(f, s.frames)
  BY ONLY CanGet(s, D, n, p), GetPageSound
<1>2. s.frames \in Seq(Frames)
  BY SoundParts DEF CanGet
<1> HIDE DEF g
<1>3. \A m : m # n /\ NoFrames(s.frames, m) => NoFrames(g.frames, m)
  <2>1. CASE g.frames = s.frames
    BY <2>1
  <2>2. CASE \E f \in Frames : f.name = n /\ g.frames = Cons(f, s.frames)
    <3>1. PICK f \in Frames : f.name = n /\ g.frames = Cons(f, s.frames)
      BY <2>2
    <3>2. /\ Cons(f, s.frames)[1] = f
          /\ \A i \in DOMAIN Cons(f, s.frames) :
               i # 1 => i - 1 \in DOMAIN s.frames /\ Cons(f, s.frames)[i] = s.frames[i - 1]
      BY <1>2, FramePut
    <3> QED BY <3>1, <3>2 DEF NoFrames
  <2> QED BY <1>1, <2>1, <2>2
<1> QED BY <1>1, <1>3 DEF g

LEMMA PagesReadSound ==
  ASSUME NEW D, NEW s, Sound(s, D), NEW n \in FileNames \ FilesOf(D), n # DatabaseList,
         s.open[n] # None, s.cwd # Root, NEW k \in Page
  PROVE  LET r == PagesRead(s, n, k)
         IN  /\ Sound(r, D) /\ ButFrames(r, s)
             /\ \A m : m # n /\ NoFrames(s.frames, m) => NoFrames(r.frames, m)
<1> DEFINE P(r) == /\ Sound(r, D) /\ ButFrames(r, s)
                   /\ \A m : m # n /\ NoFrames(s.frames, m) => NoFrames(r.frames, m)
           Good == {r \in Sessions : P(r)}
           G    == [l \in 0 .. k |-> Good]
           step == [l \in 1 .. k |-> [r \in Sessions |-> GetPage(r, n, l)]]
<1>1. k \in Nat /\ \A l \in 0 .. k : l \in Page
  BY SessionAssumption DEF Page
<1>2. s \in Good
  <2>1. ButFrames(s, s)
    BY DEF ButFrames
  <2> QED BY <2>1, SoundParts
<1>3. ASSUME NEW r \in Good, NEW l \in 1 .. k PROVE GetPage(r, n, l) \in Good
  <2> DEFINE g == GetPage(r, n, l)
  <2>1. r \in Sessions /\ P(r)
    OBVIOUS
  <2>2. CanGet(r, D, n, l)
    BY <1>1, <2>1 DEF CanGet, ButFrames
  <2>3. /\ Sound(g, D) /\ ButFrames(g, r)
        /\ \A m : m # n /\ NoFrames(r.frames, m) => NoFrames(g.frames, m)
    BY <2>2, GotOthers
  <2> HIDE DEF g
  <2>4. P(g)
    BY <2>1, <2>3 DEF ButFrames
  <2>5. g \in Sessions
    BY ONLY <2>3, SoundParts
  <2> QED BY <2>4, <2>5 DEF g
<1>4. Good \subseteq Sessions /\ \A r \in Good : P(r)
  OBVIOUS
<1> HIDE DEF Good, P
<1>5. Stays(k, Sessions, G, s, step)
  BY <1>1, <1>2, <1>3, <1>4 DEF Stays
<1>6. \E f \in [0 .. k -> Sessions] :
        \A l \in 0 .. k : f[l] = (IF l = 0 THEN s ELSE step[l][f[l - 1]]) /\ f[l] \in G[l]
  <2> HIDE DEF G, step
  <2> QED BY ONLY <1>5, Stages
<1>7. PICK f \in [0 .. k -> Sessions] :
        \A l \in 0 .. k : f[l] = (IF l = 0 THEN s ELSE step[l][f[l - 1]]) /\ f[l] \in G[l]
  BY <1>6
<1> DEFINE after[i \in 0 .. k] == IF i = 0 THEN s ELSE GetPage(after[i - 1], n, i)
<1>8. after = [i \in 0 .. k |-> IF i = 0 THEN s ELSE GetPage(after[i - 1], n, i)]
  <2>1. f = [i \in 0 .. k |-> IF i = 0 THEN s ELSE GetPage(f[i - 1], n, i)]
    <3>1. ASSUME NEW l \in 0 .. k, l # 0 PROVE step[l][f[l - 1]] = GetPage(f[l - 1], n, l)
      <4>1. l \in 1 .. k /\ l - 1 \in 0 .. k
        BY <1>1, <3>1
      <4> QED BY <4>1
    <3> HIDE DEF step
    <3> QED BY <3>1, <1>7
  <2> QED BY <2>1
<1> HIDE DEF after
<1> DEFINE T == {l \in 0 .. k : after[l] \in Good}
<1>9. \A l \in 0 .. k : l \in T
  <2>1. 0 \in T
    BY <1>1, <1>2, <1>8
  <2>2. ASSUME NEW l \in 1 .. k, l - 1 \in T PROVE l \in T
    BY <1>1, <1>3, <1>8, <2>2
  <2> HIDE DEF T
  <2> QED BY <1>1, <2>1, <2>2, Throughout
<1>10. P(after[k])
  BY <1>1, <1>4, <1>9
<1> QED BY <1>10 DEF PagesRead, after, P

-----------------------------------------------------------------------------
(* What the disk says of the tables that are listed.                        *)

Described(dir, t, decl) ==
  /\ dir[Meta(t)] # None /\ dir[Data(t)] # None
  /\ dir[Meta(t)][0] = InfoOf(decl)
  /\ \A k \in DOMAIN decl.cons : dir[Meta(t)][k] = decl.cons[k]
  /\ dir[Data(t)][0] = RecordHeader(decl)

ListsRight(dk) ==
  \A d \in Dbs : HasList(dk, d) => NamesRight(ListOn(dk, d), Tables, MaxTables)

\* decls is about the databases that are not left behind half dropped: those
\* have a list.
AllDescribed(dk, decls) ==
  \A d \in Dbs :
    /\ d \notin DOMAIN decls => HasList(dk, d)
    /\ d \in DOMAIN decls =>
         \A t \in Listed(dk, d) : decls[d][t] \in Declarations /\ Described(dk[d], t, decls[d][t])

DiskRight(dk, decls) == DatabasesRight(dk) /\ ListsRight(dk) /\ AllDescribed(dk, decls)

\* No file is open and no frame left of a table that is neither listed nor dropped.
Fresh(op, fr, dk, dir, D) ==
  dir # Root => \A t \in Tables \ (Listed(dk, dir) \cup D) :
    \A n \in {Meta(t), Data(t)} : op[n] = None /\ NoFrames(fr, n)

\* In the root directory nothing is open but the list of databases.
Idle(op, dir) == dir = Root => \A n \in FileNames \ {DatabaseList} : op[n] = None

Tame(s, D) ==
  /\ Sound(s, D) /\ Sole(s.open, s.frames)
  /\ Idle(s.open, s.cwd) /\ Fresh(s.open, s.frames, s.disk, s.cwd, D)

\* Between two statements about tables.
Working(s, D, decls) ==
  /\ Tame(s, D) /\ DiskRight(s.disk, decls)
  /\ s.cwd \in Dbs \cap DOMAIN decls /\ D \subseteq Tables /\ D \cap Listed(s.disk, s.cwd) = {}
  /\ s.passed = {s.disk}

LEMMA FreshKept ==
  ASSUME NEW op, NEW fr, NEW dk, NEW dir, NEW D, Fresh(op, fr, dk, dir, D), NEW op2, NEW fr2,
         \A t \in Tables \ (Listed(dk, dir) \cup D) : \A n \in {Meta(t), Data(t)} :
           (op[n] = None => op2[n] = None) /\ (NoFrames(fr, n) => NoFrames(fr2, n))
  PROVE  Fresh(op2, fr2, dk, dir, D)
BY DEF Fresh

LEMMA ListedParts ==
  ASSUME NEW dk, NEW decls, DiskRight(dk, decls), NEW d \in Dbs \cap DOMAIN decls, NEW t \in Listed(dk, d)
  PROVE  /\ HasList(dk, d) /\ t \in Tables /\ t \in ToSet(ListOn(dk, d))
         /\ Meta(t) \in FileNames /\ Data(t) \in FileNames
         /\ decls[d][t] \in Declarations /\ Described(dk[d], t, decls[d][t])
<1>1. HasList(dk, d) /\ t \in ToSet(ListOn(dk, d))
  BY DEF Listed, ListOn
<1>2. ListOn(dk, d) \in Seq(Tables)
  BY <1>1 DEF DiskRight, ListsRight, NamesRight
<1>3. t \in Tables
  BY <1>1, <1>2 DEF ToSet
<1>4. decls[d][t] \in Declarations /\ Described(dk[d], t, decls[d][t])
  BY DEF DiskRight, AllDescribed
<1> QED BY <1>1, <1>3, <1>4 DEF FileNames

\* The files of a table that is neither dropped nor a list.
LEMMA FilesKept ==
  ASSUME NEW D, NEW t \in Tables, t \notin D
  PROVE  /\ Meta(t) \in FileNames \ FilesOf(D) /\ Data(t) \in FileNames \ FilesOf(D)
         /\ Meta(t) \notin {DatabaseList, TableList} /\ Data(t) \notin {DatabaseList, TableList}
         /\ Meta(t) # Data(t)
<1>1. Meta(t) \in FileNames /\ Data(t) \in FileNames
  BY DEF FileNames
<1>2. Meta(t) \notin FilesOf(D) /\ Data(t) \notin FilesOf(D)
  BY NamesDiffer DEF FilesOf
<1> QED BY <1>1, <1>2, NamesDiffer

LEMMA InfoParts ==
  ASSUME NEW decl \in Declarations
  PROVE  /\ InfoIn(InfoOf(decl)) = InfoOf(decl) /\ InfoOf(decl).count = Len(decl.cons)
         /\ InfoOf(decl).indexed = << >> /\ InfoOf(decl) \in Content /\ RecordHeader(decl) \in Content
         /\ decl.cons \in Seq(Constraints) /\ Len(decl.cons) \in Page
         /\ \A k \in DOMAIN decl.cons : k \in Page /\ k # 0 /\ decl.cons[k] \in Content
<1>1. /\ decl.attrs \subseteq Attrs /\ decl.notNull \subseteq Attrs
      /\ decl.cons \in Seq(Constraints) /\ Len(decl.cons) <= MaxCons
  BY CatalogueAssumption
<1>2. Len(decl.cons) \in Page /\ DOMAIN decl.cons = 1 .. Len(decl.cons)
  BY <1>1, SessionAssumption DEF Page
<1>3. \A k \in DOMAIN decl.cons : k \in Page /\ k # 0 /\ decl.cons[k] \in Constraints
  BY <1>1, <1>2, SessionAssumption DEF Page
<1>4. InfoOf(decl) \in Infos
  BY <1>1, <1>2 DEF InfoOf, Infos
<1>5. RecordHeader(decl) \in [kind : {"records"}, size : Nat]
  <2>1. Cardinality(decl.attrs) \in Nat
    BY <1>1, SessionAssumption, FS_Subset, FS_CardinalityType
  <2> QED BY <2>1 DEF RecordHeader
<1>6. InfoIn(InfoOf(decl)) = InfoOf(decl) /\ InfoOf(decl).count = Len(decl.cons)
      /\ InfoOf(decl).indexed = << >>
  BY DEF InfoIn, InfoOf
<1> QED BY <1>1, <1>2, <1>3, <1>4, <1>5, <1>6 DEF Content

\* A table's file is open: what is seen of it, and the search for its key.
MetaOpen(s, D, t, decl) ==
  /\ Sound(s, D) /\ s.cwd # Root /\ t \in Tables \ D /\ s.open[Meta(t)] # None
  /\ decl \in Declarations /\ Described(s.disk[s.cwd], t, decl)

LEMMA MetaSeen ==
  ASSUME NEW D, NEW s, NEW t, NEW decl, MetaOpen(s, D, t, decl)
  PROVE  /\ \A p \in Page : CanGet(s, D, Meta(t), p)
         /\ InfoSeen(s, t) = InfoOf(decl) /\ InfoSeen(s, t).count \in Page
         /\ PrimaryOf(s, t) \in Page
<1>1. /\ Sound(s, D) /\ s.cwd # Root /\ t \in Tables /\ t \notin D /\ s.open[Meta(t)] # None
      /\ decl \in Declarations /\ s.disk[s.cwd][Meta(t)][0] = InfoOf(decl)
  BY DEF MetaOpen, Described
<1>2. Meta(t) \in FileNames \ FilesOf(D) /\ Meta(t) # DatabaseList
  BY <1>1, FilesKept
<1>3. \A p \in Page : CanGet(s, D, Meta(t), p)
  BY <1>1, <1>2 DEF CanGet
<1>4. 0 \in Page
  BY SessionAssumption DEF Page
<1>5. Seen(s, Meta(t), 0) = s.disk[s.cwd][Meta(t)][0]
  BY <1>2, <1>3, <1>4, GetPageSound
<1>6. InfoSeen(s, t) = InfoOf(decl) /\ InfoSeen(s, t).count \in Page
  BY <1>1, <1>5, InfoParts DEF InfoSeen
<1> DEFINE c == InfoSeen(s, t).count
           keys == {k \in 1 .. c : ConstraintSeen(s, t, k).primary}
<1>7. c \in Nat /\ 1 .. c \subseteq Page /\ keys \subseteq Nat /\ keys \subseteq 1 .. c
  BY <1>6, SessionAssumption DEF Page
<1> HIDE DEF c
<1>8. PrimaryOf(s, t) = IF keys = {} THEN 0 ELSE Min(keys)
  BY DEF PrimaryOf, c
<1>9. keys # {} => Min(keys) \in keys
  <2> HIDE DEF keys
  <2> QED BY <1>7, LeastNat
<1>10. PrimaryOf(s, t) \in Page
  <2> HIDE DEF keys
  <2> QED BY <1>4, <1>7, <1>8, <1>9
<1> QED BY <1>3, <1>6, <1>10

LEMMA SearchedSound ==
  ASSUME NEW D, NEW s, NEW t, NEW decl, MetaOpen(s, D, t, decl)
  PROVE  LET r == SearchedPrimary(s, t)
         IN  /\ Sound(r, D) /\ ButFrames(r, s)
             /\ \A m : m # Meta(t) /\ NoFrames(s.frames, m) => NoFrames(r.frames, m)
<1> DEFINE g == GetPage(s, Meta(t), 0)
           k == IF PrimaryOf(s, t) = 0 THEN InfoSeen(s, t).count ELSE PrimaryOf(s, t)
           r == PagesRead(g, Meta(t), k)
<1>1. CanGet(s, D, Meta(t), 0) /\ k \in Page
  <2>1. 0 \in Page
    BY SessionAssumption DEF Page
  <2> QED BY <2>1, MetaSeen
<1>2. /\ Sound(g, D) /\ ButFrames(g, s)
      /\ \A m : m # Meta(t) /\ NoFrames(s.frames, m) => NoFrames(g.frames, m)
  BY ONLY <1>1, GotOthers
<1>3. SearchedPrimary(s, t) = r
  BY DEF SearchedPrimary
<1> HIDE DEF k, g
<1>4. Meta(t) \in FileNames \ FilesOf(D) /\ Meta(t) # DatabaseList /\ g.open[Meta(t)] # None /\ g.cwd # Root
  BY <1>2, FilesKept DEF MetaOpen, ButFrames
<1>5. /\ Sound(r, D) /\ ButFrames(r, g)
      /\ \A m : m # Meta(t) /\ NoFrames(g.frames, m) => NoFrames(r.frames, m)
  BY ONLY <1>1, <1>2, <1>4, PagesReadSound
<1> HIDE DEF r
<1> QED BY <1>2, <1>3, <1>5 DEF ButFrames

-----------------------------------------------------------------------------
(* The checks of CREATE TABLE.                                              *)

\* r is s after files were read, with the list of tables closed.
Reads(r, s, D) ==
  /\ Sound(r, D) /\ Sole(r.open, r.frames) /\ r.open[TableList] = None
  /\ Fresh(r.open, r.frames, s.disk, s.cwd, D)
  /\ r.cwd = s.cwd /\ r.disk = s.disk /\ r.passed = s.passed /\ r.done = s.done

Checks == [s : Sessions, ok : BOOLEAN, names : SUBSET (STRING \cup {None}),
           foreigns : SUBSET (Tables \cup {None}), primaries : Nat]

\* The table a foreign key refers to is looked up, and its key.
LEMMA ForeignRead ==
  ASSUME NEW s, NEW D, NEW decls, DiskRight(s.disk, decls), s.cwd \in Dbs \cap DOMAIN decls,
         D \cap Listed(s.disk, s.cwd) = {}, HasList(s.disk, s.cwd), NEW r, Reads(r, s, D), NEW t
  PROVE  LET listed == TableExist(r, t)
             opened == OpenFile(listed, Meta(t))
             read   == CloseFile(SearchedPrimary(opened, t), Meta(t))
         IN  /\ Reads(listed, s, D)
             /\ Exists(r, t) => t \in Listed(s.disk, s.cwd) /\ Reads(read, s, D)
<1> DEFINE listed == TableExist(r, t)
           opened == OpenFile(listed, Meta(t))
           found  == SearchedPrimary(opened, t)
           read   == CloseFile(found, Meta(t))
<1>1. /\ Sound(r, D) /\ Sole(r.open, r.frames) /\ r.open[TableList] = None
      /\ Fresh(r.open, r.frames, s.disk, s.cwd, D)
      /\ r.cwd = s.cwd /\ r.disk = s.disk /\ r.passed = s.passed /\ r.done = s.done
  BY DEF Reads
<1>2. Opens(r, TableList) /\ r.cwd # Root
  BY <1>1, SessionAssumption DEF Opens, HasList
<1>3. /\ Sound(listed, D) /\ NoFrames(listed.frames, TableList)
      /\ listed.cwd = s.cwd /\ listed.disk = s.disk /\ listed.passed = s.passed /\ listed.done = s.done
      /\ listed.open[TableList] = None
      /\ \A m \in FileNames \ {TableList} : listed.open[m] = r.open[m]
      /\ \A m : NoFrames(r.frames, m) => NoFrames(listed.frames, m)
  BY <1>1, <1>2, TableExistSound
<1>4. ListSeen(OpenFile(r, TableList), TableList) = ListOn(s.disk, s.cwd)
  BY <1>1, <1>2, ListRead
<1> HIDE DEF listed
<1>5. Reads(listed, s, D)
  <2>1. Sole(listed.open, listed.frames)
    BY <1>3 DEF Sole, ListLow, NoFrames
  <2>2. Fresh(listed.open, listed.frames, s.disk, s.cwd, D)
    <3>1. \A x \in Tables : Meta(x) \in FileNames \ {TableList} /\ Data(x) \in FileNames \ {TableList}
      BY NamesDiffer DEF FilesOf
    <3> QED BY <3>1, <1>1, <1>3, FreshKept
  <2> QED BY <1>3, <2>1, <2>2 DEF Reads
<1>6. ASSUME Exists(r, t) PROVE t \in Listed(s.disk, s.cwd) /\ Reads(read, s, D)
  <2>1. t \in Listed(s.disk, s.cwd)
    BY <1>2, <1>4, <1>6, HasList(s.disk, s.cwd) DEF Exists, Listed, ListOn
  <2>2. PICK decl : decl \in Declarations /\ Described(s.disk[s.cwd], t, decl) /\ t \in Tables /\ t \notin D
    BY <2>1, ListedParts
  <2>3. Meta(t) \in FileNames \ FilesOf(D) /\ Meta(t) \notin {DatabaseList, TableList}
    BY <2>2, FilesKept
  <2>4. Opens(listed, Meta(t))
    BY <2>2, <1>3 DEF Opens, Described
  <2>5. /\ Sound(opened, D) /\ ButOpen(opened, listed)
        /\ \A m \in FileNames \ {Meta(t)} : opened.open[m] = listed.open[m]
        /\ Opens(listed, Meta(t)) => opened.open[Meta(t)] # None
    BY <1>3, <2>3, FileOpened
  <2> HIDE DEF opened
  <2>6. MetaOpen(opened, D, t, decl)
    BY <1>1, <1>2, <1>3, <2>2, <2>4, <2>5 DEF MetaOpen, ButOpen
  <2>7. /\ Sound(found, D) /\ ButFrames(found, opened)
        /\ \A m : m # Meta(t) /\ NoFrames(opened.frames, m) => NoFrames(found.frames, m)
    BY ONLY <2>6, SearchedSound
  <2> HIDE DEF found
  <2>8. Sound(read, D) /\ ButOpen(read, found) /\ read.open = [found.open EXCEPT ![Meta(t)] = None]
    BY <2>3, <2>7, CloseFileSound
  <2>9. found.open \in [FileNames -> OpenFiles \cup {None}]
    BY ONLY <2>7, SoundParts
  <2> HIDE DEF read
  <2>10. /\ read.open[Meta(t)] = None
         /\ \A m \in FileNames \ {Meta(t)} : read.open[m] = listed.open[m]
         /\ \A m : m # Meta(t) /\ NoFrames(listed.frames, m) => NoFrames(read.frames, m)
         /\ read.cwd = s.cwd /\ read.disk = s.disk /\ read.passed = s.passed /\ read.done = s.done
    BY <1>3, <2>3, <2>5, <2>7, <2>8, <2>9 DEF ButOpen, ButFrames
  <2>11. read.open[TableList] = None /\ NoFrames(read.frames, TableList)
    BY <1>3, <2>3, <2>10, NamesDiffer
  <2>12. Sole(read.open, read.frames)
    BY <2>11 DEF Sole, ListLow, NoFrames
  <2>13. Fresh(read.open, read.frames, s.disk, s.cwd, D)
    <3>1. ASSUME NEW x \in Tables \ (Listed(s.disk, s.cwd) \cup D), NEW n \in {Meta(x), Data(x)}
          PROVE  n # Meta(t) /\ n \in FileNames
      BY <2>1, NamesDiffer DEF FilesOf
    <3>2. Fresh(listed.open, listed.frames, s.disk, s.cwd, D)
      BY <1>5 DEF Reads
    <3> QED BY <3>1, <3>2, <2>10, FreshKept
  <2> QED BY <2>1, <2>8, <2>10, <2>11, <2>12, <2>13 DEF Reads
<1> QED BY <1>5, <1>6 DEF listed, opened, found, read

LEMMA CheckedSound ==
  ASSUME NEW s, NEW D, NEW decls, DiskRight(s.disk, decls), s.cwd \in Dbs \cap DOMAIN decls,
         D \cap Listed(s.disk, s.cwd) = {}, HasList(s.disk, s.cwd), Reads(s, s, D),
         NEW decl \in Declarations
  PROVE  Reads(Checked(s, decl).s, s, D)
<1> DEFINE n == Len(decl.cons)
           x == [s |-> s, ok |-> TRUE, names |-> {}, foreigns |-> {}, primaries |-> 0]
           Good == {a \in Checks : Reads(a.s, s, D)}
           G    == [l \in 0 .. n |-> Good]
           step == [l \in 1 .. n |-> [a \in Checks |-> CheckedConstraint(a, decl.cons[l], decl)]]
<1>1. n \in Nat /\ \A l \in 1 .. n : decl.cons[l] \in Constraints
  BY InfoParts
<1>2. x \in Good
  <2>1. s \in Sessions
    BY SoundParts DEF Reads
  <2> QED BY <2>1 DEF Checks
<1>3. ASSUME NEW a \in Good, NEW c \in Constraints PROVE CheckedConstraint(a, c, decl) \in Good
  <2> DEFINE refuse == [a EXCEPT !.ok = FALSE]
             listed == TableExist(a.s, c.foreign)
             opened == OpenFile(listed, Meta(c.foreign))
             read   == CloseFile(SearchedPrimary(opened, c.foreign), Meta(c.foreign))
             key    == RefersToKey(opened, c)
             more   == a.primaries + 1
             named  == a.names \cup {c.name}
             seen   == a.foreigns \cup {c.foreign}
             keyed  == [a EXCEPT !.primaries = more, !.names = named]
             looked == [refuse EXCEPT !.s = listed]
             refers == [a EXCEPT !.s = read, !.names = named, !.foreigns = seen, !.ok = key]
             q      == CheckedConstraint(a, c, decl)
  <2>1. a \in Checks /\ Reads(a.s, s, D)
    OBVIOUS
  <2>2. /\ Reads(listed, s, D)
        /\ Exists(a.s, c.foreign) => Reads(read, s, D)
    BY <2>1, ForeignRead
  <2>3. key \in BOOLEAN
    BY DEF RefersToKey
  <2>4. q = refuse \/ q = keyed \/ q = looked \/ (q = refers /\ Exists(a.s, c.foreign))
    BY DEF CheckedConstraint
  <2>5. named \in SUBSET (STRING \cup {None}) /\ seen \in SUBSET (Tables \cup {None}) /\ more \in Nat
    BY <2>1 DEF Constraints, Checks
  <2> HIDE DEF q, key, listed, opened, read, more, named, seen, Good
  <2>6. listed \in Sessions /\ (Exists(a.s, c.foreign) => read \in Sessions)
    BY <2>2, SoundParts DEF Reads
  <2>7. refuse \in Checks /\ refuse.s = a.s
    BY <2>1 DEF Checks
  <2>8. keyed \in Checks /\ keyed.s = a.s
    BY <2>1, <2>5 DEF Checks
  <2>9. looked \in Checks /\ looked.s = listed
    <3> HIDE DEF refuse
    <3> QED BY <2>6, <2>7 DEF Checks
  <2>10. Exists(a.s, c.foreign) => refers \in Checks /\ refers.s = read
    BY <2>1, <2>3, <2>5, <2>6 DEF Checks
  <2> HIDE DEF refuse, keyed, looked, refers
  <2>11. refuse \in Good /\ keyed \in Good /\ looked \in Good
    BY <2>1, <2>2, <2>7, <2>8, <2>9 DEF Good
  <2>12. Exists(a.s, c.foreign) => refers \in Good
    BY <2>2, <2>10 DEF Good
  <2> QED BY <2>4, <2>11, <2>12 DEF q
<1>4. Good \subseteq Checks /\ \A a \in Good : Reads(a.s, s, D)
  OBVIOUS
<1> HIDE DEF Good, x
<1>5. Stays(n, Checks, G, x, step)
  BY <1>1, <1>2, <1>3, <1>4 DEF Stays
<1>6. \E f \in [0 .. n -> Checks] :
        \A l \in 0 .. n : f[l] = (IF l = 0 THEN x ELSE step[l][f[l - 1]]) /\ f[l] \in G[l]
  <2> HIDE DEF G, step, n
  <2> QED BY ONLY <1>5, Stages
<1>7. PICK f \in [0 .. n -> Checks] :
        \A l \in 0 .. n : f[l] = (IF l = 0 THEN x ELSE step[l][f[l - 1]]) /\ f[l] \in G[l]
  BY <1>6
<1> DEFINE after[k \in 0 .. n] ==
             IF k = 0 THEN x ELSE CheckedConstraint(after[k - 1], decl.cons[k], decl)
<1>8. after = [k \in 0 .. n |-> IF k = 0 THEN x ELSE CheckedConstraint(after[k - 1], decl.cons[k], decl)]
  <2>1. f = [k \in 0 .. n |-> IF k = 0 THEN x ELSE CheckedConstraint(f[k - 1], decl.cons[k], decl)]
    <3>1. ASSUME NEW l \in 0 .. n, l # 0
          PROVE  step[l][f[l - 1]] = CheckedConstraint(f[l - 1], decl.cons[l], decl)
      <4>1. l \in 1 .. n /\ l - 1 \in 0 .. n
        BY <1>1, <3>1
      <4> QED BY <4>1
    <3> HIDE DEF step
    <3> QED BY <3>1, <1>7
  <2> QED BY <2>1
<1> HIDE DEF after
<1> DEFINE T == {l \in 0 .. n : after[l] \in Good}
<1>9. \A l \in 0 .. n : l \in T
  <2>1. 0 \in T
    BY <1>1, <1>2, <1>8
  <2>2. ASSUME NEW l \in 1 .. n, l - 1 \in T PROVE l \in T
    BY <1>1, <1>3, <1>8, <2>2
  <2> HIDE DEF T, n
  <2> QED BY <1>1, <2>1, <2>2, Throughout
<1>10. Reads(after[n].s, s, D)
  BY <1>1, <1>4, <1>9
<1> QED BY <1>10 DEF Checked, after, x

-----------------------------------------------------------------------------
(* The files of a new table are written.                                    *)

LEMMA PutTwice ==
  ASSUME NEW dk \in Disk, NEW d \in Dbs \cup {Root}, dk[d] # None, NEW n \in FileNames,
         NEW x \in File, NEW y \in File
  PROVE  Put(Put(dk, d, n, x), d, n, y) = Put(dk, d, n, y)
<1> DEFINE e == [dk[d] EXCEPT ![n] = x]
           k == [dk EXCEPT ![d] = e]
<1>1. dk[d] \in Directory
  BY DEF Disk
<1>2. [e EXCEPT ![n] = y] = [dk[d] EXCEPT ![n] = y]
  BY <1>1 DEF Directory
<1>3. k[d] = e
  BY DEF Disk
<1> HIDE DEF e
<1>4. [k EXCEPT ![d] = [k[d] EXCEPT ![n] = y]] = [dk EXCEPT ![d] = [dk[d] EXCEPT ![n] = y]]
  BY <1>2, <1>3 DEF Disk
<1> QED BY <1>4 DEF Put, e

\* Of the disks since s, only the file n of the current directory differs.
OnlyFile(passed, s, n) ==
  \A k \in passed : k \in s.passed \/ \E x \in File : k = Put(s.disk, s.cwd, n, x)

\* r is s with the file n, which has no frames, open and written.
AtWork(r, s, D, n) ==
  /\ Sound(r, D) /\ r.cwd = s.cwd /\ r.done = s.done /\ r.frames = s.frames
  /\ r.open[n] # None /\ \A m \in FileNames \ {n} : r.open[m] = s.open[m]
  /\ \E x \in File : r.disk = Put(s.disk, s.cwd, n, x)
  /\ OnlyFile(r.passed, s, n)

Writable(s, D, n) ==
  /\ Sound(s, D) /\ s.cwd # Root /\ n \in FileNames \ FilesOf(D) /\ n \notin {DatabaseList, TableList}
  /\ s.open[n] = None /\ NoFrames(s.frames, n)

LEMMA MadeAtWork ==
  ASSUME NEW D, NEW s, NEW n, Writable(s, D, n)
  PROVE  AtWork(OpenFile(CreateFile(s, n), n), s, D, n)
<1> DEFINE c == CreateFile(s, n)
           o == OpenFile(c, n)
           dk == Put(s.disk, s.cwd, n, NewFile)
<1>1. /\ Sound(s, D) /\ s.cwd # Root /\ n \in FileNames \ FilesOf(D) /\ n # DatabaseList
      /\ s.open[n] = None /\ NoFrames(s.frames, n)
  BY DEF Writable
<1>2. Sound(c, D) /\ ButDisk(c, s) /\ c.disk = dk /\ c.passed = s.passed \cup {dk}
  BY <1>1, CreateFileSound
<1>3. s.disk \in Disk /\ s.cwd \in Dbs \cup {Root} /\ s.disk[s.cwd] # None
  BY ONLY <1>1, SoundParts
<1>4. dk[s.cwd][n] = NewFile /\ NewFile \in File
  BY <1>1, <1>3, PutParts, NewFileRight
<1> HIDE DEF c
<1>5. c.cwd = s.cwd /\ c.open = s.open /\ c.frames = s.frames /\ c.done = s.done
  BY <1>2 DEF ButDisk
<1>6. Opens(c, n)
  BY <1>2, <1>4, <1>5, NoneAssumption DEF Opens
<1>7. /\ Sound(o, D) /\ ButOpen(o, c) /\ o.open[n] # None
      /\ \A m \in FileNames \ {n} : o.open[m] = c.open[m]
  BY <1>1, <1>2, <1>6, FileOpened
<1> HIDE DEF o
<1>8. o.cwd = s.cwd /\ o.done = s.done /\ o.frames = s.frames /\ o.disk = dk /\ o.passed = s.passed \cup {dk}
  BY <1>2, <1>5, <1>7 DEF ButOpen
<1>9. OnlyFile(o.passed, s, n)
  BY <1>4, <1>8 DEF OnlyFile
<1> QED BY <1>4, <1>5, <1>7, <1>8, <1>9 DEF AtWork, o, c

LEMMA StoredAtWork ==
  ASSUME NEW D, NEW s, NEW n, Writable(s, D, n), NEW r, AtWork(r, s, D, n),
         NEW p \in Page, NEW v \in Content
  PROVE  LET w == Stored(r, n, p, v)
         IN  /\ AtWork(w, s, D, n)
             /\ w.disk[s.cwd][n][p] = v
             /\ \A q \in Page \ {p} : w.disk[s.cwd][n][q] = r.disk[s.cwd][n][q]
<1> DEFINE w == Stored(r, n, p, v)
           h == Home(r.cwd, n)
           x == [r.disk[h][n] EXCEPT ![p] = v]
           dk == Put(r.disk, h, n, x)
<1>1. /\ Sound(s, D) /\ s.cwd # Root /\ n \in FileNames \ FilesOf(D) /\ n # DatabaseList
      /\ NoFrames(s.frames, n)
  BY DEF Writable
<1>2. /\ Sound(r, D) /\ r.cwd = s.cwd /\ r.done = s.done /\ r.frames = s.frames
      /\ r.open[n] # None /\ \A m \in FileNames \ {n} : r.open[m] = s.open[m]
      /\ \E y \in File : r.disk = Put(s.disk, s.cwd, n, y)
      /\ OnlyFile(r.passed, s, n)
  BY DEF AtWork
<1>3. CanGet(r, D, n, p) /\ NoFrames(r.frames, n) /\ h = s.cwd
  BY <1>1, <1>2 DEF CanGet, Home
<1>4. \A k \in DOMAIN r.frames : r.frames[k].name = n => k = FrameOf(r, n, p)
  BY <1>3 DEF NoFrames
<1>5. /\ Sound(w, D)
      /\ w.cwd = r.cwd /\ w.open = r.open /\ w.done = r.done
      /\ w.disk = dk /\ w.passed = r.passed \cup {dk}
      /\ \A m : NoFrames(r.frames, m) => NoFrames(w.frames, m)
      /\ NoFrames(r.frames, n) => w.frames = r.frames
      /\ n # DatabaseList => NoFrames(w.frames, n)
      /\ x \in File /\ x[p] = v /\ \A q \in Page \ {p} : x[q] = r.disk[Home(r.cwd, n)][n][q]
  BY ONLY <1>1, <1>3, <1>4, v \in Content, StoredSound
<1>6. s.disk \in Disk /\ s.cwd \in Dbs \cup {Root} /\ s.disk[s.cwd] # None
  BY ONLY <1>1, SoundParts
<1> HIDE DEF w, x
<1>7. PICK y \in File : r.disk = Put(s.disk, s.cwd, n, y)
  BY <1>2
<1>8. dk = Put(s.disk, s.cwd, n, x)
  BY <1>1, <1>3, <1>5, <1>6, <1>7, PutTwice
<1>9. dk[s.cwd][n] = x
  BY <1>1, <1>5, <1>6, <1>8, PutParts
<1> HIDE DEF dk, h
<1>10. OnlyFile(w.passed, s, n)
  BY <1>2, <1>5, <1>8 DEF OnlyFile
<1>11. AtWork(w, s, D, n)
  BY <1>2, <1>3, <1>5, <1>8, <1>10 DEF AtWork
<1> QED BY <1>3, <1>5, <1>9, <1>11 DEF w, h

LEMMA ClosedAtWork ==
  ASSUME NEW D, NEW s, NEW n, Writable(s, D, n), NEW r, AtWork(r, s, D, n)
  PROVE  LET c == CloseFile(r, n)
         IN  /\ Sound(c, D) /\ c.cwd = s.cwd /\ c.done = s.done /\ c.frames = s.frames /\ c.open = s.open
             /\ c.disk = r.disk /\ c.passed = r.passed
<1> DEFINE c == CloseFile(r, n)
<1>1. Sound(s, D) /\ n \in FileNames /\ s.open[n] = None
  BY DEF Writable
<1>2. /\ Sound(r, D) /\ r.cwd = s.cwd /\ r.done = s.done /\ r.frames = s.frames
      /\ \A m \in FileNames \ {n} : r.open[m] = s.open[m]
  BY DEF AtWork
<1>3. Sound(c, D) /\ ButOpen(c, r) /\ c.open = [r.open EXCEPT ![n] = None]
  BY <1>1, <1>2, CloseFileSound
<1>4. s.open \in [FileNames -> OpenFiles \cup {None}]
  BY ONLY <1>1, SoundParts
<1>5. r.open \in [FileNames -> OpenFiles \cup {None}]
  BY ONLY <1>2, SoundParts
<1> HIDE DEF c
<1>6. c.open = s.open
  BY <1>1, <1>2, <1>3, <1>4, <1>5
<1> QED BY <1>2, <1>3, <1>6 DEF ButOpen, c

\* r is s with the file n written anew.
Written(r, s, D, n) ==
  /\ Sound(r, D) /\ r.cwd = s.cwd /\ r.done = s.done /\ r.frames = s.frames /\ r.open = s.open
  /\ \E x \in File : r.disk = Put(s.disk, s.cwd, n, x)
  /\ OnlyFile(r.passed, s, n)

LEMMA MetaWrittenSound ==
  ASSUME NEW D, NEW s, NEW t, Writable(s, D, Meta(t)), NEW decl \in Declarations
  PROVE  LET r == MetaWritten(s, t, decl)
         IN  /\ Written(r, s, D, Meta(t))
             /\ r.disk[s.cwd][Meta(t)][0] = InfoOf(decl)
             /\ \A k \in DOMAIN decl.cons : r.disk[s.cwd][Meta(t)][k] = decl.cons[k]
<1> DEFINE n == Len(decl.cons)
           x == Stored(OpenFile(CreateFile(s, Meta(t)), Meta(t)), Meta(t), 0, InfoOf(decl))
           P(r, l) == /\ AtWork(r, s, D, Meta(t))
                      /\ r.disk[s.cwd][Meta(t)][0] = InfoOf(decl)
                      /\ \A k \in 1 .. l : r.disk[s.cwd][Meta(t)][k] = decl.cons[k]
           G == [l \in 0 .. n |-> {r \in Sessions : P(r, l)}]
           step == [l \in 1 .. n |-> [r \in Sessions |-> Stored(r, Meta(t), l, decl.cons[l])]]
<1>1. /\ n \in Nat /\ 0 \in Page /\ InfoOf(decl) \in Content /\ DOMAIN decl.cons = 1 .. n
      /\ \A l \in 1 .. n : l \in Page /\ decl.cons[l] \in Content
  BY InfoParts, SessionAssumption DEF Page
<1>2. \A r : AtWork(r, s, D, Meta(t)) => r \in Sessions
  BY SoundParts DEF AtWork
<1>3. P(x, 0) /\ x \in Sessions
  <2> DEFINE o == OpenFile(CreateFile(s, Meta(t)), Meta(t))
  <2>1. AtWork(o, s, D, Meta(t))
    BY MadeAtWork
  <2> HIDE DEF o
  <2>2. /\ AtWork(x, s, D, Meta(t))
        /\ x.disk[s.cwd][Meta(t)][0] = InfoOf(decl)
        /\ \A q \in Page \ {0} : x.disk[s.cwd][Meta(t)][q] = o.disk[s.cwd][Meta(t)][q]
    BY <1>1, <2>1, StoredAtWork DEF o
  <2> QED BY <1>2, <2>2
<1>4. ASSUME NEW l \in 1 .. n, NEW r, P(r, l - 1)
      PROVE  P(Stored(r, Meta(t), l, decl.cons[l]), l)
  <2> DEFINE w == Stored(r, Meta(t), l, decl.cons[l])
  <2>1. /\ AtWork(w, s, D, Meta(t))
        /\ w.disk[s.cwd][Meta(t)][l] = decl.cons[l]
        /\ \A q \in Page \ {l} : w.disk[s.cwd][Meta(t)][q] = r.disk[s.cwd][Meta(t)][q]
    <3>1. AtWork(r, s, D, Meta(t)) /\ l \in Page /\ decl.cons[l] \in Content
      BY <1>1, <1>4
    <3> QED BY ONLY <3>1, Writable(s, D, Meta(t)), StoredAtWork
  <2> HIDE DEF w
  <2>2. 0 \in Page \ {l} /\ \A k \in 1 .. l : k = l \/ (k \in Page \ {l} /\ k \in 1 .. (l - 1))
    BY <1>1
  <2> QED BY <1>4, <2>1, <2>2 DEF w
<1> HIDE DEF P, x
<1>5. \A l \in 0 .. n : G[l] = {r \in Sessions : P(r, l)}
  OBVIOUS
<1>6. \A l \in 1 .. n : l \in 0 .. n /\ l - 1 \in 0 .. n
  BY <1>1
<1>7. Stays(n, Sessions, G, x, step)
  <2>1. \A l \in 0 .. n : G[l] \subseteq Sessions
    BY <1>5
  <2>2. x \in G[0]
    BY <1>1, <1>3, <1>5
  <2>3. ASSUME NEW l \in 1 .. n, NEW r \in G[l - 1] PROVE step[l][r] \in G[l]
    <3>1. r \in Sessions /\ P(r, l - 1)
      BY <1>5, <1>6, <2>3
    <3>2. P(step[l][r], l)
      BY <1>4, <3>1
    <3>3. step[l][r] \in Sessions
      BY <1>2, <3>2 DEF P
    <3> HIDE DEF step, G
    <3> QED BY <1>5, <1>6, <3>2, <3>3
  <2> HIDE DEF G, step, n
  <2> QED BY <1>1, <2>1, <2>2, <2>3 DEF Stays
<1>8. \E f \in [0 .. n -> Sessions] :
        \A l \in 0 .. n : f[l] = (IF l = 0 THEN x ELSE step[l][f[l - 1]]) /\ f[l] \in G[l]
  <2> HIDE DEF G, step, n
  <2> QED BY ONLY <1>7, Stages
<1>9. PICK f \in [0 .. n -> Sessions] :
        \A l \in 0 .. n : f[l] = (IF l = 0 THEN x ELSE step[l][f[l - 1]]) /\ f[l] \in G[l]
  BY <1>8
<1> DEFINE after[k \in 0 .. n] == IF k = 0 THEN x ELSE Stored(after[k - 1], Meta(t), k, decl.cons[k])
<1>10. after = [k \in 0 .. n |-> IF k = 0 THEN x ELSE Stored(after[k - 1], Meta(t), k, decl.cons[k])]
  <2>1. f = [k \in 0 .. n |-> IF k = 0 THEN x ELSE Stored(f[k - 1], Meta(t), k, decl.cons[k])]
    <3>1. ASSUME NEW l \in 0 .. n, l # 0
          PROVE  step[l][f[l - 1]] = Stored(f[l - 1], Meta(t), l, decl.cons[l])
      <4>1. l \in 1 .. n /\ l - 1 \in 0 .. n
        BY <1>1, <3>1
      <4> QED BY <4>1
    <3> HIDE DEF step
    <3> QED BY <3>1, <1>9
  <2> QED BY <2>1
<1> HIDE DEF after
<1> DEFINE T == {l \in 0 .. n : P(after[l], l)}
<1>11. \A l \in 0 .. n : l \in T
  <2>1. 0 \in T
    BY <1>1, <1>3, <1>10
  <2>2. ASSUME NEW l \in 1 .. n, l - 1 \in T PROVE l \in T
    BY <1>4, <1>6, <1>10, <2>2
  <2> HIDE DEF T, n
  <2> QED BY <1>1, <2>1, <2>2, Throughout
<1> DEFINE z == after[n]
           r == CloseFile(z, Meta(t))
<1>12. P(z, n)
  BY <1>1, <1>11
<1>13. MetaWritten(s, t, decl) = r
  BY DEF MetaWritten, after, x
<1> HIDE DEF z
<1>14. AtWork(z, s, D, Meta(t))
  BY <1>12 DEF P
<1>15. /\ Sound(r, D) /\ r.cwd = s.cwd /\ r.done = s.done /\ r.frames = s.frames /\ r.open = s.open
       /\ r.disk = z.disk /\ r.passed = z.passed
  BY <1>14, ClosedAtWork
<1> HIDE DEF r
<1>16. Written(r, s, D, Meta(t))
  BY <1>14, <1>15 DEF Written, AtWork
<1> QED BY <1>1, <1>12, <1>13, <1>15, <1>16 DEF P

LEMMA DataWrittenSound ==
  ASSUME NEW D, NEW s, NEW t, Writable(s, D, Data(t)), NEW decl \in Declarations
  PROVE  LET r == DataWritten(s, t, decl)
         IN  Written(r, s, D, Data(t)) /\ r.disk[s.cwd][Data(t)][0] = RecordHeader(decl)
<1> DEFINE o == OpenFile(CreateFile(s, Data(t)), Data(t))
           z == Stored(o, Data(t), 0, RecordHeader(decl))
           r == CloseFile(z, Data(t))
<1>1. AtWork(o, s, D, Data(t)) /\ 0 \in Page /\ RecordHeader(decl) \in Content
  BY MadeAtWork, InfoParts, SessionAssumption DEF Page
<1> HIDE DEF o
<1>2. /\ AtWork(z, s, D, Data(t)) /\ z.disk[s.cwd][Data(t)][0] = RecordHeader(decl)
      /\ \A q \in Page \ {0} : z.disk[s.cwd][Data(t)][q] = o.disk[s.cwd][Data(t)][q]
  BY <1>1, StoredAtWork
<1>3. DataWritten(s, t, decl) = r
  BY DEF DataWritten, o
<1> HIDE DEF z
<1>4. /\ Sound(r, D) /\ r.cwd = s.cwd /\ r.done = s.done /\ r.frames = s.frames /\ r.open = s.open
      /\ r.disk = z.disk /\ r.passed = z.passed
  BY <1>2, ClosedAtWork
<1> HIDE DEF r
<1>5. Written(r, s, D, Data(t))
  BY <1>2, <1>4 DEF Written, AtWork
<1> QED BY <1>2, <1>3, <1>4, <1>5

-----------------------------------------------------------------------------
(* Lists of names.                                                          *)

LEMMA NamesAppended ==
  ASSUME NEW S, NEW max \in Nat, NEW names, NamesRight(names, S, max), Len(names) # max,
         NEW x \in S, x \notin ToSet(names)
  PROVE  NamesRight(Append(names, x), S, max) /\ ToSet(Append(names, x)) = ToSet(names) \cup {x}
<1> DEFINE q == Append(names, x)
           n == Len(names)
<1>1. /\ names \in Seq(S) /\ n \in Nat /\ n < max /\ DOMAIN names = 1 .. n
      /\ \A i, j \in 1 .. n : names[i] = names[j] => i = j
      /\ \A i \in 1 .. n : names[i] # x
  BY DEF NamesRight, WellFormed, IsInjective, ToSet
<1>2. /\ q \in Seq(S) /\ Len(q) = n + 1 /\ q[n + 1] = x
      /\ \A i \in 1 .. n : q[i] = names[i]
  <2>1. names \in Seq(S)
    BY <1>1
  <2> QED BY ONLY <2>1, x \in S
<1> HIDE DEF q, n
<1>7. DOMAIN q = 1 .. (n + 1)
  BY <1>2
<1>3. \A i \in 1 .. (n + 1) : i = n + 1 \/ i \in 1 .. n
  BY <1>1
<1>4. IsInjective(q)
  BY <1>1, <1>2, <1>3, <1>7 DEF IsInjective
<1>5. Len(q) <= max
  BY <1>1, <1>2
<1>6. ToSet(q) = ToSet(names) \cup {x}
  <2>1. n + 1 \in DOMAIN q /\ \A i \in 1 .. n : i \in DOMAIN q
    BY <1>1, <1>7
  <2> QED BY <1>1, <1>2, <1>3, <1>7, <2>1 DEF ToSet
<1> QED BY <1>2, <1>4, <1>5, <1>6 DEF NamesRight, WellFormed, q

LEMMA NamesDropped ==
  ASSUME NEW S, NEW max \in Nat, NEW names, NamesRight(names, S, max), NEW x \in ToSet(names)
  PROVE  NamesRight(Dropped(names, x), S, max) /\ ToSet(Dropped(names, x)) = ToSet(names) \ {x}
<1> DEFINE n == Len(names)
           P(i) == names[i] = x /\ \A j \in 1 .. (i - 1) : names[j] # x
           k == CHOOSE i \in DOMAIN names : P(i)
           e == [names EXCEPT ![k] = Last(names)]
           q == Dropped(names, x)
<1>1. /\ names \in Seq(S) /\ n \in Nat /\ n <= max /\ DOMAIN names = 1 .. n
      /\ \A i, j \in 1 .. n : names[i] = names[j] => i = j
      /\ \A i \in 1 .. n : names[i] \in S
  BY DEF NamesRight, WellFormed, IsInjective
<1>2. PICK i \in 1 .. n : names[i] = x
  BY <1>1 DEF ToSet
<1>3. P(i)
  BY <1>1, <1>2
<1>4. k \in 1 .. n /\ names[k] = x /\ n \in 1 .. n
  BY <1>1, <1>2, <1>3
<1>5. Last(names) = names[n]
  BY DEF Last
<1>6. q = SubSeq(e, 1, Len(e) - 1)
  BY DEF Dropped, Front
<1> HIDE DEF k, P
<1>7. /\ e \in Seq(S) /\ Len(e) = n /\ e[k] = names[n]
      /\ \A j \in 1 .. n : j # k => e[j] = names[j]
  BY <1>1, <1>4, <1>5
<1> HIDE DEF e, n
<1>8. q \in Seq(S) /\ Len(q) = n - 1 /\ \A j \in 1 .. (n - 1) : q[j] = e[j]
  <2>1. \A j \in 1 .. (n - 1) : e[j] \in S
    BY <1>1, <1>7
  <2>2. n - 1 \in Int /\ 1 \in Int
    BY <1>1
  <2>3. /\ SubSeq(e, 1, n - 1) \in Seq(S)
        /\ Len(SubSeq(e, 1, n - 1)) = IF 1 <= n - 1 THEN n - 1 - 1 + 1 ELSE 0
        /\ \A j \in 1 .. (n - 1 - 1 + 1) : SubSeq(e, 1, n - 1)[j] = e[1 + j - 1]
    BY ONLY <2>1, <2>2, SubSeqProperties
  <2> QED BY <1>1, <1>4, <1>6, <1>7, <2>3
<1> HIDE DEF q
<1>9. DOMAIN q = 1 .. (n - 1) /\ \A j \in 1 .. (n - 1) : j \in 1 .. n /\ j # n
  BY <1>1, <1>8
<1>10. ASSUME NEW a \in 1 .. (n - 1), NEW b \in 1 .. (n - 1), q[a] = q[b] PROVE a = b
  BY <1>1, <1>4, <1>7, <1>8, <1>9, <1>10
<1>11. ToSet(q) = ToSet(names) \ {x}
  <2>1. ASSUME NEW a \in 1 .. (n - 1) PROVE q[a] \in ToSet(names) \ {x}
    BY <1>1, <1>4, <1>7, <1>8, <1>9 DEF ToSet
  <2>2. ASSUME NEW a \in 1 .. n, names[a] # x PROVE \E b \in 1 .. (n - 1) : q[b] = names[a]
    <3>1. CASE a = n
      <4>1. k \in 1 .. (n - 1)
        BY <3>1, <2>2, <1>1, <1>4
      <4> QED BY <4>1, <3>1, <1>7, <1>8
    <3>2. CASE a # n
      <4>1. a \in 1 .. (n - 1) /\ a # k
        BY <3>2, <2>2, <1>1, <1>4
      <4> QED BY <4>1, <1>7, <1>8
    <3> QED BY <3>1, <3>2
  <2>3. ToSet(q) \subseteq ToSet(names) \ {x}
    BY <1>9, <2>1 DEF ToSet
  <2>4. ToSet(names) \ {x} \subseteq ToSet(q)
    BY <1>1, <1>9, <2>2 DEF ToSet
  <2> QED BY <2>3, <2>4
<1>12. IsInjective(q) /\ Len(q) <= max
  BY <1>1, <1>8, <1>9, <1>10 DEF IsInjective
<1> QED BY <1>8, <1>11, <1>12 DEF NamesRight, WellFormed, q

-----------------------------------------------------------------------------
(* Disks that are right stay right.                                         *)

\* What is said of tables that are not listed does not matter.
LEMMA OtherDeclarations ==
  ASSUME NEW dk, NEW decls, DiskRight(dk, decls), NEW others, DOMAIN others = DOMAIN decls,
         \A d \in Dbs \cap DOMAIN decls : \A t \in Listed(dk, d) : others[d][t] = decls[d][t]
  PROVE  DiskRight(dk, others)
BY DEF DiskRight, AllDescribed

\* A file of a table that is not listed.
LEMMA UnlistedPut ==
  ASSUME NEW dk \in Disk, NEW decls, DiskRight(dk, decls), NEW d \in Dbs, dk[d] # None,
         NEW t \in Tables, t \notin Listed(dk, d), NEW n \in {Meta(t), Data(t)},
         NEW x \in File \cup {None}
  PROVE  LET k == Put(dk, d, n, x)
         IN  /\ k \in Disk /\ DiskRight(k, decls) /\ k[d] # None /\ k[d][n] = x
             /\ \A m \in FileNames \ {n} : k[d][m] = dk[d][m]
             /\ \A e \in Dbs : Listed(k, e) = Listed(dk, e) /\ HasList(k, e) = HasList(dk, e)
             /\ ListOn(k, d) = ListOn(dk, d)
<1> DEFINE k == Put(dk, d, n, x)
<1>1. n \in FileNames /\ n \notin {DatabaseList, TableList} /\ TableList \in FileNames
  BY NamesDiffer DEF FilesOf
<1>2. /\ k \in Disk /\ k[d] # None /\ k[d][n] = x
      /\ \A m \in FileNames \ {n} : k[d][m] = dk[d][m]
      /\ \A e \in (Dbs \cup {Root}) \ {d} : k[e] = dk[e]
  BY <1>1, PutParts
<1> HIDE DEF k
<1>3. k[d][TableList] = dk[d][TableList]
  BY <1>1, <1>2
<1>4. \A e \in Dbs : HasList(k, e) = HasList(dk, e) /\ ListOn(k, e) = ListOn(dk, e)
  <2>1. ASSUME NEW e \in Dbs PROVE HasList(k, e) = HasList(dk, e) /\ ListOn(k, e) = ListOn(dk, e)
    <3>1. CASE e = d
      BY <3>1, <1>2, <1>3 DEF HasList, ListOn
    <3>2. CASE e # d
      <4>1. k[e] = dk[e]
        BY <3>2, <1>2
      <4> QED BY <4>1 DEF HasList, ListOn
    <3> QED BY <3>1, <3>2
  <2> QED BY <2>1
<1>5. \A e \in Dbs : Listed(k, e) = Listed(dk, e)
  BY <1>4 DEF Listed, ListOn
<1>6. DatabasesRight(k)
  <2>1. k[Root] = dk[Root]
    BY <1>2, SessionAssumption
  <2> QED BY <2>1 DEF DatabasesRight, DiskRight
<1>7. ListsRight(k)
  BY <1>4 DEF ListsRight, DiskRight
<1>8. ASSUME NEW e \in Dbs \cap DOMAIN decls, NEW u \in Listed(k, e)
      PROVE  decls[e][u] \in Declarations /\ Described(k[e], u, decls[e][u])
  <2>1. u \in Listed(dk, e)
    BY <1>5
  <2>2. decls[e][u] \in Declarations /\ Described(dk[e], u, decls[e][u])
        /\ Meta(u) \in FileNames /\ Data(u) \in FileNames
    BY <2>1, ListedParts
  <2>3. k[e][Meta(u)] = dk[e][Meta(u)] /\ k[e][Data(u)] = dk[e][Data(u)]
    <3>1. CASE e = d
      <4>1. Meta(u) # n /\ Data(u) # n
        BY <3>1, <2>1, NamesDiffer
      <4> QED BY <3>1, <4>1, <2>2, <1>2
    <3>2. CASE e # d
      BY <3>2, <1>2
    <3> QED BY <3>1, <3>2
  <2> QED BY <2>2, <2>3 DEF Described
<1>9. DiskRight(k, decls)
  BY <1>4, <1>6, <1>7, <1>8 DEF DiskRight, AllDescribed
<1> QED BY <1>2, <1>4, <1>5, <1>9 DEF k

\* The list of a database.
LEMMA ListPut ==
  ASSUME NEW dk \in Disk, NEW decls, DiskRight(dk, decls), NEW d \in Dbs, dk[d] # None,
         NEW x \in File, NEW names, ListIn(x[0]) = names, NamesRight(names, Tables, MaxTables),
         \A t \in ToSet(names) : decls[d][t] \in Declarations /\ Described(dk[d], t, decls[d][t])
  PROVE  LET k == Put(dk, d, TableList, x)
         IN  /\ k \in Disk /\ DiskRight(k, decls) /\ k[d] # None
             /\ \A m \in FileNames \ {TableList} : k[d][m] = dk[d][m]
             /\ HasList(k, d) /\ Listed(k, d) = ToSet(names)
             /\ \A e \in Dbs \ {d} : Listed(k, e) = Listed(dk, e)
<1> DEFINE k == Put(dk, d, TableList, x)
<1>1. TableList \in FileNames /\ x # None
  BY NamesDiffer, NoneAssumption
<1>2. /\ k \in Disk /\ k[d] # None /\ k[d][TableList] = x
      /\ \A m \in FileNames \ {TableList} : k[d][m] = dk[d][m]
      /\ \A e \in (Dbs \cup {Root}) \ {d} : k[e] = dk[e]
  BY <1>1, PutParts
<1> HIDE DEF k
<1>3. HasList(k, d) /\ ListOn(k, d) = names /\ Listed(k, d) = ToSet(names)
  BY <1>1, <1>2 DEF HasList, ListOn, Listed
<1>4. \A e \in Dbs \ {d} : HasList(k, e) = HasList(dk, e) /\ ListOn(k, e) = ListOn(dk, e)
                           /\ Listed(k, e) = Listed(dk, e)
  <2>1. ASSUME NEW e \in Dbs \ {d} PROVE k[e] = dk[e]
    BY <1>2
  <2> QED BY <2>1 DEF HasList, ListOn, Listed
<1>5. DatabasesRight(k)
  <2>1. k[Root] = dk[Root]
    BY <1>2, SessionAssumption
  <2> QED BY <2>1 DEF DatabasesRight, DiskRight
<1>6. ListsRight(k)
  BY <1>3, <1>4 DEF ListsRight, DiskRight
<1>7. ASSUME NEW e \in Dbs \cap DOMAIN decls, NEW u \in Listed(k, e)
      PROVE  decls[e][u] \in Declarations /\ Described(k[e], u, decls[e][u])
  <2>1. CASE e # d
    <3>1. u \in Listed(dk, e) /\ k[e] = dk[e]
      BY <2>1, <1>2, <1>4
    <3> QED BY <3>1, ListedParts
  <2>2. CASE e = d
    <3>1. /\ decls[d][u] \in Declarations /\ Described(dk[d], u, decls[d][u]) /\ u \in Tables
      <4>1. u \in ToSet(names) /\ names \in Seq(Tables)
        BY <2>2, <1>3 DEF NamesRight
      <4> QED BY <4>1 DEF ToSet
    <3>2. k[d][Meta(u)] = dk[d][Meta(u)] /\ k[d][Data(u)] = dk[d][Data(u)]
      BY <1>2, <3>1, NamesDiffer DEF FilesOf
    <3> QED BY <2>2, <3>1, <3>2 DEF Described
  <2> QED BY <2>1, <2>2
<1>8. DiskRight(k, decls)
  BY <1>3, <1>4, <1>5, <1>6, <1>7 DEF DiskRight, AllDescribed
<1> QED BY <1>2, <1>3, <1>4, <1>8 DEF k

-----------------------------------------------------------------------------
(* CREATE TABLE.                                                            *)

\* What a statement leaves behind.
Leaves(r, s, D, decls) ==
  /\ Tame(r, D) /\ \A k \in r.passed : DiskRight(k, decls)
  /\ ~r.done => r.passed = s.passed
  /\ r.cwd # Root => D \cap Listed(r.disk, r.cwd) = {}

LEMMA Answered ==
  ASSUME NEW D, NEW s, Tame(s, D), NEW r, r \in {Done(s), Refused(s)}
  PROVE  /\ Tame(r, D) /\ r.done = (r = Done(s))
         /\ r.cwd = s.cwd /\ r.disk = s.disk /\ r.passed = s.passed
         /\ r.open = s.open /\ r.frames = s.frames
<1>1. Sound(s, D)
  BY DEF Tame
<1>2. s \in Sessions
  BY ONLY <1>1, SoundParts
<1>3. Done(s).done /\ ~Refused(s).done
  BY <1>2 DEF Done, Refused, Sessions
<1>4. /\ r \in Sessions /\ r.cwd = s.cwd /\ r.disk = s.disk /\ r.passed = s.passed
      /\ r.open = s.open /\ r.frames = s.frames
  BY <1>2 DEF Done, Refused, Sessions
<1>5. r.done = (r = Done(s))
  <2>1. CASE r = Done(s)
    BY <2>1, <1>2 DEF Done, Sessions
  <2>2. CASE r # Done(s)
    BY <2>2, <1>2, <1>3 DEF Refused, Sessions
  <2> QED BY <2>1, <2>2
<1>6. Tame(r, D)
  BY <1>1, <1>4 DEF Tame, Sound
<1> QED BY <1>4, <1>5, <1>6

LEMMA ReadsTame ==
  ASSUME NEW D, NEW s, s.cwd # Root, NEW r, Reads(r, s, D)
  PROVE  Tame(r, D)
BY DEF Reads, Tame, Idle

\* A statement that only read.
LEMMA ReadOnly ==
  ASSUME NEW s, NEW D, NEW decls, Working(s, D, decls), NEW q, Tame(q, D),
         q.cwd = s.cwd, q.disk = s.disk, q.passed = s.passed, NEW r \in {Done(q), Refused(q)}
  PROVE  Leaves(r, s, D, decls)
<1>1. Tame(r, D) /\ r.cwd = s.cwd /\ r.disk = s.disk /\ r.passed = s.passed
  BY Answered
<1> QED BY <1>1 DEF Leaves, Working

LEMMA AfterReading ==
  ASSUME NEW s, NEW D, NEW decls, Working(s, D, decls)
  PROVE  \A q : Tame(q, D) /\ q.cwd = s.cwd /\ q.disk = s.disk /\ q.passed = s.passed =>
           /\ Leaves(Refused(q), s, D, decls) /\ Refused(q).cwd = s.cwd /\ ~Refused(q).done
           /\ Leaves(Done(q), s, D, decls) /\ Done(q).cwd = s.cwd /\ Done(q).done
<1> SUFFICES ASSUME NEW q, Tame(q, D), q.cwd = s.cwd, q.disk = s.disk, q.passed = s.passed
             PROVE  /\ Leaves(Refused(q), s, D, decls) /\ Refused(q).cwd = s.cwd /\ ~Refused(q).done
                    /\ Leaves(Done(q), s, D, decls) /\ Done(q).cwd = s.cwd /\ Done(q).done
  OBVIOUS
<1>1. Leaves(Refused(q), s, D, decls) /\ Leaves(Done(q), s, D, decls)
  BY ReadOnly
<1>2. q \in Sessions
  BY SoundParts DEF Tame
<1> QED BY <1>1, <1>2 DEF Refused, Done, Sessions

\* The list of tables was read and stays open.
LEMMA ListReadTame ==
  ASSUME NEW s, NEW D, NEW decls, Working(s, D, decls), Opens(s, TableList)
  PROVE  LET g == GetPage(OpenFile(s, TableList), TableList, 0)
             c == CloseFile(g, TableList)
         IN  /\ Tame(g, D) /\ g.cwd = s.cwd /\ g.disk = s.disk /\ g.passed = s.passed
             /\ Reads(c, c, D) /\ c.cwd = s.cwd /\ c.disk = s.disk /\ c.passed = s.passed
             /\ ListSeen(OpenFile(s, TableList), TableList) = ListOn(s.disk, s.cwd)
             /\ ListSeen(g, TableList) = ListOn(s.disk, s.cwd)
             /\ HasList(s.disk, s.cwd)
<1> DEFINE g == GetPage(OpenFile(s, TableList), TableList, 0)
           c == CloseFile(g, TableList)
<1>1. /\ Sound(s, D) /\ Sole(s.open, s.frames) /\ s.cwd # Root
      /\ Fresh(s.open, s.frames, s.disk, s.cwd, D)
  BY SessionAssumption DEF Working, Tame
<1>2. /\ ListSeen(OpenFile(s, TableList), TableList) = ListOn(s.disk, s.cwd)
      /\ Sound(g, D) /\ Sole(g.open, g.frames) /\ HasList(s.disk, s.cwd)
      /\ g.cwd = s.cwd /\ g.disk = s.disk /\ g.passed = s.passed /\ g.done = s.done
      /\ \A m \in FileNames \ {TableList} : g.open[m] = s.open[m]
      /\ g.open[TableList] # None
      /\ \A m : m # TableList /\ NoFrames(s.frames, m) => NoFrames(g.frames, m)
  BY <1>1, ListRead
<1> HIDE DEF g
<1>3. Sound(c, D) /\ ButOpen(c, g) /\ c.open = [g.open EXCEPT ![TableList] = None]
  BY <1>2, CloseFileSound, NamesDiffer
<1>4. g.open \in [FileNames -> OpenFiles \cup {None}]
  BY ONLY <1>2, SoundParts
<1>5. Sole(c.open, g.frames)
  BY <1>2, <1>3, <1>4, ListClosed
<1> HIDE DEF c
<1>6. /\ c.frames = g.frames /\ c.cwd = s.cwd /\ c.disk = s.disk /\ c.passed = s.passed
      /\ c.open[TableList] = None /\ \A m \in FileNames \ {TableList} : c.open[m] = s.open[m]
  BY <1>2, <1>3, <1>4, NamesDiffer DEF ButOpen
<1>7. \A x \in Tables : \A n \in {Meta(x), Data(x)} : n \in FileNames \ {TableList}
  BY NamesDiffer DEF FilesOf
<1>8. Fresh(g.open, g.frames, s.disk, s.cwd, D)
  BY <1>1, <1>2, <1>7, FreshKept
<1>9. Fresh(c.open, c.frames, s.disk, s.cwd, D)
  BY <1>1, <1>2, <1>6, <1>7, FreshKept
<1>10. Tame(g, D)
  BY <1>1, <1>2, <1>8 DEF Tame, Idle
<1>11. Reads(c, c, D)
  BY <1>3, <1>5, <1>6, <1>9 DEF Reads
<1>12. ListSeen(g, TableList) = ListOn(s.disk, s.cwd)
  <2>1. CanGet(g, D, TableList, 0)
    BY <1>1, <1>2, NamesDiffer, SessionAssumption DEF CanGet, Page
  <2>2. Seen(g, TableList, 0) = g.disk[g.cwd][TableList][0]
    BY <2>1, GetPageSound, NamesDiffer
  <2> QED BY <1>2, <2>2 DEF ListSeen, ListOn
<1> QED BY <1>2, <1>6, <1>10, <1>11, <1>12 DEF g, c

\* Declarations of the tables of databases H.
Told(H) == [H -> [Tables -> Declarations \cup {None}]]

\* The list is written last.
LEMMA TableMade ==
  ASSUME NEW D, NEW q, Reads(q, q, D), NEW H \in SUBSET Dbs, NEW decls \in Told(H), DiskRight(q.disk, decls),
         q.cwd \in H, HasList(q.disk, q.cwd), q.passed = {q.disk}, D \cap Listed(q.disk, q.cwd) = {},
         Len(ListOn(q.disk, q.cwd)) # MaxTables,
         NEW t \in Tables, t \notin D, t \notin Listed(q.disk, q.cwd), NEW decl \in Declarations
  PROVE  LET r     == TableListed(DataWritten(MetaWritten(q, t, decl), t, decl), t)
             after == [decls EXCEPT ![q.cwd][t] = decl]
         IN  /\ Tame(r, D) /\ \A k \in r.passed : DiskRight(k, after)
             /\ r.cwd = q.cwd /\ D \cap Listed(r.disk, r.cwd) = {}
<1> DEFINE d     == q.cwd
           after == [decls EXCEPT ![q.cwd][t] = decl]
           m     == MetaWritten(q, t, decl)
           w     == DataWritten(m, t, decl)
           r     == TableListed(w, t)
           names == ListOn(q.disk, d)
<1>1. /\ Sound(q, D) /\ Sole(q.open, q.frames) /\ Fresh(q.open, q.frames, q.disk, d, D)
      /\ q.cwd # Root
  BY SessionAssumption DEF Reads
<1>2. /\ Meta(t) \in FileNames \ FilesOf(D) /\ Data(t) \in FileNames \ FilesOf(D)
      /\ Meta(t) \notin {DatabaseList, TableList} /\ Data(t) \notin {DatabaseList, TableList}
      /\ Meta(t) # Data(t)
  BY FilesKept
<1>3. \A n \in {Meta(t), Data(t)} : q.open[n] = None /\ NoFrames(q.frames, n)
  BY <1>1 DEF Fresh
<1>4. /\ q.disk \in Disk /\ q.disk[d] # None
  BY ONLY <1>1, SoundParts
<1>5. /\ after[d][t] = decl
      /\ \A e \in H, u \in Tables : e # d \/ u # t => after[e][u] = decls[e][u]
      /\ DOMAIN after = H /\ DOMAIN decls = H
  BY DEF Told
<1>6. DiskRight(q.disk, after)
  <2>1. \A e \in Dbs \cap DOMAIN decls : \A u \in Listed(q.disk, e) : after[e][u] = decls[e][u]
    BY <1>5, ListedParts
  <2> HIDE DEF after
  <2> QED BY <1>5, <2>1, OtherDeclarations
<1> HIDE DEF after
<1>7. Written(m, q, D, Meta(t)) /\ m.disk[d][Meta(t)][0] = InfoOf(decl)
      /\ \A k \in DOMAIN decl.cons : m.disk[d][Meta(t)][k] = decl.cons[k]
  <2>1. Writable(q, D, Meta(t))
    BY <1>1, <1>2, <1>3 DEF Writable
  <2> QED BY <2>1, MetaWrittenSound
<1> HIDE DEF m
<1>8. Sound(m, D) /\ m.cwd = d /\ m.frames = q.frames /\ m.open = q.open
      /\ OnlyFile(m.passed, q, Meta(t))
  BY <1>7 DEF Written
<1>9. PICK x \in File : m.disk = Put(q.disk, d, Meta(t), x)
  BY <1>7 DEF Written
<1>10. /\ m.disk \in Disk /\ DiskRight(m.disk, after) /\ m.disk[d] # None /\ m.disk[d][Meta(t)] = x
       /\ \A e \in Dbs : Listed(m.disk, e) = Listed(q.disk, e) /\ HasList(m.disk, e) = HasList(q.disk, e)
       /\ ListOn(m.disk, d) = names
  <2>1. x \in File \cup {None} /\ Meta(t) \in {Meta(t), Data(t)}
    OBVIOUS
  <2> HIDE DEF d
  <2> QED BY <1>4, <1>6, <1>9, <2>1, UnlistedPut DEF d
<1>11. \A k \in m.passed : DiskRight(k, after)
  <2>1. \A y \in File : DiskRight(Put(q.disk, d, Meta(t), y), after)
    BY <1>4, <1>6, UnlistedPut
  <2> QED BY <1>6, <1>8, <2>1 DEF OnlyFile
<1>12. Written(w, m, D, Data(t)) /\ w.disk[d][Data(t)][0] = RecordHeader(decl)
  <2>1. Writable(m, D, Data(t))
    BY <1>1, <1>2, <1>3, <1>8 DEF Writable
  <2> QED BY <1>8, <2>1, DataWrittenSound
<1> HIDE DEF w
<1>13. Sound(w, D) /\ w.cwd = d /\ w.frames = q.frames /\ w.open = q.open
       /\ OnlyFile(w.passed, m, Data(t))
  BY <1>8, <1>12 DEF Written
<1>14. PICK y \in File : w.disk = Put(m.disk, d, Data(t), y)
  BY <1>8, <1>12 DEF Written
<1>15. /\ w.disk \in Disk /\ DiskRight(w.disk, after) /\ w.disk[d] # None /\ w.disk[d][Data(t)] = y
       /\ \A n \in FileNames \ {Data(t)} : w.disk[d][n] = m.disk[d][n]
       /\ \A e \in Dbs : Listed(w.disk, e) = Listed(q.disk, e) /\ HasList(w.disk, e) = HasList(q.disk, e)
       /\ ListOn(w.disk, d) = names
  <2>1. t \notin Listed(m.disk, d) /\ y \in File \cup {None} /\ Data(t) \in {Meta(t), Data(t)}
    BY <1>10
  <2>2. LET k == Put(m.disk, d, Data(t), y)
        IN  /\ k \in Disk /\ DiskRight(k, after) /\ k[d] # None /\ k[d][Data(t)] = y
            /\ \A n \in FileNames \ {Data(t)} : k[d][n] = m.disk[d][n]
            /\ \A e \in Dbs : Listed(k, e) = Listed(m.disk, e) /\ HasList(k, e) = HasList(m.disk, e)
            /\ ListOn(k, d) = ListOn(m.disk, d)
    BY <1>10, <2>1, UnlistedPut
  <2> HIDE DEF d, names
  <2> QED BY <1>10, <1>14, <2>2
<1>16. \A k \in w.passed : DiskRight(k, after)
  <2>1. \A z \in File : DiskRight(Put(m.disk, d, Data(t), z), after)
    <3>1. t \notin Listed(m.disk, d)
      BY <1>10
    <3> QED BY <1>10, <3>1, UnlistedPut
  <2> QED BY <1>8, <1>11, <1>13, <2>1 DEF OnlyFile
<1>17. Described(w.disk[d], t, decl)
  <2>1. w.disk[d][Meta(t)] = m.disk[d][Meta(t)] /\ x # None /\ y # None
    BY <1>2, <1>15, NoneAssumption
  <2> QED BY <1>7, <1>10, <1>12, <1>15, <2>1 DEF Described
<1>18. NamesRight(names, Tables, MaxTables) /\ ToSet(names) = Listed(q.disk, d)
  BY DEF DiskRight, ListsRight, Listed, ListOn
<1> DEFINE more == Append(names, t)
           v == ListPage(more)
<1>19. NamesRight(more, Tables, MaxTables) /\ ToSet(more) = Listed(q.disk, d) \cup {t}
  <2>1. Len(names) # MaxTables /\ t \notin ToSet(names) /\ MaxTables \in Nat
    BY <1>18, SystemAssumption
  <2> HIDE DEF names
  <2>2. NamesRight(more, Tables, MaxTables) /\ ToSet(more) = ToSet(names) \cup {t}
    BY ONLY <1>18, <2>1, t \in Tables, NamesAppended
  <2> QED BY <1>18, <2>2
<1> HIDE DEF more
<1>20. v \in Content /\ ListIn(v) = more
  BY <1>19 DEF NamesRight, ListPage, ListIn, Content, Lists
<1>21. Opens(w, TableList) /\ Sole(w.open, w.frames) /\ w.cwd # Root
  BY <1>1, <1>13, <1>15 DEF Opens, HasList
<1>22. ListSeen(OpenFile(w, TableList), TableList) = names
  BY <1>13, <1>15, <1>21, ListRead
<1> DEFINE z  == [w.disk[w.cwd][TableList] EXCEPT ![0] = v]
           dk == Put(w.disk, w.cwd, TableList, z)
           b  == CloseFile(Stored(OpenFile(w, TableList), TableList, 0, v), TableList)
<1>23. r = b
  BY <1>22 DEF TableListed, more
<1> HIDE DEF r, v
<1>24. /\ Sound(b, D) /\ NoFrames(b.frames, TableList)
       /\ b.cwd = w.cwd /\ b.disk = dk /\ b.passed = w.passed \cup {dk} /\ b.done = w.done
       /\ b.open[TableList] = None
       /\ \A n \in FileNames \ {TableList} : b.open[n] = w.open[n]
       /\ \A n : NoFrames(w.frames, n) => NoFrames(b.frames, n)
       /\ z \in File /\ z[0] = v
  BY ONLY <1>13, <1>20, <1>21, ListStored
<1> HIDE DEF z, b
<1>25. /\ DiskRight(dk, after) /\ Listed(dk, d) = Listed(q.disk, d) \cup {t}
  <2>1. \A u \in ToSet(more) : after[d][u] \in Declarations /\ Described(w.disk[d], u, after[d][u])
    BY <1>5, <1>15, <1>17, <1>19, ListedParts
  <2>2. dk = Put(w.disk, d, TableList, z) /\ ListIn(z[0]) = more /\ d \in Dbs
    BY <1>13, <1>20, <1>24
  <2> HIDE DEF dk, d
  <2> QED BY <1>15, <1>19, <1>24, <2>1, <2>2, ListPut
<1> HIDE DEF dk
<1>26. \A k \in r.passed : DiskRight(k, after)
  BY <1>16, <1>23, <1>24, <1>25
<1>27. Sole(r.open, r.frames) /\ Idle(r.open, r.cwd)
  BY <1>1, <1>13, <1>23, <1>24 DEF Sole, ListLow, NoFrames, Idle
<1>28. Fresh(r.open, r.frames, r.disk, r.cwd, D)
  <2>1. ASSUME NEW u \in Tables \ (Listed(r.disk, r.cwd) \cup D), NEW n \in {Meta(u), Data(u)}
        PROVE  r.open[n] = None /\ NoFrames(r.frames, n)
    <3>1. u \in Tables \ (Listed(q.disk, d) \cup D) /\ n \in FileNames \ {TableList}
      BY <1>13, <1>23, <1>24, <1>25, NamesDiffer DEF FilesOf
    <3>2. q.open[n] = None /\ NoFrames(q.frames, n)
      BY <1>1, <3>1 DEF Fresh
    <3> QED BY <3>1, <3>2, <1>13, <1>23, <1>24
  <2> QED BY <2>1 DEF Fresh
<1>29. Tame(r, D)
  BY <1>23, <1>24, <1>27, <1>28 DEF Tame
<1>30. r.cwd = d /\ D \cap Listed(r.disk, r.cwd) = {}
  BY <1>13, <1>23, <1>24, <1>25
<1> QED BY <1>26, <1>29, <1>30 DEF after, r, w, m

LEMMA CreateTableSound ==
  ASSUME NEW s, NEW D, NEW H \in SUBSET Dbs, NEW decls \in Told(H), Working(s, D, decls),
         NEW t \in Tables, t \notin D, NEW decl \in Declarations
  PROVE  LET r == CreateTable(s, t, decl)
         IN  /\ Leaves(r, s, D, IF r.done THEN [decls EXCEPT ![s.cwd][t] = decl] ELSE decls)
             /\ r.cwd = s.cwd
<1> DEFINE a == GetPage(OpenFile(s, TableList), TableList, 0)
           names == ListSeen(OpenFile(s, TableList), TableList)
           seen == ListSeen(a, TableList)
           c == CloseFile(a, TableList)
           b == Checked(c, decl)
           made == TableListed(DataWritten(MetaWritten(b.s, t, decl), t, decl), t)
           after == [decls EXCEPT ![s.cwd][t] = decl]
           r == CreateTable(s, t, decl)
           Good == Leaves(r, s, D, IF r.done THEN after ELSE decls) /\ r.cwd = s.cwd
<1> SUFFICES Good
  BY DEF Good, r, after
<1>1. /\ Tame(s, D) /\ DiskRight(s.disk, decls) /\ s.cwd \in Dbs \cap DOMAIN decls /\ s.cwd # Root
      /\ D \cap Listed(s.disk, s.cwd) = {} /\ s.passed = {s.disk}
  BY SessionAssumption DEF Working
<1>2. \A q : Tame(q, D) /\ q.cwd = s.cwd /\ q.disk = s.disk /\ q.passed = s.passed =>
        Leaves(Refused(q), s, D, decls) /\ Refused(q).cwd = s.cwd /\ ~Refused(q).done
  BY AfterReading
<1>3. CASE ~Opens(s, TableList)
  <2>1. r = Refused(s)
    BY <1>3 DEF CreateTable
  <2> HIDE DEF r, after
  <2> QED BY <1>1, <1>2, <2>1 DEF Working, Good
<1>4. CASE Opens(s, TableList)
  <2>1. /\ Tame(a, D) /\ a.cwd = s.cwd /\ a.disk = s.disk /\ a.passed = s.passed
        /\ Reads(c, c, D) /\ c.cwd = s.cwd /\ c.disk = s.disk /\ c.passed = s.passed
        /\ seen = ListOn(s.disk, s.cwd) /\ HasList(s.disk, s.cwd)
    BY <1>4, ListReadTame
  <2>2. r = IF t \in ToSet(seen) \/ Len(seen) = MaxTables THEN Refused(a)
            ELSE IF ~b.ok THEN Refused(b.s) ELSE Done(made)
    BY <1>4 DEF CreateTable
  <2>3. ToSet(seen) = Listed(s.disk, s.cwd)
    BY <2>1 DEF Listed, ListOn
  <2> HIDE DEF a, seen, r, after
  <2>4. CASE t \in ToSet(seen) \/ Len(seen) = MaxTables
    BY <1>2, <2>1, <2>2, <2>4 DEF Good
  <2>5. CASE t \notin ToSet(seen) /\ Len(seen) # MaxTables
    <3>1. Reads(b.s, c, D)
      BY <1>1, <2>1, CheckedSound
    <3> HIDE DEF c
    <3> DEFINE q == b.s
    <3>2. Reads(q, q, D) /\ q.cwd = s.cwd /\ q.disk = s.disk /\ q.passed = s.passed
      BY <2>1, <3>1 DEF Reads
    <3>3. Tame(q, D)
      BY <1>1, <3>2, ReadsTame
    <3> HIDE DEF b
    <3>4. CASE ~b.ok
      BY <1>2, <2>2, <2>5, <3>2, <3>3, <3>4 DEF Good
    <3>5. CASE b.ok
      <4>1. r = Done(made)
        BY <2>2, <2>5, <3>5
      <4> HIDE DEF q
      <4>2. made = TableListed(DataWritten(MetaWritten(q, t, decl), t, decl), t)
        BY DEF q
      <4>3. /\ DiskRight(q.disk, decls) /\ q.cwd \in H /\ HasList(q.disk, q.cwd)
            /\ q.passed = {q.disk} /\ D \cap Listed(q.disk, q.cwd) = {}
            /\ Len(ListOn(q.disk, q.cwd)) # MaxTables /\ t \notin Listed(q.disk, q.cwd)
        <5>1. DOMAIN decls = H
          BY DEF Told
        <5> QED BY <1>1, <2>1, <2>3, <2>5, <3>2, <5>1
      <4> HIDE DEF made
      <4> DEFINE told == [decls EXCEPT ![q.cwd][t] = decl]
      <4>4. /\ Tame(made, D) /\ \A k \in made.passed : DiskRight(k, told)
            /\ made.cwd = q.cwd /\ D \cap Listed(made.disk, made.cwd) = {}
        BY <3>2, <4>2, <4>3, TableMade
      <4>5. told = after
        BY <3>2 DEF after
      <4> HIDE DEF told
      <4>6. /\ Tame(r, D) /\ r.done /\ r.cwd = s.cwd /\ r.disk = made.disk /\ r.passed = made.passed
        <5>1. r \in {Done(made), Refused(made)}
          BY <4>1
        <5>2. /\ Tame(r, D) /\ r.done = (r = Done(made))
              /\ r.cwd = made.cwd /\ r.disk = made.disk /\ r.passed = made.passed
              /\ r.open = made.open /\ r.frames = made.frames
          BY ONLY <4>4, <5>1, Answered
        <5> QED BY <3>2, <4>1, <4>4, <5>2
      <4>7. Leaves(r, s, D, after)
        BY <3>2, <4>4, <4>5, <4>6 DEF Leaves
      <4> QED BY <4>6, <4>7 DEF Good
    <3> QED BY <3>4, <3>5
  <2> QED BY <2>4, <2>5
<1> QED BY <1>3, <1>4

-----------------------------------------------------------------------------
(* DROP TABLE.                                                              *)

\* Of more tables nothing is said.
LEMMA MoreDropped ==
  ASSUME NEW s, NEW D, Sound(s, D), NEW E, D \subseteq E
  PROVE  Sound(s, E)
<1>1. FilesOf(D) \subseteq FilesOf(E)
  BY DEF FilesOf
<1> QED BY <1>1 DEF Sound, OpensRight, FramesRight, FrameRight

\* The two files of a table that has been taken off the list.
LEMMA FilesDeleted ==
  ASSUME NEW E, NEW c, Sound(c, E), c.cwd \in Dbs, NEW t \in Tables, t \in E,
         NEW decls, DiskRight(c.disk, decls), t \notin Listed(c.disk, c.cwd),
         \A k \in c.passed : DiskRight(k, decls)
  PROVE  LET x == DeleteFile(DeleteFile(c, Meta(t)), Data(t))
         IN  /\ Sound(x, E) /\ x.cwd = c.cwd /\ x.frames = c.frames /\ x.done = c.done
             /\ \A m \in FileNames \ {Meta(t), Data(t)} : x.open[m] = c.open[m]
             /\ \A k \in x.passed : DiskRight(k, decls)
             /\ Listed(x.disk, x.cwd) = Listed(c.disk, c.cwd)
<1> DEFINE y == DeleteFile(c, Meta(t))
           x == DeleteFile(y, Data(t))
           dk1 == Put(c.disk, c.cwd, Meta(t), None)
           dk2 == Put(y.disk, y.cwd, Data(t), None)
<1>1. /\ Meta(t) \in FileNames \cap FilesOf(E) /\ Data(t) \in FileNames \cap FilesOf(E)
      /\ c.cwd # Root /\ None \in File \cup {None}
  BY NamesDiffer, SessionAssumption DEF FilesOf
<1>2. /\ Sound(y, E) /\ y.cwd = c.cwd /\ y.frames = c.frames /\ y.done = c.done
      /\ y.disk = dk1 /\ y.passed = c.passed \cup {dk1}
      /\ \A m \in FileNames \ {Meta(t)} : y.open[m] = c.open[m]
  BY <1>1, DeleteFileSound
<1>3. c.disk \in Disk /\ c.disk[c.cwd] # None
  BY ONLY Sound(c, E), SoundParts
<1>4. dk1 \in Disk /\ DiskRight(dk1, decls) /\ dk1[c.cwd] # None
      /\ \A e \in Dbs : Listed(dk1, e) = Listed(c.disk, e) /\ HasList(dk1, e) = HasList(c.disk, e)
  BY <1>1, <1>3, UnlistedPut
<1> HIDE DEF y, dk1
<1>5. /\ Sound(x, E) /\ x.cwd = y.cwd /\ x.frames = y.frames /\ x.done = y.done
      /\ x.disk = dk2 /\ x.passed = y.passed \cup {dk2}
      /\ \A m \in FileNames \ {Data(t)} : x.open[m] = y.open[m]
  BY <1>1, <1>2, DeleteFileSound
<1>6. DiskRight(dk2, decls)
      /\ \A e \in Dbs : Listed(dk2, e) = Listed(dk1, e) /\ HasList(dk2, e) = HasList(dk1, e)
  <2>1. y.disk \in Disk /\ DiskRight(y.disk, decls) /\ y.disk[y.cwd] # None /\ y.cwd \in Dbs
        /\ t \notin Listed(y.disk, y.cwd)
    BY <1>2, <1>4
  <2>2. /\ dk2 \in Disk /\ DiskRight(dk2, decls) /\ dk2[y.cwd] # None
        /\ \A e \in Dbs : Listed(dk2, e) = Listed(y.disk, e) /\ HasList(dk2, e) = HasList(y.disk, e)
    BY <2>1, <1>1, UnlistedPut
  <2> QED BY <2>2, <1>2
<1> HIDE DEF x, dk2
<1>7. \A k \in x.passed : DiskRight(k, decls)
  BY <1>2, <1>4, <1>5, <1>6
<1> QED BY <1>2, <1>4, <1>5, <1>6, <1>7 DEF x, y

LEMMA DropTableSound ==
  ASSUME NEW s, NEW D, NEW decls, Working(s, D, decls), NEW t \in Tables, t \notin D
  PROVE  LET r == DropTable(s, t)
         IN  /\ Leaves(r, s, IF r.done THEN D \cup {t} ELSE D, decls)
             /\ r.cwd = s.cwd
<1> DEFINE d       == s.cwd
           a       == OpenFile(s, TableList)
           names   == ListSeen(a, TableList)
           v       == ListPage(Dropped(names, t))
           b       == CloseFile(Stored(a, TableList, 0, v), TableList)
           m       == OpenFile(b, Meta(t))
           c       == GetPage(m, Meta(t), 0)
           x       == DeleteFile(DeleteFile(c, Meta(t)), Data(t))
           E       == D \cup {t}
           r       == DropTable(s, t)
           Good == Leaves(r, s, IF r.done THEN E ELSE D, decls) /\ r.cwd = s.cwd
<1> SUFFICES Good
  BY DEF Good, r, E
<1>1. /\ Tame(s, D) /\ DiskRight(s.disk, decls) /\ s.cwd \in Dbs \cap DOMAIN decls /\ s.cwd # Root
      /\ D \cap Listed(s.disk, s.cwd) = {} /\ s.passed = {s.disk}
  BY SessionAssumption DEF Working
<1>2. \A q : Tame(q, D) /\ q.cwd = s.cwd /\ q.disk = s.disk /\ q.passed = s.passed =>
        Leaves(Refused(q), s, D, decls) /\ Refused(q).cwd = s.cwd /\ ~Refused(q).done
  BY AfterReading
<1>3. CASE ~Opens(s, TableList)
  <2>1. r = Refused(s)
    BY <1>3 DEF DropTable
  <2> HIDE DEF r
  <2> QED BY <1>1, <1>2, <2>1 DEF Good
<1>4. CASE Opens(s, TableList) /\ t \notin ToSet(names)
  <2> DEFINE g == GetPage(a, TableList, 0)
  <2>1. r = Refused(g)
    BY <1>4 DEF DropTable
  <2>2. Tame(g, D) /\ g.cwd = s.cwd /\ g.disk = s.disk /\ g.passed = s.passed
    BY <1>4, ListReadTame
  <2> HIDE DEF r, g
  <2> QED BY <1>2, <2>1, <2>2 DEF Good
<1>5. CASE Opens(s, TableList) /\ t \in ToSet(names)
  <2>1. /\ names = ListOn(s.disk, s.cwd) /\ HasList(s.disk, s.cwd)
    BY <1>5, ListReadTame
  <2>2. NamesRight(names, Tables, MaxTables) /\ ToSet(names) = Listed(s.disk, s.cwd)
    BY <1>1, <2>1 DEF DiskRight, ListsRight, Listed, ListOn
  <2> DEFINE less == Dropped(names, t)
  <2>3. NamesRight(less, Tables, MaxTables) /\ ToSet(less) = ToSet(names) \ {t}
    <3>1. MaxTables \in Nat
      BY SystemAssumption
    <3> HIDE DEF names
    <3> QED BY ONLY <1>5, <2>2, <3>1, NamesDropped
  <2> HIDE DEF less
  <2>4. v \in Content /\ ListIn(v) = less
    BY <2>3 DEF NamesRight, ListPage, ListIn, Content, Lists, less
  <2> HIDE DEF v, names
  <2> DEFINE z  == [s.disk[s.cwd][TableList] EXCEPT ![0] = v]
             dk == Put(s.disk, s.cwd, TableList, z)
  <2>5. /\ Sound(b, D) /\ NoFrames(b.frames, TableList)
        /\ b.cwd = s.cwd /\ b.disk = dk /\ b.passed = s.passed \cup {dk} /\ b.done = s.done
        /\ b.open[TableList] = None
        /\ \A n \in FileNames \ {TableList} : b.open[n] = s.open[n]
        /\ \A n : NoFrames(s.frames, n) => NoFrames(b.frames, n)
        /\ z \in File /\ z[0] = v
    <3>1. Sound(s, D) /\ Sole(s.open, s.frames) /\ s.cwd # Root
      BY <1>1 DEF Tame
    <3> QED BY ONLY <3>1, <1>5, <2>4, ListStored
  <2>6. /\ dk \in Disk /\ DiskRight(dk, decls) /\ dk[d] # None
        /\ \A n \in FileNames \ {TableList} : dk[d][n] = s.disk[d][n]
        /\ HasList(dk, d) /\ Listed(dk, d) = Listed(s.disk, d) \ {t}
    <3>1. s.disk \in Disk /\ s.disk[d] # None
      BY <1>1, SoundParts DEF Tame
    <3>2. \A u \in ToSet(less) : decls[d][u] \in Declarations /\ Described(s.disk[d], u, decls[d][u])
      BY <1>1, <2>2, <2>3, ListedParts
    <3>3. /\ dk = Put(s.disk, d, TableList, z) /\ ListIn(z[0]) = less /\ d \in Dbs
      BY <1>1, <2>4, <2>5
    <3>4. DiskRight(s.disk, decls) /\ z \in File /\ NamesRight(less, Tables, MaxTables)
      BY <1>1, <2>3, <2>5
    <3>5. ToSet(less) = Listed(s.disk, d) \ {t}
      BY <2>2, <2>3
    <3> HIDE DEF dk, d, z
    <3>6. LET k == Put(s.disk, d, TableList, z)
          IN  /\ k \in Disk /\ DiskRight(k, decls) /\ k[d] # None
              /\ \A n \in FileNames \ {TableList} : k[d][n] = s.disk[d][n]
              /\ HasList(k, d) /\ Listed(k, d) = ToSet(less)
              /\ \A e \in Dbs \ {d} : Listed(k, e) = Listed(s.disk, e)
      BY ONLY <3>1, <3>2, <3>3, <3>4, ListPut
    <3> QED BY <3>3, <3>5, <3>6
  <2> HIDE DEF b, z, dk
  <2> DEFINE decl == decls[d][t]
  <2>7. /\ Meta(t) \in FileNames \ FilesOf(D) /\ Data(t) \in FileNames \ FilesOf(D)
        /\ Meta(t) \notin {DatabaseList, TableList} /\ Data(t) \notin {DatabaseList, TableList}
        /\ Meta(t) # Data(t)
    BY FilesKept
  <2>8. decl \in Declarations /\ Described(b.disk[d], t, decl)
    <3>1. decl \in Declarations /\ Described(s.disk[d], t, decl)
      BY <1>1, <1>5, <2>2, ListedParts
    <3> HIDE DEF decl
    <3> QED BY <2>5, <2>6, <2>7, <3>1 DEF Described
  <2> HIDE DEF decl
  <2>9. Opens(b, Meta(t))
    BY <2>5, <2>8 DEF Opens, Described
  <2>10. /\ Sound(m, D) /\ ButOpen(m, b)
         /\ \A n \in FileNames \ {Meta(t)} : m.open[n] = b.open[n]
         /\ m.open[Meta(t)] # None
    BY <2>5, <2>7, <2>9, FileOpened
  <2> HIDE DEF m
  <2>11. MetaOpen(m, D, t, decl)
    BY <1>1, <2>5, <2>8, <2>10 DEF MetaOpen, ButOpen
  <2>12. CanGet(m, D, Meta(t), 0)
    BY <2>11, MetaSeen, SessionAssumption DEF Page
  <2>13. /\ Sound(c, D) /\ ButFrames(c, m)
         /\ \A n : n # Meta(t) /\ NoFrames(m.frames, n) => NoFrames(c.frames, n)
    BY <2>12, GotOthers
  <2> HIDE DEF c
  <2>14. MetaOpen(c, D, t, decl)
    BY <2>11, <2>13 DEF MetaOpen, ButFrames
  <2> DEFINE indexed == InfoSeen(c, t).indexed
             after[i \in 0 .. Len(indexed)] ==
               IF i = 0 THEN c ELSE DeleteFile(after[i - 1], IndexOf(t, indexed[i]))
  <2>15. indexed = << >>
    BY <2>8, <2>14, MetaSeen, InfoParts
  <2>16. after[Len(indexed)] = c
    <3> HIDE DEF indexed
    <3> DEFINE f == [i \in 0 .. Len(indexed) |-> c]
    <3>1. 0 .. Len(indexed) = {0} /\ Len(indexed) = 0
      BY <2>15
    <3>2. f = [i \in 0 .. Len(indexed) |-> IF i = 0 THEN c ELSE DeleteFile(f[i - 1], IndexOf(t, indexed[i]))]
      BY <3>1
    <3> HIDE DEF f
    <3>3. after = [i \in 0 .. Len(indexed) |-> IF i = 0 THEN c ELSE DeleteFile(after[i - 1], IndexOf(t, indexed[i]))]
      BY <3>2
    <3> HIDE DEF after
    <3> QED BY <3>1, <3>3
  <2>17. r = Done(x)
    <3>1. r = Done(DeleteFile(DeleteFile(after[Len(indexed)], Meta(t)), Data(t)))
      BY <1>5, <2>9 DEF DropTable, v, names, b, m, c
    <3> HIDE DEF after, indexed
    <3> QED BY <2>16, <3>1
  <2> HIDE DEF r, indexed, after
  <2>18. /\ c.cwd = d /\ c.disk = dk /\ c.passed = s.passed \cup {dk}
         /\ c.open[TableList] = None /\ NoFrames(c.frames, TableList)
         /\ \A n \in FileNames \ {TableList, Meta(t)} : c.open[n] = s.open[n]
         /\ \A n : n # Meta(t) /\ NoFrames(s.frames, n) => NoFrames(c.frames, n)
    BY <2>5, <2>7, <2>10, <2>13, NamesDiffer DEF ButOpen, ButFrames
  <2>19. /\ Sound(c, E) /\ \A k \in c.passed : DiskRight(k, decls)
         /\ t \notin Listed(c.disk, c.cwd) /\ DiskRight(c.disk, decls) /\ c.cwd \in Dbs /\ t \in E
    BY <1>1, <2>6, <2>13, <2>18, MoreDropped
  <2>20. /\ Sound(x, E) /\ x.cwd = c.cwd /\ x.frames = c.frames /\ x.done = c.done
         /\ \A n \in FileNames \ {Meta(t), Data(t)} : x.open[n] = c.open[n]
         /\ \A k \in x.passed : DiskRight(k, decls)
         /\ Listed(x.disk, x.cwd) = Listed(c.disk, c.cwd)
    BY <2>19, FilesDeleted
  <2> HIDE DEF x
  <2>21. Sole(x.open, x.frames) /\ Idle(x.open, x.cwd)
    BY <1>1, <2>7, <2>18, <2>20, NamesDiffer DEF Sole, ListLow, NoFrames, Idle
  <2>22. Fresh(x.open, x.frames, x.disk, x.cwd, E)
    <3>1. ASSUME NEW u \in Tables \ (Listed(x.disk, x.cwd) \cup E), NEW n \in {Meta(u), Data(u)}
          PROVE  x.open[n] = None /\ NoFrames(x.frames, n)
      <4>1. u \in Tables \ (Listed(s.disk, d) \cup D) /\ u # t
        BY <2>6, <2>18, <2>20, <3>1
      <4>2. n \in FileNames \ {TableList, Meta(t), Data(t)}
        BY <4>1, NamesDiffer DEF FilesOf
      <4>3. s.open[n] = None /\ NoFrames(s.frames, n)
        BY <1>1, <4>1 DEF Tame, Fresh
      <4> QED BY <4>2, <4>3, <2>18, <2>20
    <3> QED BY <3>1 DEF Fresh
  <2>23. Tame(x, E)
    BY <2>20, <2>21, <2>22 DEF Tame
  <2>24. E \cap Listed(x.disk, x.cwd) = {}
    BY <1>1, <2>6, <2>18, <2>20
  <2>25. /\ Tame(r, E) /\ r.done = (r = Done(x))
         /\ r.cwd = x.cwd /\ r.disk = x.disk /\ r.passed = x.passed
         /\ r.open = x.open /\ r.frames = x.frames
    <3>1. r \in {Done(x), Refused(x)}
      BY <2>17
    <3> QED BY ONLY <2>23, <3>1, Answered
  <2>26. r.done /\ r.cwd = s.cwd
    BY <2>17, <2>18, <2>20, <2>25
  <2>27. Leaves(r, s, E, decls)
    BY <2>20, <2>24, <2>25, <2>26 DEF Leaves
  <2> QED BY <2>26, <2>27 DEF Good
<1> QED BY <1>3, <1>4, <1>5

-----------------------------------------------------------------------------
(* Statements that read.                                                    *)

\* r is s for the next statement.
Kept(r, s, D, decls) ==
  Working(r, D, decls) /\ r.cwd = s.cwd /\ r.disk = s.disk /\ r.passed = s.passed

LEMMA KeptAnswer ==
  ASSUME NEW s, NEW D, NEW decls, Working(s, D, decls), NEW q, Tame(q, D),
         q.cwd = s.cwd, q.disk = s.disk, q.passed = s.passed
  PROVE  Kept(Done(q), s, D, decls) /\ Kept(Refused(q), s, D, decls)
<1>1. ASSUME NEW r \in {Done(q), Refused(q)} PROVE Kept(r, s, D, decls)
  <2>1. Tame(r, D) /\ r.cwd = s.cwd /\ r.disk = s.disk /\ r.passed = s.passed
    BY Answered
  <2> QED BY <2>1 DEF Kept, Working
<1> QED BY <1>1

LEMMA KeptLeaves ==
  ASSUME NEW s, NEW D, NEW decls, NEW r, Kept(r, s, D, decls)
  PROVE  Leaves(r, s, D, decls) /\ r.cwd = s.cwd
BY DEF Kept, Leaves, Working

\* No frame is dirty: close writes nothing and leaves no frame.
LEMMA CloseAllSound ==
  ASSUME NEW s, NEW D, Sound(s, D)
  PROVE  LET r == CloseAll(s)
         IN  Sound(r, D) /\ ButFrames(r, s) /\ r.frames = << >>
<1> DEFINE n    == Len(s.frames)
           base == [s EXCEPT !.frames = << >>]
           after[i \in 0 .. n] ==
             IF i = 0 THEN base
             ELSE LET f == s.frames[(n + 1) - i]
                  IN  IF f.dirty THEN WritePage(after[i - 1], f.id, f.page, f.data) ELSE after[i - 1]
<1>1. s.frames \in Seq(Frames) /\ FramesRight(s.frames, s.disk, s.cwd, D) /\ n \in Nat
  <2>1. s.frames \in Seq(Frames) /\ FramesRight(s.frames, s.disk, s.cwd, D)
    BY SoundParts
  <2> QED BY <2>1
<1>2. \A i \in 0 .. n : i # 0 => ~ s.frames[(n + 1) - i].dirty
  BY <1>1 DEF FramesRight, FrameRight
<1> HIDE DEF n, base
<1> DEFINE g == [i \in 0 .. n |-> base]
<1>3. g = [i \in 0 .. n |->
             IF i = 0 THEN base
             ELSE LET f == s.frames[(n + 1) - i]
                  IN  IF f.dirty THEN WritePage(g[i - 1], f.id, f.page, f.data) ELSE g[i - 1]]
  <2>1. \A i \in 0 .. n : g[i] = base /\ (i # 0 => i - 1 \in 0 .. n /\ g[i - 1] = base)
    BY <1>1
  <2>2. g = [i \in 0 .. n |-> g[i]]
    OBVIOUS
  <2> HIDE DEF g
  <2> QED BY <1>2, <2>1, <2>2
<1> HIDE DEF g
<1>4. after = [i \in 0 .. n |->
                 IF i = 0 THEN base
                 ELSE LET f == s.frames[(n + 1) - i]
                      IN  IF f.dirty THEN WritePage(after[i - 1], f.id, f.page, f.data) ELSE after[i - 1]]
  BY <1>3
<1> HIDE DEF after
<1> DEFINE T == {l \in 0 .. n : after[l] = base}
<1>5. \A l \in 0 .. n : l \in T
  <2>1. 0 \in T
    BY <1>1, <1>4
  <2>2. ASSUME NEW l \in 1 .. n, l - 1 \in T PROVE l \in T
    <3>1. l \in 0 .. n /\ l # 0 /\ ~ s.frames[(n + 1) - l].dirty
      BY <1>1, <1>2
    <3> QED BY <1>4, <2>2, <3>1
  <2> HIDE DEF T
  <2> QED BY <1>1, <2>1, <2>2, Throughout
<1>6. CloseAll(s) = base
  <2>1. CloseAll(s) = after[n]
    BY DEF CloseAll, after, n, base
  <2> QED BY <1>1, <1>5, <2>1
<1>7. base = [s EXCEPT !.frames = << >>]
  BY DEF base
<1>8. << >> \in Seq(Frames) /\ FramesRight(<< >>, s.disk, s.cwd, D)
  BY DEF FramesRight
<1> DEFINE fr == << >>
<1>9. /\ fr \in Seq(Frames) /\ FramesRight(fr, s.disk, s.cwd, D) /\ base = [s EXCEPT !.frames = fr]
  BY <1>7, <1>8
<1> HIDE DEF fr
<1>10. Sound(base, D) /\ base.frames = fr /\ ButFrames(base, s)
  BY ONLY Sound(s, D), <1>9, FramesChanged
<1> QED BY <1>6, <1>10 DEF fr

\* The destructor of a table's handle has closed the page manager.
LEMMA TableShut ==
  ASSUME NEW s, NEW D, NEW decls, Working(s, D, decls), NEW t \in Listed(s.disk, s.cwd),
         NEW q, Sound(q, D), ListLow(q.open), q.cwd = s.cwd, q.disk = s.disk, q.passed = s.passed,
         \A m \in FileNames \ {TableList, Meta(t), Data(t)} : s.open[m] = None => q.open[m] = None
  PROVE  LET r == CloseAll(q)
         IN  Tame(r, D) /\ r.cwd = s.cwd /\ r.disk = s.disk /\ r.passed = s.passed
<1> DEFINE r == CloseAll(q)
<1>1. Sound(r, D) /\ ButFrames(r, q) /\ r.frames = << >>
  BY CloseAllSound
<1> HIDE DEF r
<1>2. s.cwd \in Dbs /\ s.cwd # Root /\ Fresh(s.open, s.frames, s.disk, s.cwd, D)
  BY SessionAssumption DEF Working, Tame
<1>3. r.open = q.open /\ r.cwd = s.cwd /\ r.disk = s.disk /\ r.passed = s.passed
  BY <1>1 DEF ButFrames
<1>4. Sole(r.open, r.frames) /\ Idle(r.open, r.cwd)
  BY <1>1, <1>2, <1>3 DEF Sole, Idle
<1>5. Fresh(r.open, r.frames, s.disk, s.cwd, D)
  <2>1. ASSUME NEW u \in Tables \ (Listed(s.disk, s.cwd) \cup D), NEW n \in {Meta(u), Data(u)}
        PROVE  r.open[n] = None /\ NoFrames(r.frames, n)
    <3>1. n \in FileNames \ {TableList, Meta(t), Data(t)}
      BY <2>1, NamesDiffer DEF FilesOf
    <3>2. s.open[n] = None
      BY <1>2, <2>1 DEF Fresh
    <3> QED BY <1>1, <1>3, <3>1, <3>2 DEF NoFrames
  <2> QED BY <2>1 DEF Fresh
<1>6. Tame(r, D)
  BY <1>1, <1>3, <1>4, <1>5 DEF Tame
<1> QED BY <1>3, <1>6 DEF r

LEMMA ShowTableSound ==
  ASSUME NEW s, NEW D, NEW decls, Working(s, D, decls), Opens(s, TableList), NEW t
  PROVE  Kept(ShowTable(s, t), s, D, decls)
<1> DEFINE x == TableExist(s, t)
           a == OpenFile(x, Meta(t))
           g == GetPage(a, Meta(t), 0)
           b == PagesRead(g, Meta(t), InfoSeen(a, t).count)
           o == OpenFile(b, Data(t))
           c == GetPage(o, Data(t), 0)
           e == CloseFile(c, Meta(t))
           f == CloseFile(e, Data(t))
           q == CloseAll(f)
           r == ShowTable(s, t)
<1>1. /\ Tame(s, D) /\ DiskRight(s.disk, decls) /\ s.cwd \in Dbs \cap DOMAIN decls /\ s.cwd # Root
      /\ D \cap Listed(s.disk, s.cwd) = {} /\ Sound(s, D) /\ Sole(s.open, s.frames)
      /\ Fresh(s.open, s.frames, s.disk, s.cwd, D)
  BY SessionAssumption DEF Working, Tame
<1>2. /\ Sound(x, D) /\ NoFrames(x.frames, TableList)
      /\ x.cwd = s.cwd /\ x.disk = s.disk /\ x.passed = s.passed /\ x.done = s.done
      /\ x.open[TableList] = None
      /\ \A m \in FileNames \ {TableList} : x.open[m] = s.open[m]
      /\ \A m : NoFrames(s.frames, m) => NoFrames(x.frames, m)
  BY <1>1, TableExistSound
<1> HIDE DEF x
<1>3. CASE ~Exists(s, t)
  <2>1. r = Refused(x)
    BY <1>3 DEF ShowTable, x
  <2>2. Sole(x.open, x.frames) /\ Idle(x.open, x.cwd)
    BY <1>1, <1>2 DEF Sole, ListLow, NoFrames, Idle
  <2>3. Fresh(x.open, x.frames, x.disk, x.cwd, D)
    <3>1. \A u \in Tables : \A n \in {Meta(u), Data(u)} : n \in FileNames \ {TableList}
      BY NamesDiffer DEF FilesOf
    <3>2. Fresh(x.open, x.frames, s.disk, s.cwd, D)
      BY <1>1, <1>2, <3>1, FreshKept
    <3> QED BY <1>2, <3>2
  <2>4. Tame(x, D)
    BY <1>2, <2>2, <2>3 DEF Tame
  <2> HIDE DEF r
  <2>5. Kept(Refused(x), s, D, decls)
    BY <1>2, <2>4, KeptAnswer
  <2> QED BY <2>1, <2>5 DEF r
<1>4. CASE Exists(s, t)
  <2>1. ListSeen(OpenFile(s, TableList), TableList) = ListOn(s.disk, s.cwd) /\ HasList(s.disk, s.cwd)
    BY ListReadTame
  <2>2. t \in Listed(s.disk, s.cwd)
    BY <1>4, <2>1 DEF Exists, Listed, ListOn
  <2> DEFINE decl == decls[s.cwd][t]
  <2>3. t \in Tables /\ decl \in Declarations /\ Described(s.disk[s.cwd], t, decl) /\ t \notin D
    BY <1>1, <2>2, ListedParts
  <2> HIDE DEF decl
  <2>4. /\ Meta(t) \in FileNames \ FilesOf(D) /\ Data(t) \in FileNames \ FilesOf(D)
        /\ Meta(t) \notin {DatabaseList, TableList} /\ Data(t) \notin {DatabaseList, TableList}
        /\ Meta(t) # Data(t)
    BY <2>3, FilesKept
  <2>5. Opens(x, Meta(t))
    BY <1>2, <2>3 DEF Opens, Described
  <2>6. /\ Sound(a, D) /\ ButOpen(a, x)
        /\ \A m \in FileNames \ {Meta(t)} : a.open[m] = x.open[m]
        /\ a.open[Meta(t)] # None
    BY <1>2, <2>4, <2>5, FileOpened
  <2> HIDE DEF a
  <2>7. MetaOpen(a, D, t, decl)
    BY <1>1, <1>2, <2>3, <2>6 DEF MetaOpen, ButOpen
  <2>8. CanGet(a, D, Meta(t), 0) /\ InfoSeen(a, t).count \in Page
    BY <2>7, MetaSeen, SessionAssumption DEF Page
  <2>9. Sound(g, D) /\ ButFrames(g, a)
    BY <2>8, GotOthers
  <2> HIDE DEF g
  <2>10. Sound(b, D) /\ ButFrames(b, g)
    <3>1. g.open[Meta(t)] # None /\ g.cwd # Root
      BY <1>1, <1>2, <2>6, <2>9 DEF ButFrames, ButOpen
    <3> QED BY <2>4, <2>8, <2>9, <3>1, PagesReadSound
  <2> HIDE DEF b
  <2>11. /\ b.cwd = s.cwd /\ b.disk = s.disk /\ b.passed = s.passed /\ b.open = a.open
    BY <1>2, <2>6, <2>9, <2>10 DEF ButFrames, ButOpen
  <2>12. Opens(b, Data(t))
    BY <2>3, <2>11 DEF Opens, Described
  <2>13. /\ Sound(o, D) /\ ButOpen(o, b)
         /\ \A m \in FileNames \ {Data(t)} : o.open[m] = b.open[m]
         /\ o.open[Data(t)] # None
    BY <2>4, <2>10, <2>12, FileOpened
  <2> HIDE DEF o
  <2>14. Sound(c, D) /\ ButFrames(c, o)
    <3>1. CanGet(o, D, Data(t), 0)
      BY <1>1, <2>4, <2>11, <2>13, SessionAssumption DEF CanGet, Page, ButOpen
    <3> QED BY <3>1, GotOthers
  <2> HIDE DEF c
  <2>15. Sound(e, D) /\ ButOpen(e, c) /\ e.open = [c.open EXCEPT ![Meta(t)] = None]
    BY <2>4, <2>14, CloseFileSound
  <2> HIDE DEF e
  <2>16. Sound(f, D) /\ ButOpen(f, e) /\ f.open = [e.open EXCEPT ![Data(t)] = None]
    BY <2>4, <2>15, CloseFileSound
  <2>17. c.open \in [FileNames -> OpenFiles \cup {None}] /\ e.open \in [FileNames -> OpenFiles \cup {None}]
    BY ONLY <2>14, <2>15, SoundParts
  <2> HIDE DEF f
  <2>18. /\ f.cwd = s.cwd /\ f.disk = s.disk /\ f.passed = s.passed
    BY <2>11, <2>13, <2>14, <2>15, <2>16 DEF ButFrames, ButOpen
  <2>19. \A m \in FileNames \ {Meta(t), Data(t)} : f.open[m] = x.open[m]
    BY <2>6, <2>11, <2>13, <2>14, <2>15, <2>16, <2>17 DEF ButFrames
  <2>20. f.open[TableList] = None
    BY <1>2, <2>4, <2>19, NamesDiffer
  <2>21. Tame(q, D) /\ q.cwd = s.cwd /\ q.disk = s.disk /\ q.passed = s.passed
    <3>1. \A m \in FileNames \ {TableList, Meta(t), Data(t)} : s.open[m] = None => f.open[m] = None
      BY <1>2, <2>19
    <3>2. ListLow(f.open)
      BY <2>20 DEF ListLow
    <3>3. Sound(f, D)
      BY <2>16
    <3> QED BY <2>2, <2>18, <3>1, <3>2, <3>3, TableShut
  <2>22. r = Done(q)
    BY <1>4, <2>12 DEF ShowTable, q, f, e, c, o, b, g, a, x
  <2> HIDE DEF q, r
  <2>23. Kept(Done(q), s, D, decls)
    BY <2>21, KeptAnswer
  <2> QED BY <2>22, <2>23 DEF r
<1> QED BY <1>3, <1>4

LEMMA RecordStatementSound ==
  ASSUME NEW s, NEW D, NEW decls, Working(s, D, decls), NEW t \in Listed(s.disk, s.cwd)
  PROVE  Kept(RecordStatement(s, t, FALSE), s, D, decls)
<1> DEFINE m == OpenFile(s, Meta(t))
           a == GetPage(m, Meta(t), 0)
           o == OpenFile(a, Data(t))
           c == GetPage(o, Data(t), 0)
           q == CloseAll(c)
           r == RecordStatement(s, t, FALSE)
           decl == decls[s.cwd][t]
<1>1. /\ Tame(s, D) /\ DiskRight(s.disk, decls) /\ s.cwd \in Dbs \cap DOMAIN decls /\ s.cwd # Root
      /\ D \cap Listed(s.disk, s.cwd) = {} /\ Sound(s, D) /\ ListLow(s.open)
  BY SessionAssumption DEF Working, Tame, Sole
<1>2. t \in Tables /\ decl \in Declarations /\ Described(s.disk[s.cwd], t, decl) /\ t \notin D
  BY <1>1, ListedParts
<1> HIDE DEF decl
<1>3. /\ Meta(t) \in FileNames \ FilesOf(D) /\ Data(t) \in FileNames \ FilesOf(D)
      /\ Meta(t) \notin {DatabaseList, TableList} /\ Data(t) \notin {DatabaseList, TableList}
      /\ Meta(t) # Data(t)
  BY <1>2, FilesKept
<1>4. Opens(s, Meta(t))
  BY <1>2 DEF Opens, Described
<1>5. /\ Sound(m, D) /\ ButOpen(m, s)
      /\ \A n \in FileNames \ {Meta(t)} : m.open[n] = s.open[n]
      /\ m.open[Meta(t)] # None
  BY <1>1, <1>3, <1>4, FileOpened
<1>6. ListLow(m.open)
  BY <1>1, <1>3, OtherOpened
<1> HIDE DEF m
<1>7. Sound(a, D) /\ ButFrames(a, m)
  <2>1. CanGet(m, D, Meta(t), 0)
    BY <1>1, <1>3, <1>5, SessionAssumption DEF CanGet, Page, ButOpen
  <2> QED BY <2>1, GotOthers
<1> HIDE DEF a
<1>8. a.cwd = s.cwd /\ a.disk = s.disk /\ a.passed = s.passed /\ a.open = m.open
  BY <1>5, <1>7 DEF ButOpen, ButFrames
<1>9. Opens(a, Data(t))
  BY <1>2, <1>8 DEF Opens, Described
<1>10. /\ Sound(o, D) /\ ButOpen(o, a)
       /\ \A n \in FileNames \ {Data(t)} : o.open[n] = a.open[n]
       /\ o.open[Data(t)] # None
  BY <1>3, <1>7, <1>9, FileOpened
<1>11. ListLow(o.open)
  BY <1>3, <1>6, <1>7, <1>8, OtherOpened
<1> HIDE DEF o
<1>12. Sound(c, D) /\ ButFrames(c, o)
  <2>1. CanGet(o, D, Data(t), 0)
    BY <1>1, <1>3, <1>8, <1>10, SessionAssumption DEF CanGet, Page, ButOpen
  <2> QED BY <2>1, GotOthers
<1> HIDE DEF c
<1>13. c.cwd = s.cwd /\ c.disk = s.disk /\ c.passed = s.passed /\ ListLow(c.open)
  BY <1>8, <1>10, <1>11, <1>12 DEF ButOpen, ButFrames
<1>14. \A n \in FileNames \ {TableList, Meta(t), Data(t)} : s.open[n] = None => c.open[n] = None
  BY <1>5, <1>8, <1>10, <1>12 DEF ButFrames
<1>15. Tame(q, D) /\ q.cwd = s.cwd /\ q.disk = s.disk /\ q.passed = s.passed
  BY <1>12, <1>13, <1>14, TableShut
<1>16. r = Done(q)
  BY <1>4, <1>9 DEF RecordStatement, q, c, o, a, m
<1> HIDE DEF q, r
<1>17. Kept(Done(q), s, D, decls)
  BY <1>15, KeptAnswer
<1> QED BY <1>16, <1>17 DEF r

LEMMA ShowAllTableSound ==
  ASSUME NEW s, NEW D, NEW decls, Working(s, D, decls)
  PROVE  Kept(ShowAllTable(s), s, D, decls)
<1> DEFINE a     == GetPage(OpenFile(s, TableList), TableList, 0)
           names == ListSeen(a, TableList)
           N     == Len(names)
           Good  == {r \in Sessions : Kept(r, s, D, decls)}
           G     == [l \in 0 .. N |-> Good]
           step  == [l \in 1 .. N |-> [r \in Sessions |-> IF r.done THEN ShowTable(r, names[l]) ELSE r]]
           after[i \in 0 .. N] ==
             IF i = 0 THEN Done(a)
             ELSE IF after[i - 1].done THEN ShowTable(after[i - 1], names[i]) ELSE after[i - 1]
<1>1. CASE ~Opens(s, TableList)
  <2>1. ShowAllTable(s) = Refused(s)
    BY <1>1 DEF ShowAllTable
  <2>2. Kept(Refused(s), s, D, decls)
    BY KeptAnswer DEF Working
  <2> QED BY <2>1, <2>2
<1>2. CASE Opens(s, TableList)
  <2>1. /\ Tame(a, D) /\ a.cwd = s.cwd /\ a.disk = s.disk /\ a.passed = s.passed
        /\ names = ListOn(s.disk, s.cwd) /\ HasList(s.disk, s.cwd)
    BY <1>2, ListReadTame
  <2>2. Kept(Done(a), s, D, decls)
    <3> HIDE DEF a
    <3> QED BY <2>1, KeptAnswer
  <2>3. N \in Nat
    <3>1. NamesRight(names, Tables, MaxTables)
      BY <2>1 DEF Working, DiskRight, ListsRight, ListOn
    <3> HIDE DEF names
    <3> QED BY <3>1 DEF NamesRight
  <2>4. ShowAllTable(s) = after[N]
    BY <1>2 DEF ShowAllTable
  <2> HIDE DEF a, names, N
  <2>5. \A r : Kept(r, s, D, decls) => r \in Sessions
    BY SoundParts DEF Kept, Working, Tame
  <2>6. Done(a) \in Good
    BY <2>2, <2>5
  <2>7. ASSUME NEW r \in Good, NEW l \in 1 .. N
        PROVE  (IF r.done THEN ShowTable(r, names[l]) ELSE r) \in Good
    <3>1. Kept(r, s, D, decls)
      OBVIOUS
    <3>2. Working(r, D, decls) /\ r.cwd = s.cwd /\ r.disk = s.disk /\ r.passed = s.passed
      BY <3>1 DEF Kept
    <3>3. Opens(r, TableList)
      BY <2>1, <3>2 DEF Opens, HasList
    <3>4. Kept(ShowTable(r, names[l]), r, D, decls)
      BY <3>2, <3>3, ShowTableSound
    <3>5. Kept(ShowTable(r, names[l]), s, D, decls)
      BY <3>2, <3>4 DEF Kept
    <3> QED BY <2>5, <3>1, <3>5
  <2>8. Good \subseteq Sessions /\ \A r \in Good : Kept(r, s, D, decls)
    OBVIOUS
  <2> HIDE DEF Good
  <2>9. Stays(N, Sessions, G, Done(a), step)
    BY <2>3, <2>6, <2>7, <2>8 DEF Stays
  <2>10. \E f \in [0 .. N -> Sessions] :
           \A l \in 0 .. N : f[l] = (IF l = 0 THEN Done(a) ELSE step[l][f[l - 1]]) /\ f[l] \in G[l]
    <3> HIDE DEF G, step
    <3> QED BY ONLY <2>9, Stages
  <2>11. PICK f \in [0 .. N -> Sessions] :
           \A l \in 0 .. N : f[l] = (IF l = 0 THEN Done(a) ELSE step[l][f[l - 1]]) /\ f[l] \in G[l]
    BY <2>10
  <2>12. after = [i \in 0 .. N |->
                   IF i = 0 THEN Done(a)
                   ELSE IF after[i - 1].done THEN ShowTable(after[i - 1], names[i]) ELSE after[i - 1]]
    <3>1. f = [i \in 0 .. N |->
                 IF i = 0 THEN Done(a)
                 ELSE IF f[i - 1].done THEN ShowTable(f[i - 1], names[i]) ELSE f[i - 1]]
      <4>1. ASSUME NEW l \in 0 .. N, l # 0
            PROVE  step[l][f[l - 1]] = IF f[l - 1].done THEN ShowTable(f[l - 1], names[l]) ELSE f[l - 1]
        <5>1. l \in 1 .. N /\ l - 1 \in 0 .. N
          BY <2>3, <4>1
        <5> QED BY <5>1
      <4> HIDE DEF step
      <4> QED BY <4>1, <2>11
    <3> QED BY <3>1
  <2> HIDE DEF after
  <2> DEFINE T == {l \in 0 .. N : after[l] \in Good}
  <2>13. \A l \in 0 .. N : l \in T
    <3>1. 0 \in T
      BY <2>3, <2>6, <2>12
    <3>2. ASSUME NEW l \in 1 .. N, l - 1 \in T PROVE l \in T
      <4>1. l \in 0 .. N /\ l # 0
        BY <2>3
      <4> QED BY <2>7, <2>12, <3>2, <4>1
    <3> HIDE DEF T
    <3> QED BY <2>3, <3>1, <3>2, Throughout
  <2>14. Kept(after[N], s, D, decls)
    BY <2>3, <2>8, <2>13
  <2> QED BY <2>4, <2>14
<1> QED BY <1>1, <1>2

-----------------------------------------------------------------------------
(* Statements about databases, made from the root directory: no table has   *)
(* been dropped since, and nothing but the list of databases is open or in  *)
(* a frame.                                                                 *)

Quiet(s) == /\ \A n \in FileNames \ {DatabaseList} : s.open[n] = None
            /\ \A k \in DOMAIN s.frames : s.frames[k].name = DatabaseList

\* What any statement leaves behind, whatever it answers.
Left(r, D, decls) ==
  /\ Tame(r, D) /\ \A k \in r.passed : DiskRight(k, decls)
  /\ r.cwd = Root => D = {}
  /\ r.cwd # Root => r.cwd \in DOMAIN decls /\ D \cap Listed(r.disk, r.cwd) = {}

Rooted(s, decls) == Left(s, {}, decls) /\ s.cwd = Root

LEMMA NoFilesDropped == FilesOf({}) = {}
BY DEF FilesOf

LEMMA RootQuiet ==
  ASSUME NEW s, Sound(s, {}), s.cwd = Root, \A n \in FileNames \ {DatabaseList} : s.open[n] = None
  PROVE  Quiet(s)
BY NoFilesDropped DEF Sound, FramesRight, FrameRight, Quiet

LEMMA QuietTame ==
  ASSUME NEW s, Sound(s, {}), Quiet(s)
  PROVE  Tame(s, {})
<1>1. Sole(s.open, s.frames)
  BY NamesDiffer DEF Quiet, Sole, ListLow
<1>2. Idle(s.open, s.cwd)
  BY DEF Quiet, Idle
<1>3. \A t \in Tables : \A n \in {Meta(t), Data(t)} : n \in FileNames \ {DatabaseList}
  BY NamesDiffer DEF FilesOf
<1>4. Fresh(s.open, s.frames, s.disk, s.cwd, {})
  BY <1>3 DEF Quiet, Fresh, NoFrames
<1> QED BY <1>1, <1>2, <1>4 DEF Tame

\* Another directory becomes the current one, and directories of databases may
\* be made, changed or removed.
LEMMA Moved ==
  ASSUME NEW s, Sound(s, {}), Quiet(s), NEW dk \in Disk, dk[Root] = s.disk[Root],
         NEW e \in Dbs \cup {Root}, dk[e] # None, NEW passed \in SUBSET Disk, dk \in passed,
         NEW done \in BOOLEAN
  PROVE  LET r == [cwd |-> e, disk |-> dk, open |-> s.open, frames |-> s.frames,
                   passed |-> passed, done |-> done]
         IN  Sound(r, {}) /\ Quiet(r) /\ Tame(r, {})
<1> DEFINE r == [cwd |-> e, disk |-> dk, open |-> s.open, frames |-> s.frames,
                 passed |-> passed, done |-> done]
<1>1. /\ s \in Sessions /\ DatabasesRight(s.disk)
      /\ OpensRight(s.open, s.disk, s.cwd, {}) /\ IdsApart(s.open)
      /\ FramesRight(s.frames, s.disk, s.cwd, {})
      /\ s.open \in [FileNames -> OpenFiles \cup {None}] /\ s.frames \in Seq(Frames)
  BY ONLY Sound(s, {}), SoundParts
<1>2. r \in Sessions
  BY <1>1 DEF Sessions
<1>3. /\ r.cwd = e /\ r.disk = dk /\ r.open = s.open /\ r.frames = s.frames
      /\ r.passed = passed /\ r.done = done
  OBVIOUS
<1> HIDE DEF r
<1>4. Quiet(r)
  BY <1>3 DEF Quiet
<1>5. OpensRight(s.open, dk, e, {})
  <2>1. \A n \in FileNames : s.open[n] # None => n = DatabaseList
    BY DEF Quiet
  <2>2. s.open[DatabaseList] # None =>
          s.open[DatabaseList].at = Root /\ s.open[DatabaseList].gone = None
          /\ s.disk[Root] # None /\ s.disk[Root][DatabaseList] # None
    BY <1>1, NamesDiffer, NoFilesDropped DEF OpensRight, Home, Present
  <2> QED BY <2>1, <2>2 DEF OpensRight, Home, Present
<1>6. FramesRight(s.frames, dk, e, {})
  BY <1>1 DEF FramesRight, FrameRight, Quiet
<1>7. DatabasesRight(dk)
  BY <1>1 DEF DatabasesRight
<1>8. Sound(r, {})
  BY <1>1, <1>2, <1>3, <1>5, <1>6, <1>7 DEF Sound
<1> QED BY <1>4, <1>8, QuietTame DEF r

\* The directory of a database is made, or made anew without a name in its list.
LEMMA DirectoryPut ==
  ASSUME NEW dk \in Disk, NEW decls, DiskRight(dk, decls), NEW d \in Dbs \cap DOMAIN decls,
         NEW x \in Directory \cup {None},
         x # None /\ x[TableList] # None => ListIn(x[TableList][0]) = << >>
  PROVE  LET k == [dk EXCEPT ![d] = x]
         IN  k \in Disk /\ DiskRight(k, decls) /\ k[Root] = dk[Root] /\ k[Root] # None /\ k[d] = x
<1> DEFINE k == [dk EXCEPT ![d] = x]
<1>1. /\ k \in Disk /\ k[d] = x /\ d # Root
      /\ \A e \in (Dbs \cup {Root}) \ {d} : k[e] = dk[e]
  BY SessionAssumption DEF Disk
<1> HIDE DEF k
<1>2. k[Root] = dk[Root]
  BY <1>1
<1>3. DatabasesRight(k) /\ k[Root] # None
  BY <1>2 DEF DiskRight, DatabasesRight
<1>4. \A e \in Dbs \ {d} : ListOn(k, e) = ListOn(dk, e) /\ HasList(k, e) = HasList(dk, e)
                           /\ Listed(k, e) = Listed(dk, e)
  BY <1>1 DEF ListOn, HasList, Listed
<1>5. HasList(k, d) => ListOn(k, d) = << >>
  BY <1>1 DEF HasList, ListOn
<1>6. ToSet(<< >>) = {} /\ NamesRight(<< >>, Tables, MaxTables)
  BY SystemAssumption DEF ToSet, NamesRight, WellFormed, IsInjective
<1>7. Listed(k, d) = {}
  BY <1>5, <1>6 DEF Listed, ListOn
<1>8. ListsRight(k)
  <2>1. \A e \in Dbs \ {d} : HasList(k, e) => NamesRight(ListOn(k, e), Tables, MaxTables)
    BY <1>4 DEF DiskRight, ListsRight
  <2> QED BY <1>5, <1>6, <2>1 DEF ListsRight
<1>9. AllDescribed(k, decls)
  <2>1. ASSUME NEW e \in Dbs \cap DOMAIN decls, NEW t \in Listed(k, e)
        PROVE  decls[e][t] \in Declarations /\ Described(k[e], t, decls[e][t])
    <3>1. e # d /\ t \in Listed(dk, e) /\ k[e] = dk[e]
      BY <1>1, <1>4, <1>7
    <3> QED BY <3>1, ListedParts
  <2>2. ASSUME NEW e \in Dbs \ DOMAIN decls PROVE HasList(k, e)
    BY <1>4, <2>2 DEF DiskRight, AllDescribed
  <2> QED BY <2>1, <2>2 DEF AllDescribed
<1> QED BY <1>1, <1>2, <1>3, <1>8, <1>9 DEF DiskRight, k

\* The list of databases.
LEMMA RootPut ==
  ASSUME NEW dk \in Disk, NEW decls, DiskRight(dk, decls), NEW x \in File,
         NamesRight(ListIn(x[0]), Dbs, MaxDatabases)
  PROVE  LET k == Put(dk, Root, DatabaseList, x)
         IN  k \in Disk /\ DiskRight(k, decls) /\ \A d \in Dbs : k[d] = dk[d]
<1> DEFINE k == Put(dk, Root, DatabaseList, x)
<1>1. dk[Root] # None
  BY DEF DiskRight, DatabasesRight
<1>2. /\ k \in Disk /\ k[Root] # None /\ k[Root][DatabaseList] = x
      /\ \A e \in (Dbs \cup {Root}) \ {Root} : k[e] = dk[e]
  BY <1>1, PutParts, NamesDiffer
<1> HIDE DEF k
<1>3. \A d \in Dbs : k[d] = dk[d]
  BY <1>2, SessionAssumption
<1>4. DatabasesRight(k)
  BY <1>2 DEF DatabasesRight
<1>5. \A d \in Dbs : ListOn(k, d) = ListOn(dk, d) /\ HasList(k, d) = HasList(dk, d)
                     /\ Listed(k, d) = Listed(dk, d)
  BY <1>3 DEF ListOn, HasList, Listed
<1>6. ListsRight(k) /\ AllDescribed(k, decls)
  BY <1>3, <1>5 DEF DiskRight, ListsRight, AllDescribed
<1> QED BY <1>2, <1>3, <1>4, <1>6 DEF DiskRight, k

LEMMA RootParts ==
  ASSUME NEW s, NEW decls, Rooted(s, decls)
  PROVE  /\ Tame(s, {}) /\ Sound(s, {}) /\ Quiet(s) /\ s.cwd = Root
         /\ \A k \in s.passed : DiskRight(k, decls)
         /\ DiskRight(s.disk, decls) /\ s.disk \in Disk /\ s.disk[Root] # None
         /\ \A n \in FileNames \ {DatabaseList} : s.open[n] = None
<1>1. Tame(s, {}) /\ Sound(s, {}) /\ s.cwd = Root /\ \A k \in s.passed : DiskRight(k, decls)
  BY DEF Rooted, Left, Tame
<1>2. \A n \in FileNames \ {DatabaseList} : s.open[n] = None
  BY <1>1 DEF Tame, Idle
<1>3. Quiet(s)
  BY <1>1, <1>2, RootQuiet
<1>4. s.disk \in Disk /\ s.disk \in s.passed /\ s.disk[Root] # None
  <2>1. s.disk \in Disk /\ s.disk \in s.passed /\ s.disk[s.cwd] # None
    BY ONLY <1>1, SoundParts
  <2> QED BY <1>1, <2>1
<1> QED BY <1>1, <1>2, <1>3, <1>4

\* A session in the root directory with nothing but the list of databases open.
LEMMA RootAgain ==
  ASSUME NEW s, NEW decls, Sound(s, {}), s.cwd = Root, \A k \in s.passed : DiskRight(k, decls),
         \A n \in FileNames \ {DatabaseList} : s.open[n] = None
  PROVE  Rooted(s, decls)
<1>1. Tame(s, {})
  BY RootQuiet, QuietTame
<1> QED BY <1>1 DEF Rooted, Left

\* The list of databases is opened and read.
LEMMA DatabasesRead ==
  ASSUME NEW s, NEW decls, Rooted(s, decls), Opens(s, DatabaseList)
  PROVE  LET a == OpenFile(s, DatabaseList)
             g == GetPage(a, DatabaseList, 0)
         IN  /\ CanGet(a, {}, DatabaseList, 0) /\ Rooted(a, decls) /\ a.disk = s.disk /\ a.passed = s.passed
             /\ NamesRight(ListSeen(a, DatabaseList), Dbs, MaxDatabases)
             /\ CanGet(g, {}, DatabaseList, 0) /\ Rooted(g, decls) /\ g.disk = s.disk /\ g.passed = s.passed
             /\ NamesRight(ListSeen(g, DatabaseList), Dbs, MaxDatabases)
<1> DEFINE a == OpenFile(s, DatabaseList)
           g == GetPage(a, DatabaseList, 0)
<1>1. /\ Sound(s, {}) /\ s.cwd = Root /\ \A k \in s.passed : DiskRight(k, decls)
      /\ \A n \in FileNames \ {DatabaseList} : s.open[n] = None
  BY RootParts
<1>2. DatabaseList \in FileNames \ FilesOf({}) /\ 0 \in Page
  BY NamesDiffer, SessionAssumption DEF Page
<1>3. /\ Sound(a, {})
      /\ ButOpen(a, s)
      /\ \A m \in FileNames \ {DatabaseList} : a.open[m] = s.open[m]
      /\ s.open[DatabaseList] # None => a = s
      /\ ~Opens(s, DatabaseList) => a = s
      /\ s.open[DatabaseList] = None /\ Opens(s, DatabaseList) =>
           a.open = [s.open EXCEPT ![DatabaseList] = [id |-> FreeId(s), at |-> s.cwd, gone |-> None]]
      /\ Opens(s, DatabaseList) => a.open[DatabaseList] # None /\ Present(s.disk, s.cwd, DatabaseList)
  BY <1>1, <1>2, OpenFileSound
<1> HIDE DEF a
<1>4. CanGet(a, {}, DatabaseList, 0) /\ a.cwd = Root /\ a.disk = s.disk /\ a.passed = s.passed
  BY <1>1, <1>2, <1>3 DEF CanGet, ButOpen
<1>5. Rooted(a, decls)
  BY <1>1, <1>3, <1>4, RootAgain
<1>6. NamesRight(ListSeen(a, DatabaseList), Dbs, MaxDatabases)
  <2>1. NamesRight(ListIn(Seen(a, DatabaseList, 0)), Dbs, MaxDatabases)
    BY <1>4, GetPageSound
  <2> QED BY <2>1 DEF ListSeen
<1>7. Sound(g, {}) /\ ButFrames(g, a)
  BY <1>4, GetPageSound
<1> HIDE DEF g
<1>8. /\ g.cwd = Root /\ g.disk = s.disk /\ g.passed = s.passed /\ g.open = a.open
      /\ CanGet(g, {}, DatabaseList, 0)
  BY <1>2, <1>3, <1>4, <1>7 DEF ButFrames, CanGet
<1>9. Rooted(g, decls)
  BY <1>1, <1>3, <1>7, <1>8, RootAgain
<1>10. NamesRight(ListSeen(g, DatabaseList), Dbs, MaxDatabases)
  <2>1. NamesRight(ListIn(Seen(g, DatabaseList, 0)), Dbs, MaxDatabases)
    BY <1>8, GetPageSound
  <2> QED BY <2>1 DEF ListSeen
<1> QED BY <1>4, <1>5, <1>6, <1>8, <1>9, <1>10 DEF g, a

\* It is written and closed.
LEMMA DatabasesStored ==
  ASSUME NEW a, NEW decls, Rooted(a, decls), CanGet(a, {}, DatabaseList, 0), NEW v \in Content,
         NamesRight(ListIn(v), Dbs, MaxDatabases)
  PROVE  LET b == CloseFile(Stored(a, DatabaseList, 0, v), DatabaseList)
         IN  /\ Rooted(b, decls) /\ b.passed = a.passed \cup {b.disk}
             /\ \A e \in Dbs : b.disk[e] = a.disk[e]
<1> DEFINE w  == Stored(a, DatabaseList, 0, v)
           b  == CloseFile(w, DatabaseList)
           h  == Home(a.cwd, DatabaseList)
           x  == [a.disk[h][DatabaseList] EXCEPT ![0] = v]
           dk == Put(a.disk, h, DatabaseList, x)
<1>1. /\ Sound(a, {}) /\ a.cwd = Root /\ \A k \in a.passed : DiskRight(k, decls)
      /\ DiskRight(a.disk, decls) /\ a.disk \in Disk /\ h = Root
      /\ \A n \in FileNames \ {DatabaseList} : a.open[n] = None
  <2>1. h = Root
    BY DEF Home
  <2> QED BY <2>1, RootParts
<1>2. /\ Sound(w, {})
      /\ w.cwd = a.cwd /\ w.open = a.open /\ w.done = a.done
      /\ w.disk = dk /\ w.passed = a.passed \cup {dk}
      /\ \A m : NoFrames(a.frames, m) => NoFrames(w.frames, m)
      /\ NoFrames(a.frames, DatabaseList) => w.frames = a.frames
      /\ DatabaseList # DatabaseList => NoFrames(w.frames, DatabaseList)
      /\ x \in File /\ x[0] = v
      /\ \A q \in Page \ {0} : x[q] = a.disk[Home(a.cwd, DatabaseList)][DatabaseList][q]
  BY StoredSound
<1> HIDE DEF w, x, h
<1>3. DiskRight(dk, decls) /\ \A e \in Dbs : dk[e] = a.disk[e]
  <2>1. NamesRight(ListIn(x[0]), Dbs, MaxDatabases) /\ x \in File
    BY <1>2
  <2> DEFINE k == Put(a.disk, Root, DatabaseList, x)
  <2>2. DiskRight(k, decls) /\ \A e \in Dbs : k[e] = a.disk[e]
    BY ONLY <1>1, <2>1, RootPut
  <2>3. dk = k
    BY <1>1
  <2> HIDE DEF k, dk
  <2> QED BY <2>2, <2>3
<1> HIDE DEF dk
<1>4. Sound(b, {}) /\ ButOpen(b, w) /\ b.open = [w.open EXCEPT ![DatabaseList] = None]
  BY <1>2, CloseFileSound, NamesDiffer
<1>5. a.open \in [FileNames -> OpenFiles \cup {None}]
  BY ONLY <1>1, SoundParts
<1> HIDE DEF b
<1>6. /\ b.cwd = Root /\ b.disk = dk /\ b.passed = a.passed \cup {dk}
      /\ \A n \in FileNames \ {DatabaseList} : b.open[n] = None
  BY <1>1, <1>2, <1>4, <1>5 DEF ButOpen
<1>7. \A k \in b.passed : DiskRight(k, decls)
  BY <1>1, <1>3, <1>6
<1>8. Rooted(b, decls)
  BY <1>4, <1>6, <1>7, RootAgain
<1> QED BY <1>3, <1>6, <1>8 DEF b, w

LEMMA LeftAnswers ==
  ASSUME NEW q, NEW D, NEW decls, Left(q, D, decls)
  PROVE  Left(Done(q), D, decls) /\ Left(Refused(q), D, decls)
<1>1. ASSUME NEW r \in {Done(q), Refused(q)} PROVE Left(r, D, decls)
  <2>1. Tame(q, D)
    BY DEF Left
  <2>2. Tame(r, D) /\ r.cwd = q.cwd /\ r.disk = q.disk /\ r.passed = q.passed
    BY <2>1, Answered
  <2> QED BY <2>2 DEF Left
<1> QED BY <1>1

\* chdir.
LEMMA MovedTo ==
  ASSUME NEW s, Sound(s, {}), Quiet(s), NEW e \in Dbs \cup {Root}, s.disk[e] # None
  PROVE  LET r == [s EXCEPT !.cwd = e]
         IN  /\ Sound(r, {}) /\ Quiet(r) /\ Tame(r, {})
             /\ r.cwd = e /\ r.disk = s.disk /\ r.passed = s.passed
<1> DEFINE r == [s EXCEPT !.cwd = e]
           q == [cwd |-> e, disk |-> s.disk, open |-> s.open, frames |-> s.frames,
                 passed |-> s.passed, done |-> s.done]
<1>1. /\ s.disk \in Disk /\ s.disk \in s.passed /\ s.passed \in SUBSET Disk /\ s.done \in BOOLEAN
      /\ s = [cwd |-> s.cwd, disk |-> s.disk, open |-> s.open, frames |-> s.frames,
              passed |-> s.passed, done |-> s.done]
  BY ONLY Sound(s, {}), SoundParts
<1>2. r = q
  BY <1>1
<1>3. Sound(q, {}) /\ Quiet(q) /\ Tame(q, {})
  BY <1>1, Moved
<1>4. q.cwd = e /\ q.disk = s.disk /\ q.passed = s.passed
  OBVIOUS
<1> HIDE DEF q, r
<1> QED BY <1>2, <1>3, <1>4 DEF r

LEMMA OpenDbSound ==
  ASSUME NEW s, NEW D, NEW decls, Left(s, D, decls), NEW d \in Dbs \cap DOMAIN decls
  PROVE  Left(OpenDb(s, d), D, decls)
<1> DEFINE in == [s EXCEPT !.cwd = d]
<1>1. CASE ~(s.cwd = Root /\ s.disk[d] # None)
  BY <1>1, LeftAnswers DEF OpenDb
<1>2. CASE s.cwd = Root /\ s.disk[d] # None
  <2>1. Rooted(s, decls) /\ D = {}
    BY <1>2 DEF Left, Rooted
  <2>2. Sound(s, {}) /\ Quiet(s) /\ \A k \in s.passed : DiskRight(k, decls)
    BY <2>1, RootParts
  <2>3. /\ Sound(in, {}) /\ Quiet(in) /\ Tame(in, {})
        /\ in.cwd = d /\ in.disk = s.disk /\ in.passed = s.passed
    BY <1>2, <2>2, MovedTo
  <2>4. OpenDb(s, d) = Done(in)
    BY <1>2 DEF OpenDb
  <2> HIDE DEF in
  <2>5. Left(in, {}, decls)
    BY <2>2, <2>3, SessionAssumption DEF Left
  <2> QED BY <2>1, <2>4, <2>5, LeftAnswers
<1> QED BY <1>1, <1>2

\* A database that was left behind half dropped has a list, and the process
\* comes back from it.
LEMMA ShowDbSound ==
  ASSUME NEW s, NEW D, NEW decls, Left(s, D, decls), NEW d \in Dbs
  PROVE  Left(ShowDb(s, d), D, decls)
<1> DEFINE in == [s EXCEPT !.cwd = d]
           a  == GetPage(OpenFile(in, TableList), TableList, 0)
           x  == TableExist(in, d)
           y  == [x EXCEPT !.cwd = Root]
<1>1. CASE s.cwd # Root \/ s.disk[d] = None
  BY <1>1, LeftAnswers DEF ShowDb
<1>2. CASE ~(s.cwd # Root \/ s.disk[d] = None)
  <2>1. Rooted(s, decls) /\ D = {}
    BY <1>2 DEF Left, Rooted
  <2>2. /\ Sound(s, {}) /\ Quiet(s) /\ s.disk[Root] # None
        /\ \A k \in s.passed : DiskRight(k, decls)
    BY <2>1, RootParts
  <2>3. /\ Sound(in, {}) /\ Quiet(in) /\ Tame(in, {})
        /\ in.cwd = d /\ in.disk = s.disk /\ in.passed = s.passed
    BY <1>2, <2>2, MovedTo
  <2>5. CASE ~Opens(in, TableList)
    <3>1. ShowDb(s, d) = Refused(in)
      BY <1>2, <2>5 DEF ShowDb
    <3>2. DiskRight(s.disk, decls)
      BY <2>1, RootParts
    <3>3. s.disk[d][TableList] = None
      BY <2>3, <2>5 DEF Opens
    <3> HIDE DEF in
    <3>4. d \in DOMAIN decls
      BY <3>2, <3>3 DEF DiskRight, AllDescribed, HasList
    <3>5. Left(in, {}, decls)
      BY <2>2, <2>3, <3>4, SessionAssumption DEF Left
    <3> QED BY <2>1, <3>1, <3>5, LeftAnswers
  <2>6. CASE Opens(in, TableList)
    <3>1. x = CloseFile(Release(a, TableList, 0), TableList)
      BY <2>6 DEF TableExist
    <3>2. ShowDb(s, d) = Done([CloseFile(Release(a, TableList, 0), TableList) EXCEPT !.cwd = Root])
      BY <1>2, <2>6 DEF ShowDb
    <3>3. ShowDb(s, d) = Done(y)
      BY <3>1, <3>2
    <3> HIDE DEF in, a
    <3>4. Sole(in.open, in.frames) /\ in.cwd # Root
      BY <2>3, SessionAssumption DEF Tame
    <3>5. /\ Sound(x, {}) /\ NoFrames(x.frames, TableList)
          /\ x.cwd = in.cwd /\ x.disk = in.disk /\ x.passed = in.passed /\ x.done = in.done
          /\ x.open[TableList] = None
          /\ \A m \in FileNames \ {TableList} : x.open[m] = in.open[m]
          /\ \A m : NoFrames(in.frames, m) => NoFrames(x.frames, m)
      <4>1. Sound(in, {})
        BY <2>3
      <4> QED BY ONLY <2>6, <3>4, <4>1, TableExistSound
    <3> HIDE DEF x
    <3>6. Quiet(x)
      <4>1. \A n \in FileNames \ {DatabaseList} : x.open[n] = None
        BY <2>3, <3>5 DEF Quiet
      <4>2. \A m : m # DatabaseList => NoFrames(x.frames, m)
        BY <2>3, <3>5 DEF Quiet, NoFrames
      <4> QED BY <4>1, <4>2 DEF Quiet, NoFrames
    <3>7. x.disk[Root] # None
      BY <2>2, <2>3, <3>5
    <3>8. /\ Sound(y, {}) /\ Quiet(y) /\ Tame(y, {})
          /\ y.cwd = Root /\ y.disk = x.disk /\ y.passed = x.passed
      BY <3>5, <3>6, <3>7, MovedTo
    <3> HIDE DEF y
    <3>9. Left(y, {}, decls)
      BY <2>2, <2>3, <3>5, <3>8 DEF Left
    <3> QED BY <2>1, <3>3, <3>9, LeftAnswers
  <2> QED BY <2>5, <2>6
<1> QED BY <1>1, <1>2

LEMMA ShowAllDbSound ==
  ASSUME NEW s, NEW decls, Rooted(s, decls)
  PROVE  Left(ShowAllDb(s), {}, decls)
<1> DEFINE a     == GetPage(OpenFile(s, DatabaseList), DatabaseList, 0)
           names == ListSeen(a, DatabaseList)
           N     == Len(names)
           Good  == {r \in Sessions : Left(r, {}, decls)}
           G     == [l \in 0 .. N |-> Good]
           step  == [l \in 1 .. N |-> [r \in Sessions |-> IF r.done THEN ShowDb(r, names[l]) ELSE r]]
           after[i \in 0 .. N] ==
             IF i = 0 THEN Done(a)
             ELSE IF after[i - 1].done THEN ShowDb(after[i - 1], names[i]) ELSE after[i - 1]
<1>1. CASE ~Opens(s, DatabaseList)
  BY <1>1, LeftAnswers DEF ShowAllDb, Rooted
<1>2. CASE Opens(s, DatabaseList)
  <2>1. Rooted(a, decls) /\ NamesRight(names, Dbs, MaxDatabases)
    BY <1>2, DatabasesRead
  <2>2. Left(Done(a), {}, decls)
    <3> HIDE DEF a
    <3> QED BY <2>1, LeftAnswers DEF Rooted
  <2>3. ShowAllDb(s) = after[N]
    BY <1>2 DEF ShowAllDb
  <2> HIDE DEF a, names
  <2>4. N \in Nat /\ \A l \in 1 .. N : names[l] \in Dbs
    BY <2>1 DEF NamesRight
  <2> HIDE DEF N
  <2>5. \A r : Left(r, {}, decls) => r \in Sessions
    BY SoundParts DEF Left, Tame
  <2>6. Done(a) \in Good
    BY <2>2, <2>5
  <2>7. ASSUME NEW r \in Good, NEW l \in 1 .. N
        PROVE  (IF r.done THEN ShowDb(r, names[l]) ELSE r) \in Good
    <3>1. Left(r, {}, decls)
      OBVIOUS
    <3>2. Left(ShowDb(r, names[l]), {}, decls)
      BY <2>4, <3>1, ShowDbSound
    <3> QED BY <2>5, <3>1, <3>2
  <2>8. Good \subseteq Sessions /\ \A r \in Good : Left(r, {}, decls)
    OBVIOUS
  <2> HIDE DEF Good
  <2>9. Stays(N, Sessions, G, Done(a), step)
    BY <2>4, <2>6, <2>7, <2>8 DEF Stays
  <2>10. \E f \in [0 .. N -> Sessions] :
           \A l \in 0 .. N : f[l] = (IF l = 0 THEN Done(a) ELSE step[l][f[l - 1]]) /\ f[l] \in G[l]
    <3> HIDE DEF G, step
    <3> QED BY ONLY <2>9, Stages
  <2>11. PICK f \in [0 .. N -> Sessions] :
           \A l \in 0 .. N : f[l] = (IF l = 0 THEN Done(a) ELSE step[l][f[l - 1]]) /\ f[l] \in G[l]
    BY <2>10
  <2>12. after = [i \in 0 .. N |->
                   IF i = 0 THEN Done(a)
                   ELSE IF after[i - 1].done THEN ShowDb(after[i - 1], names[i]) ELSE after[i - 1]]
    <3>1. f = [i \in 0 .. N |->
                 IF i = 0 THEN Done(a)
                 ELSE IF f[i - 1].done THEN ShowDb(f[i - 1], names[i]) ELSE f[i - 1]]
      <4>1. ASSUME NEW l \in 0 .. N, l # 0
            PROVE  step[l][f[l - 1]] = IF f[l - 1].done THEN ShowDb(f[l - 1], names[l]) ELSE f[l - 1]
        <5>1. l \in 1 .. N /\ l - 1 \in 0 .. N
          BY <2>4, <4>1
        <5> QED BY <5>1
      <4> HIDE DEF step
      <4> QED BY <4>1, <2>11
    <3> QED BY <3>1
  <2> HIDE DEF after
  <2> DEFINE T == {l \in 0 .. N : after[l] \in Good}
  <2>13. \A l \in 0 .. N : l \in T
    <3>1. 0 \in T
      BY <2>4, <2>6, <2>12
    <3>2. ASSUME NEW l \in 1 .. N, l - 1 \in T PROVE l \in T
      <4>1. l \in 0 .. N /\ l # 0
        BY <2>4
      <4> QED BY <2>7, <2>12, <3>2, <4>1
    <3> HIDE DEF T
    <3> QED BY <2>4, <3>1, <3>2, Throughout
  <2>14. Left(after[N], {}, decls)
    BY <2>4, <2>8, <2>13
  <2> QED BY <2>3, <2>14
<1> QED BY <1>1, <1>2

LEMMA CreateDbSound ==
  ASSUME NEW s, NEW decls, Rooted(s, decls), NEW d \in Dbs
  PROVE  Left(CreateDb(s, d), {}, decls)
<1> DEFINE p     == CreateFile(s, DatabaseList)
           a     == OpenFile(p, DatabaseList)
           g     == GetPage(a, DatabaseList, 0)
           names == ListSeen(a, DatabaseList)
           more  == Append(names, d)
           v     == ListPage(more)
           b     == CloseFile(Stored(a, DatabaseList, 0, v), DatabaseList)
           dk1   == [b.disk EXCEPT ![d] = EmptyDir]
           c     == OnDisk(b, dk1)
           in    == [c EXCEPT !.cwd = d]
           e     == CreateFile(in, TableList)
           y     == [e EXCEPT !.cwd = Root]
           r     == CreateDb(s, d)
<1>1. /\ Sound(s, {}) /\ s.cwd = Root /\ \A k \in s.passed : DiskRight(k, decls)
      /\ DiskRight(s.disk, decls) /\ s.disk \in Disk /\ s.disk[Root] # None
      /\ \A n \in FileNames \ {DatabaseList} : s.open[n] = None
  BY RootParts
<1>2. /\ NewFile \in File /\ NamesRight(ListIn(NewFile[0]), Dbs, MaxDatabases) /\ NewFile # None
      /\ DatabaseList \in FileNames /\ TableList \in FileNames /\ d # Root
  BY NewFileRight, NamesDiffer, NoneAssumption, SessionAssumption
<1> DEFINE dk == Put(s.disk, s.cwd, DatabaseList, NewFile)
<1>3. Sound(p, {}) /\ ButDisk(p, s) /\ p.disk = dk /\ p.passed = s.passed \cup {dk}
  BY <1>1, <1>2, CreateFileSound
<1>4. DiskRight(dk, decls) /\ dk[Root][DatabaseList] # None
  <2>1. dk[Root][DatabaseList] = NewFile
    <3>1. Root \in Dbs \cup {Root} /\ NewFile \in File \cup {None}
      BY <1>2
    <3> QED BY <1>1, <1>2, <3>1, PutParts
  <2>2. DiskRight(dk, decls)
    BY <1>1, <1>2, RootPut
  <2> HIDE DEF dk
  <2> QED BY <1>2, <2>1, <2>2
<1> HIDE DEF p, dk
<1>5. Rooted(p, decls) /\ Opens(p, DatabaseList)
  <2>1. /\ p.cwd = Root /\ \A k \in p.passed : DiskRight(k, decls)
        /\ \A n \in FileNames \ {DatabaseList} : p.open[n] = None
    BY <1>1, <1>3, <1>4 DEF ButDisk
  <2>2. Rooted(p, decls)
    BY <1>3, <2>1, RootAgain
  <2> QED BY <1>3, <1>4, <2>1, <2>2 DEF Opens
<1>6. /\ CanGet(a, {}, DatabaseList, 0) /\ Rooted(a, decls) /\ a.disk = p.disk /\ a.passed = p.passed
      /\ NamesRight(names, Dbs, MaxDatabases)
      /\ CanGet(g, {}, DatabaseList, 0) /\ Rooted(g, decls) /\ g.disk = p.disk /\ g.passed = p.passed
      /\ NamesRight(ListSeen(g, DatabaseList), Dbs, MaxDatabases)
  BY <1>5, DatabasesRead
<1>7. r = IF Len(names) = MaxDatabases \/ d \in ToSet(names) THEN Refused(g)
          ELSE IF b.disk[d] # None THEN Refused(b) ELSE Done(y)
  BY DEF CreateDb, p
<1> HIDE DEF a, g, names, r
<1>8. CASE Len(names) = MaxDatabases \/ d \in ToSet(names)
  BY <1>6, <1>7, <1>8, LeftAnswers DEF Rooted, r
<1>9. CASE ~(Len(names) = MaxDatabases \/ d \in ToSet(names))
  <2>1. NamesRight(more, Dbs, MaxDatabases)
    <3>1. MaxDatabases \in Nat /\ Len(names) # MaxDatabases /\ d \notin ToSet(names)
      BY <1>9, SystemAssumption
    <3>2. NamesRight(Append(names, d), Dbs, MaxDatabases) /\ ToSet(Append(names, d)) = ToSet(names) \cup {d}
      BY ONLY <1>6, <3>1, d \in Dbs, NamesAppended
    <3> QED BY <3>2
  <2> HIDE DEF more
  <2>2. v \in Content /\ NamesRight(ListIn(v), Dbs, MaxDatabases)
    BY <2>1 DEF NamesRight, ListPage, ListIn, Content, Lists
  <2> HIDE DEF v
  <2>3. Rooted(b, decls) /\ b.passed = a.passed \cup {b.disk}
    BY <1>6, <2>2, DatabasesStored
  <2> HIDE DEF b
  <2>4. CASE b.disk[d] # None
    BY <1>7, <1>9, <2>3, <2>4, LeftAnswers DEF Rooted, r
  <2>5. CASE b.disk[d] = None
    <3>1. /\ Sound(b, {}) /\ Quiet(b) /\ b.cwd = Root
          /\ \A k \in b.passed : DiskRight(k, decls)
          /\ DiskRight(b.disk, decls) /\ b.disk \in Disk
      BY <2>3, RootParts
    <3>2. b \in Sessions /\ b.passed \subseteq Disk /\ b.done \in BOOLEAN
          /\ b.open \in [FileNames -> OpenFiles \cup {None}] /\ b.frames \in Seq(Frames)
      BY ONLY <3>1, SoundParts
    <3>3. EmptyDir \in Directory /\ EmptyDir[TableList] = None
      BY <1>2 DEF EmptyDir, Directory
    <3>0. d \in Dbs \cap DOMAIN decls
      BY <2>5, <3>1 DEF DiskRight, AllDescribed, HasList
    <3> DEFINE x == [EmptyDir EXCEPT ![TableList] = NewFile]
               dk2 == [dk1 EXCEPT ![d] = x]
    <3>4. x \in Directory /\ x # None /\ ListIn(x[TableList][0]) = << >>
      <4>1. x \in Directory /\ x[TableList] = NewFile
        BY <1>2, <3>3 DEF Directory
      <4> QED BY <4>1, NewFileRight, NoneAssumption DEF ListIn, ZeroPage
    <3>5. dk1 \in Disk /\ DiskRight(dk1, decls) /\ dk1[Root] = b.disk[Root] /\ dk1[Root] # None
          /\ dk1[d] = EmptyDir
      <4> HIDE DEF x
      <4> QED BY <3>0, <3>1, <3>3, DirectoryPut
    <3> HIDE DEF dk1, x
    <3>6. dk2 \in Disk /\ DiskRight(dk2, decls) /\ dk2[Root] = dk1[Root] /\ dk2[Root] # None /\ dk2[d] = x
      BY <3>0, <3>4, <3>5, DirectoryPut
    <3>7. dk2 = [dk1 EXCEPT ![d][TableList] = NewFile]
      BY <3>5 DEF x
    <3> HIDE DEF dk2
    <3>8. in = [cwd |-> d, disk |-> dk1, open |-> b.open, frames |-> b.frames,
                passed |-> b.passed \cup {dk1}, done |-> b.done]
      <4>1. c = [cwd |-> b.cwd, disk |-> dk1, open |-> b.open, frames |-> b.frames,
                 passed |-> b.passed \cup {dk1}, done |-> b.done]
        BY <3>2, OnDiskParts
      <4> HIDE DEF c
      <4> QED BY <4>1
    <3>9. in \in Sessions
      <4>1. b.passed \cup {dk1} \in SUBSET Disk
        BY <3>2, <3>5
      <4> HIDE DEF in
      <4> QED BY <3>2, <3>5, <3>8, <4>1 DEF Sessions
    <3> HIDE DEF in
    <3> DEFINE seen == b.passed \cup {dk1} \cup {dk2}
               q == [cwd |-> Root, disk |-> dk2, open |-> b.open, frames |-> b.frames,
                     passed |-> seen, done |-> b.done]
    <3>10. y = q
      <4>1. e = OnDisk(in, dk2)
        BY <3>7, <3>8 DEF CreateFile
      <4>2. e = [cwd |-> in.cwd, disk |-> dk2, open |-> in.open, frames |-> in.frames,
                 passed |-> in.passed \cup {dk2}, done |-> in.done]
        BY <3>9, <4>1, OnDiskParts
      <4>3. in.open = b.open /\ in.frames = b.frames /\ in.passed = b.passed \cup {dk1} /\ in.done = b.done
        BY <3>8
      <4> HIDE DEF e
      <4> QED BY <4>2, <4>3
    <3>11. /\ seen \in SUBSET Disk /\ dk2 \in seen /\ \A k \in seen : DiskRight(k, decls)
           /\ Root \in Dbs \cup {Root} /\ dk2[Root] = b.disk[Root]
      BY <3>1, <3>2, <3>5, <3>6
    <3> HIDE DEF seen
    <3>12. Sound(q, {}) /\ Quiet(q) /\ Tame(q, {})
      BY <3>1, <3>2, <3>6, <3>11, Moved
    <3>13. q.cwd = Root /\ q.passed = seen
      OBVIOUS
    <3> HIDE DEF q, y
    <3>14. Left(q, {}, decls)
      BY <3>11, <3>12, <3>13 DEF Left
    <3> QED BY <1>7, <1>9, <2>5, <3>10, <3>14, LeftAnswers DEF r
  <2> QED BY <2>4, <2>5
<1> QED BY <1>8, <1>9

\* A disk there may be while the database d of disk dk is dropped: its list is
\* there as it was, or not at all.
Dropping(k, dk, d) ==
  /\ k \in Disk /\ DatabasesRight(k)
  /\ \A e \in Dbs \ {d} : k[e] = dk[e]
  /\ HasList(k, d) => HasList(dk, d) /\ k[d][TableList] = dk[d][TableList]

LEMMA WithoutDropping ==
  ASSUME NEW dk \in Disk, NEW k \in Disk, DatabasesRight(k), NEW d \in Dbs,
         \A e \in Dbs : k[e] = dk[e], k[d] # None, NEW gone
  PROVE  LET n == Without(k, d, gone)
         IN  Dropping(n, dk, d) /\ n[Root] = k[Root] /\ n[d] # None
<1> DEFINE x == [m \in FileNames |-> IF m \in gone THEN None ELSE k[d][m]]
           n == Without(k, d, gone)
<1>1. k[d] \in Directory
  BY DEF Disk
<1>2. x \in Directory /\ \A m \in FileNames : x[m] = None \/ x[m] = k[d][m]
  BY <1>1 DEF Directory
<1>3. n = [k EXCEPT ![d] = x]
  BY DEF Without
<1> HIDE DEF x, n
<1>4. /\ n \in Disk /\ n[d] = x /\ d # Root /\ n[Root] = k[Root]
      /\ \A e \in Dbs \ {d} : n[e] = k[e]
  BY <1>2, <1>3, SessionAssumption DEF Disk
<1>5. DatabasesRight(n)
  BY <1>4 DEF DatabasesRight
<1>6. HasList(n, d) => HasList(dk, d) /\ n[d][TableList] = dk[d][TableList]
  <2>1. TableList \in FileNames
    BY NamesDiffer
  <2> QED BY <1>2, <1>4, <2>1 DEF HasList
<1>7. n[d] # None
  BY <1>2, <1>4, NoneAssumption
<1> QED BY <1>4, <1>5, <1>6, <1>7 DEF Dropping, n

LEMMA RemovedDropping ==
  ASSUME NEW dk, NEW k, NEW d \in Dbs, Dropping(k, dk, d)
  PROVE  LET n == [k EXCEPT ![d] = None] IN Dropping(n, dk, d) /\ n[Root] = k[Root]
<1> DEFINE n == [k EXCEPT ![d] = None]
<1>1. /\ n \in Disk /\ n[d] = None /\ n[Root] = k[Root]
      /\ \A e \in Dbs \ {d} : n[e] = k[e]
  BY SessionAssumption DEF Disk, Dropping
<1> HIDE DEF n
<1>2. DatabasesRight(n)
  BY <1>1 DEF DatabasesRight, Dropping
<1> QED BY <1>1, <1>2 DEF Dropping, HasList, n

LEMMA DropDbSound ==
  ASSUME NEW s, NEW decls, Rooted(s, decls), s.passed = {s.disk}, NEW d \in Dbs,
         NEW gone, NEW removed \in BOOLEAN
  PROVE  LET r == DropDb(s, d, gone, removed)
         IN  Tame(r, {}) /\ r.cwd = Root /\ \A k \in r.passed : Dropping(k, s.disk, d)
<1> DEFINE a     == OpenFile(s, DatabaseList)
           g     == GetPage(a, DatabaseList, 0)
           names == ListSeen(a, DatabaseList)
           less  == Dropped(names, d)
           v     == ListPage(less)
           b     == CloseFile(Stored(a, DatabaseList, 0, v), DatabaseList)
           r     == DropDb(s, d, gone, removed)
           Good(q) == Tame(q, {}) /\ q.cwd = Root /\ \A k \in q.passed : Dropping(k, s.disk, d)
<1>1. /\ Tame(s, {}) /\ s.cwd = Root /\ DiskRight(s.disk, decls) /\ s.disk \in Disk
  BY RootParts
<1>2. Dropping(s.disk, s.disk, d)
  BY <1>1 DEF Dropping, DiskRight
<1>3. ASSUME NEW q, Good(q) PROVE Good(Done(q)) /\ Good(Refused(q))
  <2>1. ASSUME NEW p \in {Done(q), Refused(q)} PROVE Good(p)
    <3>1. Tame(p, {}) /\ p.cwd = q.cwd /\ p.passed = q.passed
      BY <1>3, Answered
    <3> QED BY <1>3, <3>1
  <2> QED BY <2>1
<1>4. CASE ~Opens(s, DatabaseList)
  <2>1. r = Refused(s)
    BY <1>4 DEF DropDb
  <2>2. Good(s)
    BY <1>1, <1>2
  <2> HIDE DEF r, Good
  <2>3. Good(r)
    BY <1>3, <2>1, <2>2
  <2> QED BY <2>3 DEF Good, r
<1>5. CASE Opens(s, DatabaseList)
  <2>1. /\ CanGet(a, {}, DatabaseList, 0) /\ Rooted(a, decls) /\ a.disk = s.disk /\ a.passed = s.passed
        /\ NamesRight(names, Dbs, MaxDatabases)
        /\ Rooted(g, decls) /\ g.passed = s.passed
    BY <1>5, DatabasesRead
  <2>2. r = IF d \notin ToSet(names) THEN Refused(g)
            ELSE IF b.cwd # Root \/ b.disk[d] = None THEN Refused(b)
            ELSE DirectoryRemoved(b, d, gone, removed)
    BY <1>5 DEF DropDb
  <2> HIDE DEF a, g, names, r
  <2>3. CASE d \notin ToSet(names)
    <3>1. Tame(g, {}) /\ g.cwd = Root
      BY <2>1, RootParts
    <3>2. Good(g)
      BY <1>2, <2>1, <3>1
    <3> HIDE DEF Good
    <3>3. Good(r)
      BY <1>3, <2>2, <2>3, <3>2
    <3> QED BY <3>3 DEF Good, r
  <2>4. CASE d \in ToSet(names)
    <3>1. NamesRight(less, Dbs, MaxDatabases)
      <4>1. MaxDatabases \in Nat
        BY SystemAssumption
      <4>2. NamesRight(Dropped(names, d), Dbs, MaxDatabases) /\ ToSet(Dropped(names, d)) = ToSet(names) \ {d}
        BY ONLY <2>1, <2>4, <4>1, NamesDropped
      <4> QED BY <4>2
    <3> HIDE DEF less
    <3>2. v \in Content /\ NamesRight(ListIn(v), Dbs, MaxDatabases)
      BY <3>1 DEF NamesRight, ListPage, ListIn, Content, Lists
    <3> HIDE DEF v
    <3>3. /\ Rooted(b, decls) /\ b.passed = a.passed \cup {b.disk}
          /\ \A e \in Dbs : b.disk[e] = a.disk[e]
      BY <2>1, <3>2, DatabasesStored
    <3> HIDE DEF b
    <3>4. /\ Tame(b, {}) /\ Sound(b, {}) /\ Quiet(b) /\ b.cwd = Root
          /\ DiskRight(b.disk, decls) /\ b.disk \in Disk /\ b.disk[Root] # None
      BY <3>3, RootParts
    <3>5. /\ \A e \in Dbs : b.disk[e] = s.disk[e]
          /\ \A k \in b.passed : Dropping(k, s.disk, d)
      <4>1. \A e \in Dbs : b.disk[e] = s.disk[e]
        BY <2>1, <3>3
      <4>2. Dropping(b.disk, s.disk, d)
        BY <3>4, <4>1 DEF Dropping, DiskRight, HasList
      <4> QED BY <1>2, <2>1, <3>3, <4>1, <4>2
    <3>6. Good(b)
      BY <3>4, <3>5
    <3>7. CASE b.disk[d] = None
      <4> HIDE DEF Good
      <4>1. Good(r)
        BY <1>3, <2>2, <2>4, <3>6, <3>7
      <4> QED BY <4>1 DEF Good, r
    <3>8. CASE b.disk[d] # None
      <4> DEFINE parts == {Without(b.disk, d, part) : part \in SUBSET gone}
                 dk == Without(b.disk, d, gone)
                 e  == Emptied(b, d, gone)
                 seen == b.passed \cup parts
                 q == [cwd |-> Root, disk |-> dk, open |-> b.open, frames |-> b.frames,
                       passed |-> seen, done |-> b.done]
                 end == [dk EXCEPT ![d] = None]
                 all == seen \cup {end}
                 z == [cwd |-> Root, disk |-> end, open |-> b.open, frames |-> b.frames,
                       passed |-> all, done |-> b.done]
      <4>1. b \in Sessions /\ b.passed \subseteq Disk /\ b.done \in BOOLEAN
            /\ b.open \in [FileNames -> OpenFiles \cup {None}]
            /\ OpensRight(b.open, b.disk, b.cwd, {})
            /\ b = [cwd |-> b.cwd, disk |-> b.disk, open |-> b.open, frames |-> b.frames,
                    passed |-> b.passed, done |-> b.done]
        BY ONLY <3>4, SoundParts
      <4>2. \A part : LET n == Without(b.disk, d, part)
                      IN  Dropping(n, s.disk, d) /\ n[Root] = b.disk[Root] /\ n[d] # None
        <5>1. DatabasesRight(b.disk)
          BY <3>4 DEF DiskRight
        <5> QED BY <1>1, <3>4, <3>5, <3>8, <5>1, WithoutDropping
      <4>3. /\ dk \in parts /\ Dropping(dk, s.disk, d) /\ dk[Root] = b.disk[Root] /\ dk \in Disk
            /\ \A k \in parts : Dropping(k, s.disk, d)
        BY <4>2 DEF Dropping
      <4>4. Dropping(end, s.disk, d) /\ end[Root] = b.disk[Root] /\ end \in Disk
        <5> HIDE DEF dk
        <5>1. Dropping(end, s.disk, d) /\ end[Root] = dk[Root]
          BY <4>3, RemovedDropping
        <5> QED BY <4>3, <5>1 DEF Dropping
      <4>5. [n \in FileNames |-> IF n \in gone THEN Unlinked(b.open[n], n, b.disk, d) ELSE b.open[n]]
            = b.open
        <5>1. ASSUME NEW n \in FileNames PROVE Unlinked(b.open[n], n, b.disk, d) = b.open[n]
          <6>1. b.open[n] # None => b.open[n].at = Root
            BY <3>4, <4>1, NoFilesDropped DEF OpensRight, Home
          <6> QED BY <6>1, SessionAssumption DEF Unlinked
        <5> QED BY <4>1, <5>1
      <4>6. e = q
        <5>1. e = [b EXCEPT !.disk = dk, !.passed = b.passed \cup parts, !.open = b.open]
          BY <4>5 DEF Emptied
        <5> HIDE DEF e, dk, parts
        <5> QED BY <3>4, <4>1, <5>1
      <4> HIDE DEF parts, dk, end, e
      <4>7. /\ seen \in SUBSET Disk /\ dk \in seen /\ \A k \in seen : Dropping(k, s.disk, d)
            /\ Root \in Dbs \cup {Root}
        BY <3>5, <4>1, <4>3 DEF Dropping
      <4> HIDE DEF seen
      <4>8. /\ all \in SUBSET Disk /\ end \in all /\ \A k \in all : Dropping(k, s.disk, d)
        BY <4>4, <4>7
      <4> HIDE DEF all
      <4>9. Good(q)
        <5>1. Sound(q, {}) /\ Quiet(q) /\ Tame(q, {})
          BY <3>4, <4>1, <4>3, <4>7, Moved
        <5> QED BY <4>7, <5>1
      <4>10. Good(z)
        <5>1. Sound(z, {}) /\ Quiet(z) /\ Tame(z, {})
          BY <3>4, <4>1, <4>4, <4>8, Moved
        <5> QED BY <4>8, <5>1
      <4>11. OnDisk(q, end) = z
        <5>1. q \in Sessions
          BY <4>9, SoundParts DEF Tame
        <5>2. OnDisk(q, end) = [cwd |-> q.cwd, disk |-> end, open |-> q.open, frames |-> q.frames,
                                passed |-> q.passed \cup {end}, done |-> q.done]
          BY <5>1, OnDiskParts
        <5> QED BY <5>2 DEF all
      <4>12. r \in {Done(z), Refused(q)}
        <5>1. r = IF removed THEN Done(OnDisk(e, [e.disk EXCEPT ![d] = None])) ELSE Refused(e)
          BY <2>2, <2>4, <3>4, <3>8 DEF DirectoryRemoved, e
        <5>2. q.disk = dk
          OBVIOUS
        <5> HIDE DEF q, z
        <5> QED BY <4>6, <4>11, <5>1, <5>2 DEF end
      <4> HIDE DEF Good, q, z
      <4>13. Good(r)
        BY <1>3, <4>9, <4>10, <4>12
      <4> QED BY <4>13 DEF Good, r
    <3> QED BY <3>7, <3>8
  <2> QED BY <2>3, <2>4
<1> QED BY <1>4, <1>5

\* What is left of a database that was dropped half way has a list of tables, as
\* it was, or nothing is asked of it.
LEMMA DroppingRight ==
  ASSUME NEW dk \in Disk, NEW decls, DiskRight(dk, decls), NEW d \in Dbs, NEW k, Dropping(k, dk, d),
         NEW others,
         DOMAIN others = Dbs \ {x \in Dbs : HasList(k, x) /\ (x \notin DOMAIN decls \/ k[x] # dk[x])},
         \A x \in DOMAIN others \cap DOMAIN decls : \A t \in Tables :
           t \in Listed(k, x) => others[x][t] = decls[x][t]
  PROVE  DiskRight(k, others)
<1>1. DatabasesRight(k) /\ \A e \in Dbs \ {d} : k[e] = dk[e]
  BY DEF Dropping
<1>2. ListsRight(k)
  <2>1. ASSUME NEW e \in Dbs, HasList(k, e) PROVE HasList(dk, e) /\ ListOn(k, e) = ListOn(dk, e)
    <3>1. CASE e = d
      BY <2>1, <3>1 DEF Dropping, ListOn
    <3>2. CASE e # d
      BY <1>1, <2>1, <3>2 DEF HasList, ListOn
    <3> QED BY <3>1, <3>2
  <2> QED BY <2>1 DEF ListsRight, DiskRight
<1>3. ASSUME NEW x \in Dbs, x \notin DOMAIN others PROVE HasList(k, x)
  BY <1>3
<1>4. ASSUME NEW x \in Dbs, x \in DOMAIN others, NEW t \in Listed(k, x)
      PROVE  others[x][t] \in Declarations /\ Described(k[x], t, others[x][t])
  <2>1. HasList(k, x)
    BY DEF Listed
  <2>2. x \in DOMAIN decls /\ k[x] = dk[x]
    BY <1>4, <2>1
  <2>3. t \in Listed(dk, x)
    BY <2>2 DEF Listed, HasList
  <2>4. t \in Tables /\ decls[x][t] \in Declarations /\ Described(dk[x], t, decls[x][t])
    BY <2>2, <2>3, ListedParts
  <2> QED BY <1>4, <2>2, <2>4
<1> QED BY <1>1, <1>2, <1>3, <1>4 DEF DiskRight, AllDescribed

-----------------------------------------------------------------------------
(* The inductive invariant of orderly sessions.                             *)

\* How tables were declared, but for the databases left behind half dropped.
Kempt(full, half) == [d \in Dbs \ half |-> full[d]]

CatInv ==
  /\ Left(Current, dropped, Kempt(declared, halfDropped))
  /\ declared \in Told(Dbs) /\ halfDropped \subseteq Dbs
  /\ used \in Dbs \cup {None} /\ dropped \subseteq Tables

\* Where the process is in a database, CatInv is what its statements ask for.
LEMMA AtStatement ==
  ASSUME CatInv
  PROVE  LET decls == Kempt(declared, halfDropped)
         IN  /\ Tame(Current, dropped) /\ DiskRight(disk, decls)
             /\ DOMAIN decls = Dbs \ halfDropped
             /\ \A d \in DOMAIN decls : decls[d] = declared[d]
             /\ Current.cwd = cwd /\ Current.disk = disk /\ Current.passed = {disk}
             /\ Current.open = open /\ Current.frames = frames /\ cwd \in Dbs \cup {Root}
             /\ cwd # Root => Working(Current, dropped, decls) /\ cwd \in Dbs \ halfDropped
             /\ cwd = Root => dropped = {} /\ Rooted(Current, decls)
<1> DEFINE decls == Kempt(declared, halfDropped)
<1>1. /\ Current.cwd = cwd /\ Current.disk = disk /\ Current.passed = {disk}
      /\ Current.open = open /\ Current.frames = frames
  BY DEF Current
<1>2. Left(Current, dropped, decls)
  BY DEF CatInv
<1>3. DOMAIN decls = Dbs \ halfDropped /\ \A d \in DOMAIN decls : decls[d] = declared[d]
  BY DEF Kempt
<1> HIDE DEF Current, decls
<1>4. Tame(Current, dropped) /\ DiskRight(disk, decls)
  BY <1>1, <1>2 DEF Left
<1>5. Current.cwd \in Dbs \cup {Root}
  <2>1. Sound(Current, dropped)
    BY <1>4 DEF Tame
  <2> QED BY ONLY <2>1, SoundParts
<1>6. cwd # Root => Working(Current, dropped, decls) /\ cwd \in Dbs \ halfDropped
  BY <1>1, <1>2, <1>3, <1>4, <1>5 DEF Left, Working, CatInv
<1>7. cwd = Root => dropped = {} /\ Rooted(Current, decls)
  BY <1>1, <1>2 DEF Left, Rooted
<1> QED BY <1>1, <1>3, <1>4, <1>5, <1>6, <1>7 DEF decls

\* The history is only forgotten of tables that are no longer listed.
LEMMA RememberedRight ==
  ASSUME NEW dk, NEW full \in Told(Dbs), NEW half \in SUBSET Dbs, DiskRight(dk, Kempt(full, half))
  PROVE  LET kept == [d \in Dbs |-> [t \in Tables |-> IF t \in Listed(dk, d) THEN full[d][t] ELSE None]]
         IN  kept \in Told(Dbs) /\ DiskRight(dk, Kempt(kept, half))
<1> DEFINE kept   == [d \in Dbs |-> [t \in Tables |-> IF t \in Listed(dk, d) THEN full[d][t] ELSE None]]
           decls  == Kempt(full, half)
           others == Kempt(kept, half)
<1>1. \A d \in Dbs : \A t \in Tables : full[d][t] \in Declarations \cup {None}
  BY DEF Told
<1>2. kept \in Told(Dbs)
  BY <1>1 DEF Told
<1>3. /\ DOMAIN decls = Dbs \ half /\ \A d \in Dbs \ half : decls[d] = full[d]
      /\ DOMAIN others = Dbs \ half /\ \A d \in Dbs \ half : others[d] = kept[d]
  BY DEF Kempt
<1>4. \A d \in Dbs : \A t \in Tables \cap Listed(dk, d) : kept[d][t] = full[d][t]
  OBVIOUS
<1> HIDE DEF kept, decls, others
<1>5. ASSUME NEW d \in Dbs \cap DOMAIN decls, NEW t \in Listed(dk, d) PROVE others[d][t] = decls[d][t]
  <2>1. t \in Tables
    BY ListedParts DEF decls
  <2> QED BY <1>3, <1>4, <2>1
<1>6. DiskRight(dk, others)
  BY <1>3, <1>5, OtherDeclarations DEF decls
<1> QED BY <1>2, <1>6 DEF kept, others

\* Any disk there was will do for a restart.
LEMMA StartedSound ==
  ASSUME NEW dk \in Disk, DatabasesRight(dk)
  PROVE  /\ Tame(Started(dk), {})
         /\ Started(dk).cwd = Root /\ Started(dk).disk = dk /\ Started(dk).passed = {dk}
<1> DEFINE r  == Started(dk)
           op == [n \in FileNames |-> None]
           fr == << >>
<1>1. /\ r.cwd = Root /\ r.disk = dk /\ r.open = op /\ r.frames = fr /\ r.passed = {dk} /\ r.done = TRUE
      /\ r \in Sessions
  <2>1. << >> \in Seq(Frames) /\ {dk} \in SUBSET Disk /\ op \in [FileNames -> OpenFiles \cup {None}]
    OBVIOUS
  <2>2. r = [cwd |-> Root, disk |-> dk, open |-> op, frames |-> << >>, passed |-> {dk}, done |-> TRUE]
    BY DEF Started
  <2> HIDE DEF op, r
  <2> QED BY <2>1, <2>2 DEF Sessions
<1> HIDE DEF r
<1>2. dk[Root] # None
  BY DEF DatabasesRight
<1>3. OpensRight(op, dk, Root, {}) /\ \A n \in FileNames \ {DatabaseList} : op[n] = None
  BY DEF OpensRight
<1>4. IdsApart(op)
  <2>1. Ids(op) = {}
    BY DEF Ids
  <2> QED BY <2>1, FS_EmptySet DEF IdsApart
<1>5. FramesRight(fr, dk, Root, {})
  BY DEF FramesRight
<1> HIDE DEF op, fr
<1>6. Sound(r, {})
  BY <1>1, <1>2, <1>3, <1>4, <1>5 DEF Sound
<1>7. Tame(r, {})
  BY <1>1, <1>3, <1>6, RootQuiet, QuietTame
<1> QED BY <1>1, <1>7 DEF r

\* The session after a statement that leaves r behind or dies on the way.
LEMMA SessionAfter ==
  ASSUME NEW r, NEW D, Tame(r, D), r.cwd = Root => D = {}, \A k \in r.passed : DatabasesRight(k),
         \/ Becomes(r) /\ used' \in Dbs \cup {None} /\ dropped' = D
         \/ Dies(r)
  PROVE  /\ Current'.cwd = cwd' /\ Current'.disk = disk' /\ Current'.passed = {disk'}
         /\ Tame(Current', dropped') /\ disk' \in r.passed /\ used' \in Dbs \cup {None}
         /\ cwd' = Root => dropped' = {}
         /\ cwd' # Root => cwd' = r.cwd /\ disk' = r.disk /\ dropped' = D
<1>1. Sound(r, D)
  BY DEF Tame
<1>2. /\ r \in Sessions /\ r.disk \in r.passed /\ r.passed \subseteq Disk
      /\ r.cwd \in Dbs \cup {Root} /\ r.disk \in Disk
      /\ r.open \in [FileNames -> OpenFiles \cup {None}] /\ r.frames \in Seq(Frames)
  BY ONLY <1>1, SoundParts
<1> DEFINE c == Current'
<1>3. /\ c = [cwd |-> cwd', disk |-> disk', open |-> open', frames |-> frames',
              passed |-> {disk'}, done |-> TRUE]
      /\ c.cwd = cwd' /\ c.disk = disk' /\ c.passed = {disk'}
  BY DEF Current
<1> HIDE DEF c
<1>4. CASE Becomes(r) /\ used' \in Dbs \cup {None} /\ dropped' = D
  <2>1. cwd' = r.cwd /\ disk' = r.disk /\ open' = r.open /\ frames' = r.frames
    BY <1>4 DEF Becomes
  <2>2. /\ c.cwd = r.cwd /\ c.disk = r.disk /\ c.open = r.open /\ c.frames = r.frames
        /\ c.passed = {r.disk} /\ c \in Sessions
    <3>1. {r.disk} \in SUBSET Disk
      BY <1>2
    <3> QED BY <1>2, <1>3, <2>1, <3>1 DEF Sessions
  <2>3. Sound(c, D)
    BY <1>1, <2>2 DEF Sound
  <2>4. Tame(c, D)
    BY <2>2, <2>3 DEF Tame
  <2> QED BY <1>2, <1>3, <1>4, <2>1, <2>4 DEF c
<1>5. CASE Dies(r)
  <2>1. PICK dk \in r.passed : Becomes(Started(dk))
    BY <1>5 DEF Dies
  <2>2. dk \in Disk /\ DatabasesRight(dk)
    BY <1>2
  <2>3. c = Started(dk) /\ disk' = dk /\ cwd' = Root
    BY <1>3, <2>1 DEF Becomes, Started
  <2>4. Tame(c, {})
    BY <2>2, <2>3, StartedSound
  <2>5. used' \in Dbs \cup {None} /\ dropped' = {}
    BY <1>5 DEF Dies
  <2> QED BY <1>3, <2>3, <2>4, <2>5 DEF c
<1> QED BY <1>4, <1>5

\* A statement that leaves r behind, or dies on the way.
LEMMA StepKeeps ==
  ASSUME CatInv, NEW r, NEW D \in SUBSET Tables, NEW full \in Told(Dbs),
         Left(r, D, Kempt(full, halfDropped)),
         \/ Becomes(r) /\ used' \in Dbs \cup {None} /\ dropped' = D
         \/ Dies(r),
         declared' \in {full, Remembered(full)}, halfDropped' = halfDropped
  PROVE  CatInv'
<1> DEFINE decls == Kempt(full, halfDropped)
           c == Current'
<1>1. /\ Tame(r, D) /\ \A k \in r.passed : DiskRight(k, decls)
      /\ r.cwd = Root => D = {}
      /\ r.cwd # Root => r.cwd \in DOMAIN decls /\ D \cap Listed(r.disk, r.cwd) = {}
  BY DEF Left
<1> HIDE DEF decls
<1>2. \A k \in r.passed : DatabasesRight(k)
  BY <1>1 DEF DiskRight
<1>3. /\ c.cwd = cwd' /\ c.disk = disk' /\ c.passed = {disk'}
      /\ Tame(c, dropped') /\ disk' \in r.passed /\ used' \in Dbs \cup {None}
      /\ cwd' = Root => dropped' = {}
      /\ cwd' # Root => cwd' = r.cwd /\ disk' = r.disk /\ dropped' = D
  BY <1>1, <1>2, SessionAfter
<1> HIDE DEF c
<1>4. halfDropped \in SUBSET Dbs
  BY DEF CatInv
<1>5. DiskRight(disk', decls) /\ dropped' \subseteq Tables
  BY <1>1, <1>3
<1>6. declared' \in Told(Dbs) /\ DiskRight(disk', Kempt(declared', halfDropped))
  <2>1. CASE declared' = full
    BY <1>5, <2>1 DEF decls
  <2>2. CASE declared' = Remembered(full)
    <3> DEFINE kept == [d \in Dbs |-> [t \in Tables |-> IF t \in Listed(disk', d) THEN full[d][t] ELSE None]]
    <3>1. kept \in Told(Dbs) /\ DiskRight(disk', Kempt(kept, halfDropped))
      BY <1>4, <1>5, RememberedRight DEF decls
    <3>2. declared' = kept
      BY <2>2 DEF Remembered
    <3> HIDE DEF kept
    <3> QED BY <3>1, <3>2
  <2> QED BY <2>1, <2>2
<1> DEFINE others == Kempt(declared', halfDropped)
<1>7. DOMAIN others = DOMAIN decls
  BY DEF Kempt, decls
<1> HIDE DEF others
<1>8. Left(c, dropped', others)
  BY <1>1, <1>3, <1>6, <1>7 DEF Left, others
<1>9. Left(Current', dropped', Kempt(declared', halfDropped'))
  BY <1>8 DEF c, others
<1> QED BY <1>3, <1>4, <1>5, <1>6, <1>9 DEF CatInv

LEMMA InitCat ==
  ASSUME Init
  PROVE  CatInv
<1>1. EmptyDir \in Directory /\ EmptyDir # None /\ EmptyDir[DatabaseList] = None
  <2>1. EmptyDir \in Directory /\ EmptyDir[DatabaseList] = None
    BY NamesDiffer DEF EmptyDir, Directory
  <2> QED BY <2>1, NoneAssumption
<1>2. /\ disk \in Disk /\ disk[Root] = EmptyDir /\ \A d \in Dbs : disk[d] = None
  BY <1>1, SessionAssumption DEF Init, Disk
<1>3. /\ declared \in Told(Dbs) /\ used \in Dbs \cup {None} /\ dropped \subseteq Tables /\ dropped = {}
      /\ halfDropped = {}
  BY DEF Init, Told
<1> DEFINE decls == Kempt(declared, halfDropped)
<1>4. DiskRight(disk, decls)
  <2>1. \A d \in Dbs : ~HasList(disk, d)
    BY <1>2 DEF HasList
  <2>2. DOMAIN decls = Dbs
    BY <1>3 DEF Kempt
  <2> HIDE DEF decls
  <2> QED BY <1>1, <1>2, <2>1, <2>2 DEF DiskRight, DatabasesRight, ListsRight, AllDescribed, Listed
<1>5. Current = Started(disk)
  BY DEF Init, Current, Started
<1> HIDE DEF Current, decls
<1>6. Left(Current, dropped, decls)
  <2>1. DatabasesRight(disk)
    BY <1>4 DEF DiskRight
  <2>2. Tame(Current, {}) /\ Current.cwd = Root /\ Current.disk = disk /\ Current.passed = {disk}
    BY <1>2, <1>5, <2>1, StartedSound
  <2> QED BY <1>3, <1>4, <2>2 DEF Left
<1> QED BY <1>3, <1>6 DEF CatInv, decls

LEMMA Executed ==
  ASSUME CatInv, NEW r, Left(r, dropped, Kempt(declared, halfDropped)), Execute(r),
         declared' \in {declared, Remembered(declared)}, halfDropped' = halfDropped
  PROVE  CatInv'
<1>1. declared \in Told(Dbs) /\ dropped \in SUBSET Tables
  BY DEF CatInv
<1>2. \/ Becomes(r) /\ used' \in Dbs \cup {None} /\ dropped' = dropped
      \/ Dies(r)
  BY DEF Execute, Finishes, CatInv
<1> QED BY <1>1, <1>2, StepKeeps

LEMMA LeavesLeft ==
  ASSUME NEW s, NEW D, NEW decls, NEW r, Leaves(r, s, D, decls), r.cwd # Root, r.cwd \in DOMAIN decls
  PROVE  Left(r, D, decls)
BY DEF Leaves, Left

LEMMA ShowKeeps ==
  ASSUME CatInv, ShowStatement
  PROVE  CatInv'
<1> DEFINE decls == Kempt(declared, halfDropped)
<1>1. /\ cwd # Root => Working(Current, dropped, decls) /\ cwd \in DOMAIN decls
      /\ cwd = Root => dropped = {} /\ Rooted(Current, decls)
      /\ Current.cwd = cwd /\ Left(Current, dropped, decls)
  BY AtStatement DEF CatInv
<1> HIDE DEF decls
<1>2. ASSUME NEW d \in Dbs, ShowDatabase(d) PROVE CatInv'
  <2>1. Left(ShowDb(Current, d), dropped, decls)
    BY <1>1, ShowDbSound
  <2> QED BY <1>2, <2>1, Executed DEF ShowDatabase, Unforgotten, decls
<1>3. CASE ShowDatabases
  <2>1. Left(ShowAllDb(Current), dropped, decls)
    BY <1>1, <1>3, ShowAllDbSound DEF ShowDatabases
  <2> QED BY <1>3, <2>1, Executed DEF ShowDatabases, Unforgotten, decls
<1>4. CASE ShowTables
  <2> DEFINE r == ShowAllTable(Current)
  <2>1. cwd # Root /\ Execute(r) /\ Unforgotten
    BY <1>4 DEF ShowTables
  <2>2. Leaves(r, Current, dropped, decls) /\ r.cwd = Current.cwd
    BY <1>1, <2>1, ShowAllTableSound, KeptLeaves
  <2>3. Left(r, dropped, decls)
    BY <1>1, <2>1, <2>2, LeavesLeft
  <2> HIDE DEF r
  <2> QED BY <2>1, <2>3, Executed DEF Unforgotten, decls
<1>5. ASSUME NEW t \in Tables, ShowTableStatement(t) PROVE CatInv'
  <2> DEFINE r == ShowTable(Current, t)
  <2>1. cwd # Root /\ Opens(Current, TableList) /\ Execute(r) /\ Unforgotten
    BY <1>5 DEF ShowTableStatement, InDatabase
  <2>2. Leaves(r, Current, dropped, decls) /\ r.cwd = Current.cwd
    BY <1>1, <2>1, ShowTableSound, KeptLeaves
  <2>3. Left(r, dropped, decls)
    BY <1>1, <2>1, <2>2, LeavesLeft
  <2> HIDE DEF r
  <2> QED BY <2>1, <2>3, Executed DEF Unforgotten, decls
<1> QED BY <1>2, <1>3, <1>4, <1>5 DEF ShowStatement

\* Of the databases that are left, one that is listed and not as it was is half
\* dropped.
LEMMA DropKeeps ==
  ASSUME CatInv, NEW d \in Dbs, DropDatabase(d)
  PROVE  CatInv'
<1> DEFINE decls  == Kempt(declared, halfDropped)
           others == Kempt(declared', halfDropped')
           c == Current'
<1>1. PICK gone \in SUBSET FilesIn(disk, d), removed \in BOOLEAN : Execute(DropDb(Current, d, gone, removed))
  BY DEF DropDatabase
<1>2. /\ cwd = Root /\ declared' = Remembered(declared)
      /\ halfDropped' = {x \in Dbs : HasList(disk', x) /\ (x \in halfDropped \/ disk'[x] # disk[x])}
  BY DEF DropDatabase
<1>3. /\ dropped = {} /\ Rooted(Current, decls) /\ Current.passed = {Current.disk} /\ Current.disk = disk
      /\ DiskRight(disk, decls) /\ DOMAIN decls = Dbs \ halfDropped
      /\ \A x \in DOMAIN decls : decls[x] = declared[x]
  BY <1>2, AtStatement
<1>4. disk \in Disk
  BY <1>3, RootParts
<1> DEFINE r == DropDb(Current, d, gone, removed)
<1> HIDE DEF decls
<1>5. Tame(r, {}) /\ r.cwd = Root /\ \A k \in r.passed : Dropping(k, disk, d)
  BY <1>3, DropDbSound
<1>6. \/ Becomes(r) /\ used' \in Dbs \cup {None} /\ dropped' = {}
      \/ Dies(r)
  BY <1>1, <1>3 DEF Execute, Finishes, CatInv
<1> HIDE DEF r
<1>7. \A k \in r.passed : DatabasesRight(k)
  BY <1>5 DEF Dropping
<1>8. /\ c.cwd = cwd' /\ c.disk = disk' /\ c.passed = {disk'}
      /\ Tame(c, dropped') /\ disk' \in r.passed /\ used' \in Dbs \cup {None}
      /\ cwd' = Root => dropped' = {}
      /\ cwd' # Root => cwd' = r.cwd /\ disk' = r.disk /\ dropped' = {}
  BY <1>5, <1>6, <1>7, SessionAfter
<1> HIDE DEF c
<1>9. /\ DOMAIN others = Dbs \ {x \in Dbs : HasList(disk', x) /\ (x \notin DOMAIN decls \/ disk'[x] # disk[x])}
      /\ \A x \in DOMAIN others : x \in Dbs /\ others[x] = declared'[x]
  BY <1>2, <1>3 DEF Kempt
<1> HIDE DEF others
<1>10. \A x \in Dbs : \A t \in Tables : t \in Listed(disk', x) => declared'[x][t] = declared[x][t]
  BY <1>2 DEF Remembered
<1>11. \A x \in DOMAIN others \cap DOMAIN decls : \A t \in Tables :
         t \in Listed(disk', x) => others[x][t] = decls[x][t]
  BY <1>3, <1>9, <1>10
<1>12. Dropping(disk', disk, d)
  BY <1>5, <1>8
<1>13. DiskRight(disk', others)
  BY <1>3, <1>4, <1>9, <1>11, <1>12, DroppingRight
<1>14. Left(c, dropped', others)
  BY <1>5, <1>8, <1>13 DEF Left
<1>15. declared' \in Told(Dbs)
  <2>1. \A x \in Dbs : \A t \in Tables : declared[x][t] \in Declarations \cup {None}
    BY DEF CatInv, Told
  <2> QED BY <1>2, <2>1 DEF Remembered, Told
<1>16. halfDropped' \subseteq Dbs /\ dropped' \subseteq Tables
  BY <1>2, <1>8
<1>17. Left(Current', dropped', Kempt(declared', halfDropped'))
  BY <1>14 DEF c, others
<1> QED BY <1>8, <1>15, <1>16, <1>17 DEF CatInv

LEMMA DatabaseKeeps ==
  ASSUME CatInv, NEW d \in Dbs, OrderlyDatabase(d)
  PROVE  CatInv'
<1> DEFINE decls == Kempt(declared, halfDropped)
<1>1. /\ cwd = Root => dropped = {} /\ Rooted(Current, decls)
      /\ Left(Current, dropped, decls) /\ DOMAIN decls = Dbs \ halfDropped
  BY AtStatement DEF CatInv
<1> HIDE DEF decls
<1>2. CASE CreateDatabase(d)
  <2>1. Left(CreateDb(Current, d), dropped, decls)
    BY <1>1, <1>2, CreateDbSound DEF CreateDatabase
  <2> QED BY <1>2, <2>1, Executed DEF CreateDatabase, Unforgotten, decls
<1>3. CASE DropDatabase(d)
  BY <1>3, DropKeeps
<1>4. CASE d \notin halfDropped /\ UseDatabase(d)
  <2> DEFINE r == OpenDb(Current, d)
  <2>1. Left(r, dropped, decls)
    BY <1>1, <1>4, OpenDbSound
  <2>2. /\ declared \in Told(Dbs) /\ dropped \in SUBSET Tables
        /\ declared' = declared /\ halfDropped' = halfDropped
        /\ Becomes(r) /\ used' \in Dbs \cup {None} /\ dropped' = dropped
    BY <1>4 DEF CatInv, UseDatabase, Unforgotten
  <2> HIDE DEF r
  <2> QED BY <2>1, <2>2, StepKeeps DEF decls
<1> QED BY <1>2, <1>3, <1>4 DEF OrderlyDatabase

LEMMA KemptMore ==
  ASSUME NEW full \in Told(Dbs), NEW half, NEW d \in Dbs \ half, NEW t \in Tables, NEW decl \in Declarations
  PROVE  LET more == [full EXCEPT ![d][t] = decl]
         IN  more \in Told(Dbs) /\ Kempt(more, half) = [Kempt(full, half) EXCEPT ![d][t] = decl]
<1> DEFINE x    == [full[d] EXCEPT ![t] = decl]
           more == [full EXCEPT ![d] = x]
<1>1. x \in [Tables -> Declarations \cup {None}]
  BY DEF Told
<1> HIDE DEF x
<1>2. more \in Told(Dbs) /\ more[d] = x /\ \A e \in Dbs \ {d} : more[e] = full[e]
  BY <1>1 DEF Told
<1>3. Kempt(more, half) = [Kempt(full, half) EXCEPT ![d] = x]
  BY <1>2 DEF Kempt
<1>4. Kempt(full, half)[d] = full[d]
  BY DEF Kempt
<1>5. [Kempt(full, half) EXCEPT ![d][t] = decl] = [Kempt(full, half) EXCEPT ![d] = x]
  BY <1>4 DEF x
<1>6. [full EXCEPT ![d][t] = decl] = more
  BY DEF x
<1> QED BY <1>2, <1>3, <1>5, <1>6

LEMMA CreateTableKeeps ==
  ASSUME CatInv, NEW t \in Tables \ dropped, NEW decl \in Declarations, CreateTableStatement(t, decl)
  PROVE  CatInv'
<1> DEFINE r     == CreateTable(Current, t, decl)
           decls == Kempt(declared, halfDropped)
           after == [declared EXCEPT ![cwd][t] = decl]
           full  == IF r.done THEN after ELSE declared
           told  == Kempt(full, halfDropped)
<1>1. cwd # Root /\ Execute(r) /\ declared' = Remembered(full) /\ halfDropped' = halfDropped
  BY DEF CreateTableStatement
<1>2. Working(Current, dropped, decls) /\ Current.cwd = cwd /\ cwd \in Dbs \ halfDropped
  BY <1>1, AtStatement
<1>3. /\ declared \in Told(Dbs) /\ dropped \in SUBSET Tables /\ used \in Dbs \cup {None}
      /\ Dbs \ halfDropped \in SUBSET Dbs
  BY DEF CatInv
<1>4. decls \in Told(Dbs \ halfDropped)
  BY <1>3 DEF Kempt, Told
<1>5. after \in Told(Dbs) /\ Kempt(after, halfDropped) = [decls EXCEPT ![cwd][t] = decl]
  BY <1>2, <1>3, KemptMore
<1> HIDE DEF decls
<1>6. /\ Leaves(r, Current, dropped, IF r.done THEN [decls EXCEPT ![Current.cwd][t] = decl] ELSE decls)
      /\ r.cwd = Current.cwd
  BY <1>2, <1>3, <1>4, CreateTableSound
<1> HIDE DEF r, after
<1>7. full \in Told(Dbs)
  BY <1>3, <1>5
<1>8. told = IF r.done THEN [decls EXCEPT ![Current.cwd][t] = decl] ELSE decls
  BY <1>2, <1>5 DEF decls
<1>9. DOMAIN told = Dbs \ halfDropped
  BY DEF Kempt
<1> HIDE DEF full, told
<1>10. Left(r, dropped, told)
  BY <1>1, <1>2, <1>6, <1>8, <1>9, LeavesLeft
<1>11. \/ Becomes(r) /\ used' \in Dbs \cup {None} /\ dropped' = dropped
       \/ Dies(r)
  BY <1>1, <1>3 DEF Execute, Finishes
<1> QED BY <1>1, <1>3, <1>7, <1>10, <1>11, StepKeeps DEF told

LEMMA DropTableKeeps ==
  ASSUME CatInv, NEW t \in Tables \ dropped, DropTableStatement(t)
  PROVE  CatInv'
<1> DEFINE r == DropTable(Current, t)
           D == IF r.done THEN dropped \cup {t} ELSE dropped
           decls == Kempt(declared, halfDropped)
<1>1. /\ cwd # Root /\ declared' = Remembered(declared) /\ halfDropped' = halfDropped
      /\ \/ Finishes(r) /\ dropped' = D
         \/ Dies(r)
  BY DEF DropTableStatement
<1>2. Working(Current, dropped, decls) /\ Current.cwd = cwd /\ cwd \in DOMAIN decls
  BY <1>1, AtStatement
<1> HIDE DEF decls
<1>3. declared \in Told(Dbs) /\ D \in SUBSET Tables /\ used \in Dbs \cup {None}
  BY DEF CatInv
<1>4. Leaves(r, Current, D, decls) /\ r.cwd = Current.cwd
  BY <1>2, DropTableSound
<1> HIDE DEF r
<1> HIDE DEF D
<1>5. Left(r, D, decls)
  BY <1>1, <1>2, <1>4, LeavesLeft
<1>6. \/ Becomes(r) /\ used' \in Dbs \cup {None} /\ dropped' = D
      \/ Dies(r)
  BY <1>1, <1>3 DEF Finishes
<1> QED BY <1>1, <1>3, <1>5, <1>6, StepKeeps DEF decls

LEMMA RecordsKeep ==
  ASSUME CatInv, NEW t \in Listed(disk, cwd), RecordsStatement(t, FALSE)
  PROVE  CatInv'
<1> DEFINE r == RecordStatement(Current, t, FALSE)
           decls == Kempt(declared, halfDropped)
<1>1. cwd # Root /\ Execute(r) /\ Unforgotten
  BY DEF RecordsStatement
<1>2. /\ Working(Current, dropped, decls) /\ Current.cwd = cwd /\ Current.disk = disk
      /\ cwd \in DOMAIN decls
  BY <1>1, AtStatement
<1> HIDE DEF decls
<1>3. Leaves(r, Current, dropped, decls) /\ r.cwd = Current.cwd
  <2>1. t \in Listed(Current.disk, Current.cwd)
    BY <1>2
  <2>2. Kept(r, Current, dropped, decls)
    BY <1>2, <2>1, RecordStatementSound
  <2> QED BY <2>2, KeptLeaves
<1>4. Left(r, dropped, decls)
  BY <1>1, <1>2, <1>3, LeavesLeft
<1> HIDE DEF r
<1> QED BY <1>1, <1>4, Executed DEF Unforgotten, decls

LEMMA StepCat ==
  ASSUME CatInv, [OrderlyNext]_vars
  PROVE  CatInv'
<1>1. CASE ShowStatement
  BY <1>1, ShowKeeps
<1>2. ASSUME NEW d \in Dbs, OrderlyDatabase(d) PROVE CatInv'
  BY <1>2, DatabaseKeeps
<1>3. ASSUME NEW t \in Tables \ dropped, NEW decl \in Declarations, CreateTableStatement(t, decl)
      PROVE  CatInv'
  BY <1>3, CreateTableKeeps
<1>4. ASSUME NEW t \in Tables \ dropped, DropTableStatement(t) PROVE CatInv'
  BY <1>4, DropTableKeeps
<1>5. ASSUME NEW t \in Listed(disk, cwd), RecordsStatement(t, FALSE) PROVE CatInv'
  BY <1>5, RecordsKeep
<1>6. CASE UNCHANGED vars
  <2>1. /\ Current' = Current /\ declared' = declared /\ halfDropped' = halfDropped
        /\ used' = used /\ dropped' = dropped
    BY <1>6 DEF vars, Current
  <2> HIDE DEF Current
  <2> QED BY <2>1 DEF CatInv
<1> QED BY <1>1, <1>2, <1>3, <1>4, <1>5, <1>6 DEF OrderlyNext

-----------------------------------------------------------------------------
(* What orderly sessions keep true.                                         *)

\* The session is sound, what is open or in a frame is what is on disk, and the
\* disk is as the statements that were answered declared it (sm.cc:188-621), but
\* for the databases that DROP DATABASE left a list of tables and not all of the
\* other files (sm.cc:169-182): no session uses those before dropping them again.
THEOREM CatalogueInductive == OrderlySpec => []CatInv
<1>1. Init => CatInv
  BY InitCat
<1>2. CatInv /\ [OrderlyNext]_vars => CatInv'
  BY StepCat
<1> QED BY <1>1, <1>2, PTL DEF OrderlySpec

LEMMA TypesRight ==
  ASSUME CatInv
  PROVE  TypeOK
<1> DEFINE decls == Kempt(declared, halfDropped)
<1>1. /\ Tame(Current, dropped) /\ DiskRight(disk, decls)
      /\ Current.cwd = cwd /\ Current.disk = disk /\ Current.passed = {disk}
      /\ Current.open = open /\ Current.frames = frames
  BY AtStatement
<1> HIDE DEF decls
<1>2. Sound(Current, dropped)
  BY <1>1 DEF Tame
<1>3. /\ Current.cwd \in Dbs \cup {Root} /\ Current.disk \in Disk
      /\ Current.open \in [FileNames -> OpenFiles \cup {None}] /\ Current.frames \in Seq(Frames)
      /\ IdsApart(Current.open)
  BY ONLY <1>2, SoundParts
<1>4. \A m, n \in FileNames : open[m] # None /\ open[n] # None /\ m # n => open[m].id # open[n].id
  BY <1>1, <1>3 DEF IdsApart
<1>5. disk[Root][DatabaseList] # None =>
        WellFormed(ListIn(disk[Root][DatabaseList][0]), MaxDatabases)
  BY <1>1 DEF DiskRight, DatabasesRight, NamesRight
<1>6. \A d \in Dbs : HasList(disk, d) => WellFormed(ListIn(disk[d][TableList][0]), MaxTables)
  BY <1>1 DEF DiskRight, ListsRight, ListOn, NamesRight
<1> QED BY <1>1, <1>3, <1>4, <1>5, <1>6 DEF TypeOK, CatInv, Told

\* Sessions are well-formed, ids distinguish open files (BufPageManager.h:107-
\* 130), and the lists on disk have no name twice and fit their arrays.
THEOREM CatalogueTyped == OrderlySpec => []TypeOK
<1>1. CatInv => TypeOK
  BY TypesRight
<1> QED BY <1>1, CatalogueInductive, PTL

\* Wherever the program dies, the list of tables of a database names no table
\* without its two files (sm.cc:347-395 and 603-621), unless DROP DATABASE left
\* the database with its list and without other files of it (sm.cc:169-182).
THEOREM ListedTablesAreThere == OrderlySpec => []ListedTablesHaveFiles
<1>1. ASSUME CatInv PROVE ListedTablesHaveFiles
  <2> DEFINE decls == Kempt(declared, halfDropped)
  <2>1. DiskRight(disk, decls) /\ DOMAIN decls = Dbs \ halfDropped
    BY <1>1, AtStatement
  <2> HIDE DEF decls
  <2>2. \A d \in Dbs \ halfDropped : \A t \in Listed(disk, d) : Described(disk[d], t, decls[d][t])
    BY <2>1, ListedParts
  <2> QED BY <2>2 DEF ListedTablesHaveFiles, Described
<1> QED BY <1>1, CatalogueInductive, PTL

LEMMA DescribedSays ==
  ASSUME CatInv
  PROVE  MetaAsDeclared
<1> DEFINE decls == Kempt(declared, halfDropped)
<1>1. /\ DiskRight(disk, decls) /\ DOMAIN decls = Dbs \ halfDropped
      /\ \A d \in DOMAIN decls : decls[d] = declared[d]
  BY AtStatement
<1> HIDE DEF decls
<1>2. ASSUME NEW d \in Dbs \ halfDropped, NEW t \in Listed(disk, d)
      PROVE  LET decl == declared[d][t]
                 info == InfoIn(disk[d][Meta(t)][0])
             IN  /\ info = [InfoOf(decl) EXCEPT !.indexed = info.indexed]
                 /\ \A k \in DOMAIN decl.cons : disk[d][Meta(t)][k] = decl.cons[k]
                 /\ disk[d][Data(t)][0] = RecordHeader(decl)
  <2> DEFINE decl == declared[d][t]
             info == InfoIn(disk[d][Meta(t)][0])
  <2>1. decl \in Declarations /\ Described(disk[d], t, decl)
    BY <1>1, ListedParts
  <2> HIDE DEF decl
  <2>2. info = InfoOf(decl)
    BY <2>1, InfoParts DEF Described
  <2>3. InfoOf(decl) = [InfoOf(decl) EXCEPT !.indexed = InfoOf(decl).indexed]
    BY DEF InfoOf
  <2> HIDE DEF info
  <2> QED BY <2>1, <2>2, <2>3 DEF Described, decl, info
<1> QED BY <1>2 DEF MetaAsDeclared

\* The files of a listed table say what its CREATE TABLE said (sm.cc:354-380),
\* whatever was refused half way, left open or in a frame, and wherever the
\* program died, but for databases left behind half dropped.
THEOREM TablesAreAsDeclared == OrderlySpec => []MetaAsDeclared
<1>1. CatInv => MetaAsDeclared
  BY DescribedSays
<1> QED BY <1>1, CatalogueInductive, PTL

LEMMA FramesAgree ==
  ASSUME CatInv
  PROVE  SeenIsOnDisk
<1> SUFFICES ASSUME HasList(disk, cwd), cwd # Root
             PROVE  /\ ListSeen(OpenFile(Current, TableList), TableList) = ListIn(disk[cwd][TableList][0])
                    /\ \A t \in Listed(disk, cwd) :
                         /\ \A p \in Page : Seen(OpenFile(Current, Meta(t)), Meta(t), p) = disk[cwd][Meta(t)][p]
                         /\ Seen(OpenFile(Current, Data(t)), Data(t), 0) = disk[cwd][Data(t)][0]
  BY DEF SeenIsOnDisk
<1> DEFINE decls == Kempt(declared, halfDropped)
<1>1. /\ Working(Current, dropped, decls) /\ Tame(Current, dropped) /\ DiskRight(disk, decls)
      /\ Current.cwd = cwd /\ Current.disk = disk /\ cwd \in Dbs \cap DOMAIN decls
  BY AtStatement
<1> HIDE DEF Current, decls
<1>2. Sound(Current, dropped) /\ dropped \cap Listed(disk, cwd) = {}
  BY <1>1 DEF Tame, Working
<1>3. ListSeen(OpenFile(Current, TableList), TableList) = ListIn(disk[cwd][TableList][0])
  <2>1. Opens(Current, TableList)
    BY <1>1 DEF Opens, HasList
  <2>2. ListSeen(OpenFile(Current, TableList), TableList) = ListOn(Current.disk, Current.cwd)
    BY <1>1, <2>1, ListReadTame
  <2> QED BY <1>1, <2>2 DEF ListOn
<1>4. ASSUME NEW t \in Listed(disk, cwd), NEW n \in {Meta(t), Data(t)}, NEW p \in Page
      PROVE  Seen(OpenFile(Current, n), n, p) = disk[cwd][n][p]
  <2>1. t \in Tables /\ t \notin dropped /\ Described(disk[cwd], t, decls[cwd][t])
    BY <1>1, <1>2, ListedParts
  <2>2. n \in FileNames \ FilesOf(dropped) /\ n \notin {DatabaseList, TableList}
    BY <2>1, FilesKept
  <2>3. Opens(Current, n)
    BY <1>1, <2>1 DEF Opens, Described
  <2> DEFINE a == OpenFile(Current, n)
  <2>4. /\ Sound(a, dropped) /\ ButOpen(a, Current)
        /\ \A m \in FileNames \ {n} : a.open[m] = Current.open[m]
        /\ a.open[n] # None
    BY <1>2, <2>2, <2>3, FileOpened
  <2> HIDE DEF a
  <2>5. CanGet(a, dropped, n, p)
    BY <1>1, <2>2, <2>4 DEF CanGet, ButOpen
  <2>6. Seen(a, n, p) = a.disk[a.cwd][n][p]
    BY <2>2, <2>5, GetPageSound
  <2> QED BY <1>1, <2>4, <2>6 DEF ButOpen, a
<1>5. 0 \in Page
  BY SessionAssumption DEF Page
<1> QED BY <1>3, <1>4, <1>5

\* A statement finds in the frames what is on disk: no page of a file that was
\* closed, dropped or written since under another id (sm.cc:188-222, 347-395), in
\* sessions that use no database left behind half dropped.
THEOREM StatementsSeeTheDisk == OrderlySpec => []SeenIsOnDisk
<1>1. CatInv => SeenIsOnDisk
  BY FramesAgree
<1> QED BY <1>1, CatalogueInductive, PTL

LEMMA RefusalsKeep ==
  ASSUME CatInv
  PROVE  RefusedWritesNothing
<1> SUFFICES ASSUME cwd # Root, NEW t \in Tables \ dropped
             PROVE  /\ WritesIfDone(DropTable(Current, t))
                    /\ \A decl \in Declarations : WritesIfDone(CreateTable(Current, t, decl))
  BY DEF RefusedWritesNothing
<1> DEFINE decls == Kempt(declared, halfDropped)
<1>1. /\ Working(Current, dropped, decls) /\ Current.passed = {disk}
      /\ decls \in Told(Dbs \ halfDropped) /\ Dbs \ halfDropped \in SUBSET Dbs
  BY AtStatement DEF CatInv, Kempt, Told
<1> HIDE DEF decls
<1>2. WritesIfDone(DropTable(Current, t))
  <2> DEFINE r == DropTable(Current, t)
  <2>1. Leaves(r, Current, IF r.done THEN dropped \cup {t} ELSE dropped, decls) /\ r.cwd = Current.cwd
    BY <1>1, DropTableSound
  <2> HIDE DEF r
  <2> QED BY <1>1, <2>1 DEF Leaves, WritesIfDone, r
<1>3. ASSUME NEW decl \in Declarations PROVE WritesIfDone(CreateTable(Current, t, decl))
  <2> DEFINE r == CreateTable(Current, t, decl)
  <2>1. /\ Leaves(r, Current, dropped,
                  IF r.done THEN [decls EXCEPT ![Current.cwd][t] = decl] ELSE decls)
        /\ r.cwd = Current.cwd
    BY <1>1, CreateTableSound
  <2> HIDE DEF r
  <2> QED BY <1>1, <2>1 DEF Leaves, WritesIfDone, r
<1> QED BY <1>2, <1>3

\* A CREATE TABLE or DROP TABLE that answers an error has written nothing
\* (sm.cc:237-349 and 580-611), in sessions that use no database left behind half
\* dropped: there DROP TABLE writes the list and then answers an error.
THEOREM RefusalsWriteNothing == OrderlySpec => []RefusedWritesNothing
<1>1. CatInv => RefusedWritesNothing
  BY RefusalsKeep
<1> QED BY <1>1, CatalogueInductive, PTL
=============================================================================
