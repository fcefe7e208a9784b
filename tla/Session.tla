------------------------------- MODULE Session -------------------------------
(***************************************************************************)
(* What a statement of SM_Manager does to the files of a database: the     *)
(* calls of BufPageManager and FileManager, each as an operator from a     *)
(* session to a session, so that a statement is the composition of its     *)
(* calls.                                                                  *)
(*                                                                         *)
(* A session is a record of                                                *)
(*   cwd     the directory the process is in: Root or a database           *)
(*   disk    directory -> file name -> page -> content                     *)
(*   open    name_to_id: file name -> id, the directory it was opened in   *)
(*           and, once it was unlinked, the content only the id reaches    *)
(*   frames  the frames that have a key, in the order of their chains:     *)
(*           latest first                                                  *)
(*   passed  the disks there were since the statement began                *)
(*   done    whether the statement answered 0                              *)
(*                                                                         *)
(* There are as many frames and ids as are asked for: evictions, pins and  *)
(* failed calls of open(2), which BufPageManager and FileManager have, are *)
(* left out.  Then descriptors follow ids, and a page written through a    *)
(* closed id goes nowhere.                                                 *)
(***************************************************************************)
EXTENDS Integers, Sequences, SequencesExt, FiniteSetsExt

CONSTANTS Root,        \* the directory the program is started in
          Dbs,         \* names of databases
          Tables,      \* names of tables
          Attrs,       \* attribute numbers
          MaxCons,     \* constraints a table has at most
          None         \* no directory, no file, not open, no name

ASSUME SessionAssumption ==
  /\ Root \notin Dbs
  /\ Attrs \subseteq Nat /\ IsFiniteSet(Attrs)
  /\ MaxCons \in Nat

DatabaseList == <<"DatabaseList">>
TableList    == <<"TableList">>
Meta(t)      == <<"meta", t>>
Data(t)      == <<"data", t>>
IndexOf(t, a) == <<"index", t, a>>
FileNames == {DatabaseList, TableList} \cup {Meta(t) : t \in Tables} \cup {Data(t) : t \in Tables}
             \cup {IndexOf(t, a) : t \in Tables, a \in Attrs}
Page == 0 .. MaxCons

\* Contents of pages.  Bytes that were written as something else than what they
\* are read as count as zeros.
ZeroPage == [kind |-> "zero"]
NewFile  == [p \in Page |-> ZeroPage]
EmptyDir == [n \in FileNames |-> None]

-----------------------------------------------------------------------------
(* Files.                                                                   *)

\* A write that reaches the disk.
OnDisk(s, d) == [s EXCEPT !.disk = d, !.passed = @ \cup {d}]

\* createFile: the file is made or emptied, in the current directory.
CreateFile(s, n) == OnDisk(s, [s.disk EXCEPT ![s.cwd][n] = NewFile])

\* remove(n): an id the file is open under still reaches it.
Unlinked(o, n, disk, dir) ==
  IF o # None /\ o.at = dir /\ o.gone = None THEN [o EXCEPT !.gone = disk[dir][n]] ELSE o

DeleteFile(s, n) ==
  [OnDisk(s, [s.disk EXCEPT ![s.cwd][n] = None])
     EXCEPT !.open[n] = Unlinked(@, n, s.disk, s.cwd)]

\* openFile answers true: the name is open, wherever and whatever the file was,
\* or there is such a file in the current directory.
Opens(s, n) == s.open[n] # None \/ s.disk[s.cwd][n] # None

UsedIds(s) == {s.open[n].id : n \in {m \in FileNames : s.open[m] # None}}
FreeId(s)  == CHOOSE k \in 0 .. Cardinality(UsedIds(s)) :
                k \notin UsedIds(s) /\ \A j \in 0 .. (k - 1) : j \in UsedIds(s)

OpenFile(s, n) ==
  IF s.open[n] # None \/ ~Opens(s, n) THEN s
  ELSE [s EXCEPT !.open[n] = [id |-> FreeId(s), at |-> s.cwd, gone |-> None]]

\* closeFile: the frames of the file keep their keys.
CloseFile(s, n) == [s EXCEPT !.open[n] = None]

\* writePage through an id.
WritePage(s, id, p, v) ==
  LET names == {n \in FileNames : s.open[n] # None /\ s.open[n].id = id}
      n     == CHOOSE m \in names : TRUE
  IN  IF names = {} THEN s
      ELSE IF s.open[n].gone # None THEN [s EXCEPT !.open[n].gone[p] = v]
      ELSE OnDisk(s, [s.disk EXCEPT ![s.open[n].at][n][p] = v])

ReadPage(s, n, p) ==
  IF s.open[n].gone # None THEN s.open[n].gone[p] ELSE s.disk[s.open[n].at][n][p]

-----------------------------------------------------------------------------
(* Frames.  n is a file that is open.                                       *)

\* findIndex: the first frame with the key of the page, 0 for none.
FrameOf(s, n, p) ==
  LET hits == {k \in DOMAIN s.frames : s.frames[k].id = s.open[n].id /\ s.frames[k].page = p}
  IN  IF hits = {} THEN 0 ELSE Min(hits)

\* getPage: the frame found, when it was filled for a file of this name.
GetPage(s, n, p) ==
  LET k == FrameOf(s, n, p)
  IN  IF k # 0 /\ s.frames[k].name = n THEN s
      ELSE [s EXCEPT !.frames = Cons([id |-> s.open[n].id, page |-> p, name |-> n,
                                      data |-> ReadPage(s, n, p), dirty |-> FALSE], @)]

\* What the caller finds in the frame.
Seen(s, n, p) == GetPage(s, n, p).frames[FrameOf(GetPage(s, n, p), n, p)].data

\* getPage, and the caller changes the page.
Changed(s, n, p, v) ==
  LET g == GetPage(s, n, p) IN [g EXCEPT !.frames[FrameOf(g, n, p)].data = v]

\* The same with markDirty.
Marked(s, n, p, v) ==
  LET g == Changed(s, n, p, v) IN [g EXCEPT !.frames[FrameOf(g, n, p)].dirty = TRUE]

Release(s, n, p) == [s EXCEPT !.frames = RemoveAt(@, FrameOf(s, n, p))]

\* getPage, a change, markDirty and writeBack.
Stored(s, n, p, v) ==
  LET g == GetPage(s, n, p) IN WritePage(Release(g, n, p), g.open[n].id, p, v)

\* close: writeBack of every frame.
CloseAll(s) ==
  LET n == Len(s.frames)
      after[i \in 0 .. n] ==
        IF i = 0 THEN [s EXCEPT !.frames = << >>]
        ELSE LET f == s.frames[(n + 1) - i]
             IN  IF f.dirty THEN WritePage(after[i - 1], f.id, f.page, f.data) ELSE after[i - 1]
  IN  after[n]

\* The process ends, in any way, and is started again in Root.
Started(disk) == [cwd |-> Root, disk |-> disk, open |-> [n \in FileNames |-> None],
                  frames |-> << >>, passed |-> {disk}, done |-> TRUE]

Done(s)    == [s EXCEPT !.done = TRUE]
Refused(s) == [s EXCEPT !.done = FALSE]
=============================================================================
