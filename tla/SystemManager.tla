---------------------------- MODULE SystemManager ----------------------------
(***************************************************************************)
(* systemmanager/sm.cc: the statements about databases and tables.         *)
(*                                                                         *)
(* The root directory holds the list of databases, the directory of a      *)
(* database its list of tables and, for each table, a file for what is     *)
(* known of it, a file of records and a file for each index.  Page 0 of    *)
(* the first (TableInfo) has the attributes, the attributes indexed and    *)
(* the number of constraints, page i the i-th constraint.                  *)
(*                                                                         *)
(* A statement is an operator from a session (Session.tla) to the session  *)
(* it leaves behind; what it prints is left out.                           *)
(***************************************************************************)
EXTENDS Session

CONSTANTS MaxDatabases,  \* MAX_DATABASES
          MaxTables,     \* MAX_TABLES
          TooLong        \* attributes IX_Manager makes no index for: over 100 bytes

ASSUME SystemAssumption == MaxDatabases \in Nat /\ MaxTables \in Nat

\* A constraint: isPrimary, constraintName, thisNameList and, of a foreign key,
\* foreignTableName and referencesNameList.
NoConstraint == [kind |-> "constraint", primary |-> FALSE, name |-> None, this |-> << >>,
                 foreign |-> None, refs |-> << >>]

NoInfo == [kind |-> "info", attrs |-> {}, notNull |-> {}, indexed |-> << >>, count |-> 0]

ListIn(v)       == IF v.kind = "list" THEN v.names ELSE << >>
InfoIn(v)       == IF v.kind = "info" THEN v ELSE NoInfo
ConstraintIn(v) == IF v.kind = "constraint" THEN v ELSE NoConstraint
ListPage(names) == [kind |-> "list", names |-> names]

ListSeen(s, n)          == ListIn(Seen(s, n, 0))
InfoSeen(s, t)          == InfoIn(Seen(s, Meta(t), 0))
ConstraintSeen(s, t, k) == ConstraintIn(Seen(s, Meta(t), k))

\* Mutant of Dropped: the list gets no shorter.
DroppedKept(names, x) ==
  LET k == CHOOSE i \in DOMAIN names : names[i] = x /\ \A j \in 1 .. (i - 1) : names[j] # x
  IN  [names EXCEPT ![k] = Last(names)]

\* The last name of a list takes the place of the one dropped.
Dropped(names, x) ==
  LET k == CHOOSE i \in DOMAIN names : names[i] = x /\ \A j \in 1 .. (i - 1) : names[j] # x
  IN  Front([names EXCEPT ![k] = Last(names)])

\* getPage of the pages 1 to k.
PagesRead(s, n, k) ==
  LET after[i \in 0 .. k] == IF i = 0 THEN s ELSE GetPage(after[i - 1], n, i) IN after[k]

-----------------------------------------------------------------------------
(* Databases.                                                               *)

CreateDb(s, d) ==
  LET a     == OpenFile(CreateFile(s, DatabaseList), DatabaseList)
      names == ListSeen(a, DatabaseList)
      b     == CloseFile(Stored(a, DatabaseList, 0, ListPage(Append(names, d))), DatabaseList)
      c     == OnDisk(b, [b.disk EXCEPT ![d] = EmptyDir])
      e     == CreateFile([c EXCEPT !.cwd = d], TableList)
  IN  IF Len(names) = MaxDatabases \/ d \in ToSet(names)
      THEN Refused(GetPage(a, DatabaseList, 0))
      ELSE IF b.disk[d] # None THEN Refused(b)
      ELSE Done([e EXCEPT !.cwd = Root])

OpenDb(s, d) ==
  IF s.cwd = Root /\ s.disk[d] # None THEN Done([s EXCEPT !.cwd = d]) ELSE Refused(s)

CloseDb(s) == Done([s EXCEPT !.cwd = Root])

\* The files of the directory of d, and disk k without some of them.
FilesIn(k, d)       == {n \in FileNames : k[d] # None /\ k[d][n] # None}
Without(k, d, gone) == [k EXCEPT ![d] = [n \in FileNames |-> IF n \in gone THEN None ELSE k[d][n]]]

\* readdir and unlink: one file after another, in any order, until those of gone
\* are.  Where unlink fails, the file stays, and nothing is said of it.
Emptied(s, d, gone) ==
  [s EXCEPT !.disk   = Without(s.disk, d, gone),
            !.passed = @ \cup {Without(s.disk, d, part) : part \in SUBSET gone},
            !.open   = [n \in FileNames |-> IF n \in gone THEN Unlinked(s.open[n], n, s.disk, d)
                                                          ELSE s.open[n]]]

\* rmdir: removed, or something is left in the directory.
DirectoryRemoved(s, d, gone, removed) ==
  LET e == Emptied(s, d, gone)
  IN  IF removed THEN Done(OnDisk(e, [e.disk EXCEPT ![d] = None])) ELSE Refused(e)

DropDb(s, d, gone, removed) ==
  LET a     == OpenFile(s, DatabaseList)
      names == ListSeen(a, DatabaseList)
      b     == CloseFile(Stored(a, DatabaseList, 0, ListPage(Dropped(names, d))), DatabaseList)
  IN  IF ~Opens(s, DatabaseList) THEN Refused(s)
      ELSE IF d \notin ToSet(names) THEN Refused(GetPage(a, DatabaseList, 0))
      ELSE IF b.cwd # Root \/ b.disk[d] = None THEN Refused(b)
      ELSE DirectoryRemoved(b, d, gone, removed)

\* A directory without a list of tables stays the current one.
ShowDb(s, d) ==
  LET in == [s EXCEPT !.cwd = d]
      a  == GetPage(OpenFile(in, TableList), TableList, 0)
  IN  IF s.cwd # Root \/ s.disk[d] = None THEN Refused(s)
      ELSE IF ~Opens(in, TableList) THEN Refused(in)
      ELSE Done([CloseFile(Release(a, TableList, 0), TableList) EXCEPT !.cwd = Root])

\* The list stays open.
ShowAllDb(s) ==
  LET a     == GetPage(OpenFile(s, DatabaseList), DatabaseList, 0)
      names == ListSeen(a, DatabaseList)
      after[i \in 0 .. Len(names)] ==
        IF i = 0 THEN Done(a)
        ELSE IF after[i - 1].done THEN ShowDb(after[i - 1], names[i]) ELSE after[i - 1]
  IN  IF ~Opens(s, DatabaseList) THEN Refused(s)
      ELSE after[Len(names)]

-----------------------------------------------------------------------------
(* Tables.                                                                  *)

\* TableExist: what the caller has of the list is given back, and the list is
\* closed.  Where there is none every table exists (-1).
Exists(s, t) == Opens(s, TableList) => t \in ToSet(ListSeen(OpenFile(s, TableList), TableList))

\* Mutant of TableExist: the frame of the list keeps its key.
TableExistUnreleased(s, t) ==
  IF ~Opens(s, TableList) THEN s
  ELSE CloseFile(GetPage(OpenFile(s, TableList), TableList, 0), TableList)

TableExist(s, t) ==
  IF ~Opens(s, TableList) THEN s
  ELSE CloseFile(Release(GetPage(OpenFile(s, TableList), TableList, 0), TableList, 0), TableList)

\* AttrListEqual: as many names, and the second list has none the first has not.
AttrListEqual(a, b) == Len(a) = Len(b) /\ ToSet(b) \subseteq ToSet(a)

\* The first primary key of a table whose file is open, 0 for none.
PrimaryOf(s, t) ==
  LET keys == {k \in 1 .. InfoSeen(s, t).count : ConstraintSeen(s, t, k).primary}
  IN  IF keys = {} THEN 0 ELSE Min(keys)
\* The search for it reads the constraints up to the one found.
SearchedPrimary(s, t) ==
  PagesRead(GetPage(s, Meta(t), 0), Meta(t),
            IF PrimaryOf(s, t) = 0 THEN InfoSeen(s, t).count ELSE PrimaryOf(s, t))

\* The checks of one constraint c of a new table: what was seen so far, and
\* whether c is refused.
RefersToKey(s, c) ==
  LET k == PrimaryOf(s, c.foreign)
  IN  k # 0 /\ AttrListEqual(ConstraintSeen(s, c.foreign, k).this, c.refs)

CheckedConstraint(a, c, decl) ==
  LET refuse == [a EXCEPT !.ok = FALSE]
      listed == TableExist(a.s, c.foreign)
      opened == OpenFile(listed, Meta(c.foreign))
      read   == CloseFile(SearchedPrimary(opened, c.foreign), Meta(c.foreign))
  IN  IF ~a.ok \/ c.name \in a.names THEN refuse
      ELSE IF c.primary
      THEN IF a.primaries > 1 \/ ~(ToSet(c.this) \subseteq decl.notNull) THEN refuse
           ELSE [a EXCEPT !.primaries = @ + 1, !.names = @ \cup {c.name}]
      ELSE IF \/ ~Exists(a.s, c.foreign)
              \/ c.foreign \in a.foreigns
              \/ ~(ToSet(c.this) \subseteq decl.attrs)
      THEN [refuse EXCEPT !.s = listed]
      ELSE [a EXCEPT !.s = read, !.names = @ \cup {c.name}, !.foreigns = @ \cup {c.foreign},
                     !.ok = RefersToKey(opened, c)]

Checked(s, decl) ==
  LET n == Len(decl.cons)
      after[k \in 0 .. n] ==
        IF k = 0 THEN [s |-> s, ok |-> TRUE, names |-> {}, foreigns |-> {}, primaries |-> 0]
        ELSE CheckedConstraint(after[k - 1], decl.cons[k], decl)
  IN  after[n]

InfoOf(decl) == [kind |-> "info", attrs |-> decl.attrs, notNull |-> decl.notNull,
                 indexed |-> << >>, count |-> Len(decl.cons)]

\* Mutant of MetaWritten: the constraints begin at page 0.
MetaWrittenOver(s, t, decl) ==
  LET a == Stored(OpenFile(CreateFile(s, Meta(t)), Meta(t)), Meta(t), 0, InfoOf(decl))
      n == Len(decl.cons)
      after[k \in 0 .. n] == IF k = 0 THEN a ELSE Stored(after[k - 1], Meta(t), k - 1, decl.cons[k])
  IN  CloseFile(after[n], Meta(t))

\* The file of a table is written and closed: page 0, then the constraints.
MetaWritten(s, t, decl) ==
  LET a == Stored(OpenFile(CreateFile(s, Meta(t)), Meta(t)), Meta(t), 0, InfoOf(decl))
      n == Len(decl.cons)
      after[k \in 0 .. n] == IF k = 0 THEN a ELSE Stored(after[k - 1], Meta(t), k, decl.cons[k])
  IN  CloseFile(after[n], Meta(t))

\* RM_Manager::CreateFile.
RecordHeader(decl) == [kind |-> "records", size |-> Cardinality(decl.attrs)]

DataWritten(s, t, decl) ==
  CloseFile(Stored(OpenFile(CreateFile(s, Data(t)), Data(t)), Data(t), 0, RecordHeader(decl)),
            Data(t))

TableListed(s, t) ==
  LET a == OpenFile(s, TableList)
  IN  CloseFile(Stored(a, TableList, 0, ListPage(Append(ListSeen(a, TableList), t))), TableList)

\* Mutant of CreateTable: the table is listed while the list is open.
CreateTableListedFirst(s, t, decl) ==
  LET a     == GetPage(OpenFile(s, TableList), TableList, 0)
      names == ListSeen(a, TableList)
      b     == Checked(TableListed(a, t), decl)
  IN  IF ~Opens(s, TableList) THEN Refused(s)
      ELSE IF t \in ToSet(names) \/ Len(names) = MaxTables THEN Refused(a)
      ELSE IF ~b.ok THEN Refused(b.s)
      ELSE Done(DataWritten(MetaWritten(b.s, t, decl), t, decl))

CreateTable(s, t, decl) ==
  LET a     == GetPage(OpenFile(s, TableList), TableList, 0)
      names == ListSeen(a, TableList)
      b     == Checked(CloseFile(a, TableList), decl)
  IN  IF ~Opens(s, TableList) THEN Refused(s)
      ELSE IF t \in ToSet(names) \/ Len(names) = MaxTables THEN Refused(a)
      ELSE IF ~b.ok THEN Refused(b.s)
      ELSE Done(TableListed(DataWritten(MetaWritten(b.s, t, decl), t, decl), t))

\* ShowTable: the record file's handle goes out of scope last, and its
\* destructor closes the page manager.
ShowTable(s, t) ==
  LET a == OpenFile(TableExist(s, t), Meta(t))
      b == PagesRead(GetPage(a, Meta(t), 0), Meta(t), InfoSeen(a, t).count)
      c == GetPage(OpenFile(b, Data(t)), Data(t), 0)
  IN  IF ~Exists(s, t) THEN Refused(TableExist(s, t))
      ELSE IF ~Opens(b, Data(t)) THEN Refused(b)
      ELSE Done(CloseAll(CloseFile(CloseFile(c, Meta(t)), Data(t))))

\* ShowTable closes the list that is being read, which stays in its frame.
ShowAllTable(s) ==
  LET a     == GetPage(OpenFile(s, TableList), TableList, 0)
      names == ListSeen(a, TableList)
      after[i \in 0 .. Len(names)] ==
        IF i = 0 THEN Done(a)
        ELSE IF after[i - 1].done THEN ShowTable(after[i - 1], names[i]) ELSE after[i - 1]
  IN  IF ~Opens(s, TableList) THEN Refused(s) ELSE after[Len(names)]

DropTable(s, t) ==
  LET a       == OpenFile(s, TableList)
      names   == ListSeen(a, TableList)
      b       == CloseFile(Stored(a, TableList, 0, ListPage(Dropped(names, t))), TableList)
      c       == GetPage(OpenFile(b, Meta(t)), Meta(t), 0)
      indexed == InfoSeen(c, t).indexed
      after[i \in 0 .. Len(indexed)] ==
        IF i = 0 THEN c ELSE DeleteFile(after[i - 1], IndexOf(t, indexed[i]))
  IN  IF ~Opens(s, TableList) THEN Refused(s)
      ELSE IF t \notin ToSet(names) THEN Refused(GetPage(a, TableList, 0))
      ELSE IF ~Opens(b, Meta(t)) THEN Refused(b)
      ELSE Done(DeleteFile(DeleteFile(after[Len(indexed)], Meta(t)), Data(t)))

-----------------------------------------------------------------------------
(* Keys and indexes.                                                        *)

\* The constraint pages are changed and marked dirty, but not written back
\* before the file is closed.
AlterPrimaryKey(s, t, add, attrs) ==
  LET a     == OpenFile(TableExist(s, t), Meta(t))
      info  == InfoSeen(a, t)
      k     == PrimaryOf(a, t)
      b     == SearchedPrimary(a, t)
      added == Marked(Marked(b, Meta(t), 0, [info EXCEPT !.count = @ + 1]), Meta(t),
                      info.count + 1, [ConstraintSeen(b, t, info.count + 1) EXCEPT
                                         !.name = "PrimaryKey", !.primary = TRUE, !.this = attrs])
      moved == Marked(b, Meta(t), k, Seen(b, Meta(t), info.count))
      taken == Marked(Changed(moved, Meta(t), info.count, NoConstraint), Meta(t), 0,
                      [info EXCEPT !.count = @ - 1])
  IN  IF ~Exists(s, t) THEN Refused(TableExist(s, t))
      ELSE IF add THEN IF k # 0 \/ ~(ToSet(attrs) \subseteq info.notNull) THEN Refused(b)
                       ELSE Done(CloseFile(added, Meta(t)))
      ELSE IF k = 0 THEN Refused(b) ELSE Done(CloseFile(taken, Meta(t)))

\* IX_Manager::CreateIndex opens its file past the names of BufPageManager, and
\* marks and writes back frame 0 instead of the frame the header is in: frame f
\* here, or none that has a key (0).
IndexFileMade(s, t, a, f) ==
  LET made == CreateFile(s, IndexOf(t, a))
      hit  == {k \in DOMAIN s.frames : s.frames[k].id = FreeId(s) /\ s.frames[k].page = 0}
      head == IF hit # {} /\ s.frames[Min(hit)].name = None THEN made.frames
              ELSE Cons([id |-> FreeId(s), page |-> 0, name |-> None,
                         data |-> ZeroPage, dirty |-> FALSE], made.frames)
  IN  IF f = 0 THEN [made EXCEPT !.frames = head]
      ELSE [WritePage(made, head[f].id, head[f].page, head[f].data)
              EXCEPT !.frames = RemoveAt(head, f)]

\* What CreateIndex and DropIndex begin with: the table's file is opened and the
\* attribute looked up.
InfoOpened(s, t) == GetPage(OpenFile(TableExist(s, t), Meta(t)), Meta(t), 0)

CreateIndex(s, t, a, f) ==
  LET b    == InfoOpened(s, t)
      info == InfoSeen(b, t)
      c    == Changed(b, Meta(t), 0, [info EXCEPT !.indexed = Append(@, a)])
      made == IndexFileMade(c, t, a, f)
  IN  IF ~Exists(s, t) \/ ~Opens(s, Meta(t)) THEN Refused(TableExist(s, t))
      ELSE IF a \notin info.attrs \/ a \in ToSet(info.indexed) THEN Refused(b)
      ELSE IF a \in TooLong THEN Refused(c)
      ELSE Done(CloseFile(Stored(made, Meta(t), 0, Seen(c, Meta(t), 0)), Meta(t)))

\* The place overwritten is the number of the attribute, not where it was found.
Unindexed(indexed, a) ==
  Front([k \in DOMAIN indexed |-> IF k = a + 1 THEN Last(indexed) ELSE indexed[k]])

DropIndex(s, t, a) ==
  LET b    == InfoOpened(s, t)
      info == InfoSeen(b, t)
      c    == Changed(b, Meta(t), 0, [info EXCEPT !.indexed = Unindexed(@, a)])
  IN  IF ~Exists(s, t) \/ ~Opens(s, Meta(t)) THEN Refused(TableExist(s, t))
      ELSE IF a \notin ToSet(info.indexed) THEN Refused(b)
      ELSE IF c.disk[c.cwd][IndexOf(t, a)] = None THEN Refused(c)
      ELSE LET d == DeleteFile(c, IndexOf(t, a))
           IN  Done(CloseFile(Stored(d, Meta(t), 0, Seen(d, Meta(t), 0)), Meta(t)))

\* querylanguage/ql.cc: a statement about records opens both files of the table,
\* closes neither, and the handle's destructor closes the page manager.  early:
\* the values do not fit the table, and the second is not opened.
RecordStatement(s, t, early) ==
  LET a == GetPage(OpenFile(s, Meta(t)), Meta(t), 0)
  IN  IF ~Opens(s, Meta(t)) THEN Refused(s)
      ELSE IF early \/ ~Opens(a, Data(t)) THEN Refused(a)
      ELSE Done(CloseAll(GetPage(OpenFile(a, Data(t)), Data(t), 0)))
=============================================================================
