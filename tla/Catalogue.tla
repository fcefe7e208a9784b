------------------------------ MODULE Catalogue ------------------------------
(***************************************************************************)
(* The program of main.cpp: it executes one statement after another, each  *)
(* the visit of a node of parser/ast.cc or a call of SM_Manager, and may   *)
(* end or die at any moment and be started again.                          *)
(***************************************************************************)
EXTENDS SystemManager

CONSTANTS Declarations,  \* what CREATE TABLE may say: attributes, those not null, constraints
          KeyLists,      \* attribute lists of ALTER TABLE
          MayDie         \* whether the program may die within a statement

\* What pages, files, directories and the disk may be, and the files open.
Lists       == [kind : {"list"}, names : Seq(Dbs) \cup Seq(Tables)]
Infos       == [kind : {"info"}, attrs : SUBSET Attrs, notNull : SUBSET Attrs, indexed : Seq(Attrs),
                count : Page]
Constraints == [kind : {"constraint"}, primary : BOOLEAN, name : STRING \cup {None},
                this : Seq(Attrs), foreign : Tables \cup {None}, refs : Seq(Attrs)]
Content     == {ZeroPage} \cup Lists \cup Infos \cup Constraints \cup [kind : {"records"}, size : Nat]
File        == [Page -> Content]
Directory   == [FileNames -> File \cup {None}]
Disk        == [Dbs \cup {Root} -> Directory \cup {None}]
OpenFiles   == [id : Nat, at : Dbs \cup {Root}, gone : File \cup {None}]
Frames      == [id : Nat, page : Page, name : FileNames \cup {None}, data : Content, dirty : BOOLEAN]

ASSUME CatalogueAssumption ==
  /\ MayDie \in BOOLEAN
  /\ \A decl \in Declarations : /\ decl.attrs \subseteq Attrs /\ decl.notNull \subseteq Attrs
                              /\ decl.cons \in Seq(Constraints) /\ Len(decl.cons) <= MaxCons

ASSUME NoneAssumption ==
  None \notin FileNames /\ None \notin File /\ None \notin Directory /\ None \notin OpenFiles

VARIABLES cwd, disk, open, frames,  \* the session, see Session.tla
          declared,                 \* history: database -> table -> how it was created
          halfDropped,              \* history: the databases DROP DATABASE left a list of tables
                                    \*   but not every other file
          used,                     \* history: the database used since the program started
          dropped                   \* history: the tables dropped since

vars == <<cwd, disk, open, frames, declared, halfDropped, used, dropped>>

Current == [cwd |-> cwd, disk |-> disk, open |-> open, frames |-> frames,
            passed |-> {disk}, done |-> TRUE]

Init ==
  /\ cwd = Root /\ open = [n \in FileNames |-> None] /\ frames = << >>
  /\ disk = [d \in Dbs \cup {Root} |-> IF d = Root THEN EmptyDir ELSE None]
  /\ declared = [d \in Dbs |-> [t \in Tables |-> None]]
  /\ halfDropped = {} /\ used = None /\ dropped = {}

Becomes(r) == cwd' = r.cwd /\ disk' = r.disk /\ open' = r.open /\ frames' = r.frames

\* The statement leaves session r behind,
Finishes(r) == Becomes(r) /\ UNCHANGED used
\* or the program dies on the way and is started again.
Dies(r) == /\ MayDie
           /\ \E d \in r.passed : Becomes(Started(d))
           /\ used' = None /\ dropped' = {}

\* The tables the list on a disk k names, in a database that has one.
HasList(k, d) == k[d] # None /\ k[d][TableList] # None
Listed(k, d)  == IF HasList(k, d) THEN ToSet(ListIn(k[d][TableList][0])) ELSE {}

Remembered(decls) ==
  [d \in Dbs |-> [t \in Tables |-> IF t \in Listed(disk', d) THEN decls[d][t] ELSE None]]

Execute(r) == (Finishes(r) /\ UNCHANGED dropped) \/ Dies(r)

\* Nothing has changed of what is remembered of databases and their tables.
Unforgotten == UNCHANGED <<declared, halfDropped>>

-----------------------------------------------------------------------------
(* Statements.                                                              *)

CreateDatabase(d) == cwd = Root /\ Execute(CreateDb(Current, d)) /\ Unforgotten

UseDatabase(d) ==
  /\ Becomes(OpenDb(Current, d))
  /\ used' = IF OpenDb(Current, d).done THEN d ELSE used
  /\ UNCHANGED dropped /\ Unforgotten

CloseDatabase == cwd # Root /\ Execute(CloseDb(Current)) /\ Unforgotten

\* The databases are dropped from where they are listed.
DropDatabase(d) ==
  /\ cwd = Root
  /\ \E gone \in SUBSET FilesIn(disk, d), removed \in BOOLEAN :
       /\ removed => gone = FilesIn(disk, d)
       /\ Execute(DropDb(Current, d, gone, removed))
  /\ declared' = Remembered(declared)
  /\ halfDropped' = {x \in Dbs : HasList(disk', x) /\ (x \in halfDropped \/ disk'[x] # disk[x])}

ShowDatabase(d) == Execute(ShowDb(Current, d)) /\ Unforgotten
ShowDatabases   == cwd = Root /\ Execute(ShowAllDb(Current)) /\ Unforgotten

\* Where the list of tables cannot be opened, TableExist answers true, and where
\* the file of a table cannot, nobody looks at the answer of openFile but the
\* calls about indexes: the others go on with an id they were not given.  They
\* are called where there are both.  CREATE TABLE opens the list a second time
\* (sm.cc:387) and does not look either.
Openable(t)   == Exists(Current, t) => Opens(Current, Meta(t))
InDatabase(t) == cwd # Root /\ Opens(Current, TableList) /\ Openable(t)

CreateTableStatement(t, decl) ==
  LET r == CreateTable(Current, t, decl)
  IN  /\ cwd # Root
      /\ Opens(Current, TableList) =>
           /\ Opens(CloseFile(Current, TableList), TableList)
           /\ \A k \in DOMAIN decl.cons : ~decl.cons[k].primary => Openable(decl.cons[k].foreign)
      /\ Execute(r)
      /\ declared' = Remembered(IF r.done THEN [declared EXCEPT ![cwd][t] = decl] ELSE declared)
      /\ UNCHANGED halfDropped

DropTableStatement(t) ==
  LET r == DropTable(Current, t)
  IN  /\ cwd # Root
      /\ \/ Finishes(r) /\ dropped' = IF r.done THEN dropped \cup {t} ELSE dropped
         \/ Dies(r)
      /\ declared' = Remembered(declared)
      /\ UNCHANGED halfDropped

ShowTableStatement(t) == InDatabase(t) /\ Execute(ShowTable(Current, t)) /\ Unforgotten
ShowTables ==
  /\ cwd # Root
  /\ Opens(Current, TableList) => \A t \in Tables : Openable(t)
  /\ Execute(ShowAllTable(Current)) /\ Unforgotten

RecordsStatement(t, early) ==
  /\ cwd # Root
  /\ Execute(RecordStatement(Current, t, early))
  /\ Unforgotten

CreateIndexCall(t, a) ==
  /\ cwd # Root
  /\ \E f \in IF Exists(Current, t) /\ Opens(Current, Meta(t)) THEN 0 .. Len(InfoOpened(Current, t).frames) ELSE {0} :
           Execute(CreateIndex(Current, t, a, f))
  /\ Unforgotten

DropIndexCall(t, a) == cwd # Root /\ Execute(DropIndex(Current, t, a)) /\ Unforgotten

AlterPrimaryKeyCall(t, add, attrs) ==
  /\ InDatabase(t) /\ Exists(Current, t)
  /\ add => InfoSeen(OpenFile(Current, Meta(t)), t).count < MaxCons
  /\ Execute(AlterPrimaryKey(Current, t, add, attrs))
  /\ Unforgotten

-----------------------------------------------------------------------------
ShowStatement == \/ \E d \in Dbs : ShowDatabase(d)
                 \/ ShowDatabases \/ ShowTables
                 \/ \E t \in Tables : ShowTableStatement(t)

DatabaseStatement(d) == CreateDatabase(d) \/ DropDatabase(d) \/ UseDatabase(d)
OrderlyDatabase(d)   == CreateDatabase(d) \/ DropDatabase(d) \/ (d \notin halfDropped /\ UseDatabase(d))

(* Everything SM_Manager offers.  The grammar of parser.y reaches all but   *)
(* the last two lines: its statements about indexes and keys do nothing.    *)
Next ==
  \/ ShowStatement
  \/ CloseDatabase
  \/ \E d \in Dbs : DatabaseStatement(d)
  \/ \E t \in Tables : \/ \E decl \in Declarations : CreateTableStatement(t, decl)
                       \/ DropTableStatement(t)
                       \/ \E early \in BOOLEAN : RecordsStatement(t, early)
  \/ \E t \in Tables, a \in Attrs : CreateIndexCall(t, a) \/ DropIndexCall(t, a)
  \/ \E t \in Tables, add \in BOOLEAN, attrs \in KeyLists : AlterPrimaryKeyCall(t, add, attrs)

Spec == Init /\ [][Next]_vars

(* Sessions like that of generate_sql.py: the program is told about         *)
(* databases first, then stays in one; it says no more of a table it has    *)
(* dropped, and its values fit the tables they go into.  A database that    *)
(* DROP DATABASE left a list of tables but not all of their files is not    *)
(* used before it has been dropped: nothing keeps a script from using it,   *)
(* and then its tables are listed and not there.                            *)
OrderlyNext ==
  \/ ShowStatement
  \/ \E d \in Dbs : used = None /\ OrderlyDatabase(d)
  \/ \E t \in Tables \ dropped :
       \/ \E decl \in Declarations : CreateTableStatement(t, decl)
       \/ DropTableStatement(t)
       \/ t \in Listed(disk, cwd) /\ RecordsStatement(t, FALSE)

OrderlySpec == Init /\ [][OrderlyNext]_vars

-----------------------------------------------------------------------------
\* No name twice, and no more names than there is room for.
WellFormed(names, max) == IsInjective(names) /\ Len(names) <= max

(* The session is well-formed, ids distinguish open files, and the lists on *)
(* disk are lists of distinct names that fit their arrays.                  *)
TypeOK ==
  /\ cwd \in Dbs \cup {Root} /\ disk \in Disk
  /\ open \in [FileNames -> OpenFiles \cup {None}] /\ frames \in Seq(Frames)
  /\ declared \in [Dbs -> [Tables -> Declarations \cup {None}]]
  /\ halfDropped \subseteq Dbs /\ used \in Dbs \cup {None} /\ dropped \subseteq Tables
  /\ \A m, n \in FileNames : open[m] # None /\ open[n] # None /\ m # n => open[m].id # open[n].id
  /\ disk[Root][DatabaseList] # None =>
       WellFormed(ListIn(disk[Root][DatabaseList][0]), MaxDatabases)
  /\ \A d \in Dbs : HasList(disk, d) => WellFormed(ListIn(disk[d][TableList][0]), MaxTables)

(* sm.cc:347-395 and 603-621: wherever the program dies, the list of tables *)
(* names no table without its two files: they are made before the table is  *)
(* listed and deleted after it has been taken off.  It does not hold of     *)
(* databases left behind half dropped: DropDb (sm.cc:169-177) unlinks the   *)
(* list and the files of its tables in the order of readdir, whichever that *)
(* is, and takes the name of the database off the list before.              *)
ListedTablesHaveFiles ==
  \A d \in Dbs \ halfDropped : \A t \in Listed(disk, d) : disk[d][Meta(t)] # None /\ disk[d][Data(t)] # None

(* The files of a listed table say what its CREATE TABLE said (sm.cc:354-   *)
(* 380), whatever statement was refused half way, whatever was left open or *)
(* in a frame and wherever the program died, but for databases left behind  *)
(* half dropped.                                                            *)
MetaAsDeclared ==
  \A d \in Dbs \ halfDropped : \A t \in Listed(disk, d) :
    LET decl == declared[d][t]
        info == InfoIn(disk[d][Meta(t)][0])
    IN  /\ info = [InfoOf(decl) EXCEPT !.indexed = info.indexed]
        /\ \A k \in DOMAIN decl.cons : disk[d][Meta(t)][k] = decl.cons[k]
        /\ disk[d][Data(t)][0] = RecordHeader(decl)

(* A statement finds in the frames what is on disk: no page of a file that  *)
(* was closed, dropped or written since under another id.  The process is   *)
(* in no database left behind half dropped (OrderlyNext).                   *)
SeenIsOnDisk ==
  HasList(disk, cwd) /\ cwd # Root =>
    /\ ListSeen(OpenFile(Current, TableList), TableList) = ListIn(disk[cwd][TableList][0])
    /\ \A t \in Listed(disk, cwd) :
         /\ \A p \in Page : Seen(OpenFile(Current, Meta(t)), Meta(t), p) = disk[cwd][Meta(t)][p]
         /\ Seen(OpenFile(Current, Data(t)), Data(t), 0) = disk[cwd][Data(t)][0]

(* A statement that answers an error has written nothing (sm.cc:237-349     *)
(* and 580-611): the checks of CREATE TABLE, made one constraint after      *)
(* another with files opened and closed in between, come before its first   *)
(* write, and a table that is listed can be dropped: its file is there, as  *)
(* the process is in no database left behind half dropped.  There DropTable *)
(* takes the table off the list and then answers -1.                        *)
WritesIfDone(r) == r.done \/ r.passed = {disk}

RefusedWritesNothing ==
  cwd # Root => \A t \in Tables \ dropped :
    /\ WritesIfDone(DropTable(Current, t))
    /\ \A decl \in Declarations : WritesIfDone(CreateTable(Current, t, decl))

(* sm.cc:27-28 prints indexedAttr as the attributes that have been indexed: *)
(* they are those whose index file there is.                                *)
IndexedHaveIndex ==
  \A d \in Dbs \ halfDropped : \A t \in Listed(disk, d) :
    ToSet(InfoIn(disk[d][Meta(t)][0]).indexed) = {a \in Attrs : disk[d][IndexOf(t, a)] # None}
=============================================================================
