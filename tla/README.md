# A verification project for the database

TLA+ modules that model the storage core of this database (a C++ teaching
DBMS: page files, a page cache, record files, B+-tree indexes, a catalogue and
the statements of a small SQL), TLC configurations that check them on small instances, and
theorems about them that TLAPS checks for every instance.

## 1. The system

Everything runs in one thread. A statement parsed from SQL calls the query
language or the system manager, which call the record and index managers, which
call the page manager, which calls the file manager.

| Component | State | Operations | Calls |
|---|---|---|---|
| Linked lists (`filesystem/utils/MyLinkList.h`) | array of `next`, `prev` | `insert`, `insertFirst`, `del` | |
| Free-id bitmap (`filesystem/utils/MyBitMap.h`) | tree of words | `setBit`, `findLeftOne` | |
| File manager (`filesystem/fileio/FileManager.h`) | `fd[128]`, free ids | create, delete, open, close files; read, write pages | the operating system |
| Page table (`filesystem/utils/MyHashMap.h`) | keys of the frames, chains | `findIndex`, `replace`, `remove` | linked lists |
| Replacement (`filesystem/bufmanager/FindReplace.h`) | list of frames | `find`, `access`, `free` | linked lists |
| Page manager (`filesystem/bufmanager/BufPageManager.h`) | frames, dirty marks, pins, names of open files, `last` | `getPage`, `allocPage`, `markDirty`, `access`, `release`, `writeBack`, `close`, `pin`, `unpin`; open, close, create, delete files | file manager, page table, replacement |
| Bitmaps (`utils/bitmap.cc`) | words in a page | set, clear, get, first zero, last one, full, empty | |
| Record files (`recordmanager/`) | a file: page 0 with two bitmaps, data pages with 32 slots | insert, delete, update, get; scans | page manager, bitmaps |
| B+-tree nodes (`indexing/btree_node.cc`) | a page: keys, addresses, neighbours | insert, remove, split, merge | page manager |
| Index (`indexing/ix.cc`) | header, root, path | insert, delete, search, scans | nodes, page manager, file manager |
| System manager (`systemmanager/sm.cc`) | `DatabaseList`, `TableList`, meta files | databases, tables, indexes, keys | page manager, record and index managers |
| Query language (`querylanguage/ql.cc`) | none of its own | select, insert, delete, update | record manager, page manager |
| Parser (`parser/`), comparison (`global.cc`), drivers | | | |

**How they interact.** There is one file manager and one page manager; all other
components share them. A file is known by its *name* to the system manager, by
its *id* (0..127) to the page manager, by a *descriptor* to the file
manager and by an *inode* to the operating system, and each of the four has its
own life: ids and descriptors are recycled, a file may be unlinked while it is
open, a frame outlives the closing of its file. The index bypasses the page
manager and opens its files with the file manager. Callers keep the frame
`getPage` returned and use it after other calls that may evict it.

**What is hard.** Long sequences of calls rather than concurrency: stale ids,
stale frames and stale names; eviction in the middle of an operation; early
returns of the system manager that leave files open, pages pinned or dirty; a
crash between two writes; limits (file ids, pages of a record file, record
lengths); loops that end only if something moves forward.

**What makes each component correct.**

- Linked lists: they are sequences, an element in at most one of them.
- File manager: an id in use names one open file, and goes on naming it.
- Page table and replacement: a frame is in exactly the chain of its key, and in
  the replacement list exactly once.
- Page manager: pages can be written and read back, whatever is evicted; a change
  written back survives a restart; a pinned page stays.
- Bitmaps: each operation is what it says on sets of positions.
- Record files: a record stays as it was written until it is changed itself; the
  bitmaps of page 0 agree with the data pages; a scan misses nothing, repeats
  nothing and ends.
- B+-tree nodes: keys sorted, split and merge lose no entry. Index: all leaves
  reachable, separators bound the subtrees, search finds what was inserted.
- System manager: the lists of databases and tables agree with the files there
  are; every statement gives back the files and pins it took.
- Query language: a statement changes the records its condition selects, once.

## 2. Modules

| Module | What it is |
|---|---|
| `Lists` | abstract: sequences over a pool of elements |
| `MyLinkList` | the array of nodes, implements `Lists` |
| `MyBitMap` | the tree of words the free ids are taken from |
| `BitMap` | the words of the bitmaps of record files and indexes |
| `FileManager` | ids and descriptors, with names, inodes and the descriptor table of the operating system |
| `PageStore` | abstract: the pages of files, what callers see and what a restart leaves |
| `BufPageManager` | the page manager with page table and replacement, extends `FileManager`, implements `PageStore` under a discipline |
| `RecordStore` | abstract: records under record ids |
| `RecordFile` | a record file and a scan, implements `RecordStore` |
| `BTreeNode` | what the operations of a B+-tree node compute |
| `IndexHandle` | insert and delete in a tree of such nodes, with the header of the index |
| `IndexScan` | what a scan of such a tree returns |
| `Session` | what a statement does to files, ids and frames, as operators on a session |
| `SystemManager` | the statements about databases, tables, indexes and keys, composed of these |
| `Catalogue` | the program that executes them, and may die within one |
| `QueryLanguage` | select, insert, delete, update over tables of records |
| `MC...` | the modules the configurations run |
| `DataLemmas`, `MyLinkListProof`, `MyBitMapProof`, `BufPageManagerProof`, `RecordFileProof`, `IndexHandleProof`, `QueryLanguageProof`, `CatalogueProof` | lemmas and theorems |

**`MyLinkList`.** `a` is the array; `Link`, `Del`, `Insert`, `InsertFirst` are the
functions of those names, each read of the array where the code makes it.
`Contents(l)` walks a list as `MyHashMap::findIndex` does.

**`MyBitMap`, `BitMap`.** The other modules take bitmaps as sets of positions;
these two have the words. In the first a word is the set of its bits, and the
levels of the tree lie behind one another in `inner` as in the code; `UpdateInner`
is the recursion of that name from the leaves up, `LevelUpdated` one level of it,
`FindLeftOne` the way down by the table of `initConst`, `WordFound` one level of that. In the second a word is a number, read as
`int` or `unsigned int` where the code does. `bits` and `ones` are history, the
sets meant.

**`FileManager`.** `fd` and `freeIds` are `fd` and `fm` of the class; `dir`, `disk`
and `osfd` are the operating system's and modelled from how the class uses it
(`open`, `close`, `fopen "w+"`, `remove`, `lseek`): a name links to an inode, an inode lives while a
name or a descriptor refers to it, a new descriptor is the lowest free one. It
has operations and properties but no specification of its own: it is checked
inside `BufPageManager`, which makes its calls.

**`BufPageManager`.** The variables are the fields of the class and of the two it
owns; `cur` is the frame of the caller's last `getPage`. Chains and replacement list are sequences,
which `MyLinkList` justifies. The loop of `fetchPage` over `find` is `VictimPos`
and `Rotated`: the frames passed over go to the end of the list, the victim
behind them. `Restart` is the death of the process. No operation asks whose frame
it is given, and the index uses frames that are not its own: it marks and writes
back frame 0 for page 0 (`ix.cc:1151`), frame `i` for page `i` (`ix.cc:459`), releases frame 0 (`ix.cc:1189`), and
writes through addresses of frames replaced since. So `Spec` lets callers do
anything with any frame, whether it has a page or not (`UseFrame`; a frame marked without one has
the key -1, -1, of which `lseek` refuses the offset: `ToBeWritten`), call `allocPage` for a page that is in a frame,
and close, delete and create files at any time, as the system manager and
the query language do. `DisciplinedSpec` states the discipline under which the
class is a correct cache: a caller uses the frame `getPage` gave it last and
those it has pinned (`Held`), changes a page and marks it in one step (`Modify`), and calls `allocPage`
for a page in no frame (as the comment at `BufPageManager.h:86` demands); a file is closed when none of its pages is in a frame,
created and deleted when it is not open, opened when it exists and an id is free
(`CanOpen`), and no changed page is released. The record manager and most of the system manager keep
it for the pages they change, by writing back each page they marked dirty; the index does not.

**`RecordFile`.** One open record file. `used` is the bitmap of each data page,
`full` and `nonEmpty` the two bitmaps of page 0. Every caller writes a page back as soon
as it has changed it, so there are no frames here, and an operation is a write
of its data page followed by the writes of page 0 in `todo`, which lets the
properties and proofs say what holds in between. A
byte of a page has a value, so that records that reach into each other's slots
do. `scan` is `RM_FileScan::current_`; `seen`, `steady` and `eof` are history, for
the properties. `RoomySpec` is the file before it has `PageNum` full pages;
`LoopSpec` is `RoomySpec` with callers that close a scan before they open the
next and, by fairness, loop over the one they have opened.

**`BTreeNode`, `IndexHandle`.** A node is a sequence of entries with the pages of
its neighbours; `node` maps the pages of an index to them. `used`, `numPages`,
`rootPage` and `height` are fields of the header. `PutUp` is the loop over
full nodes of `InsertEntry`, `PruneUp` the loop over empty ones of `DeleteEnrty`, each
a function of the levels of the path, from the leaf up. Three things the code does shape the model. The
new root reads its first separator from a frame that has changed hands
(`RootSplit`): it is zero on a page behind the end of the file, and whatever the
page holds on disk (`Leftover`) when it has been in use before.
`FindKey` without a record id tests a page number nobody set: it may miss a key that
is there, after which `InsertEntry` stops in an assertion (`aborted`) and
`DeleteEnrty` leaves a separator as it is. The bitmap of a new index is not cleared
(`junk`; a bitmap in which every bit happens to be set is left out, as `Open` would find no page
for the root). `Init` is the first `Open` of a new index, its header read as
`CreateIndex` made it. Frames are not modelled otherwise: 60000 of them keep every
page of an index in use.

**`IndexScan`.** A scan of a tree that does not change while it is scanned, from
`OpenScan` to the -2 of `GetNextEntry`: the end or leaf `OpOptimize` begins at, the
walk along the leaves (`NodeScanned`, with a recursive function over the entries of each), `lastNode` and
`EarlyExitOptimize`. It has no steps of its own: `ScanReturnsMatching` looks at all
scans of each tree `IndexHandle` reaches. What `FindKey` answers is an argument
(`FoundAt`: where the value is, or 0 even if it is there). Scans for a value, and descending
ones for less than it or at most it, that are answered 0 pass over the leaf of the value
(`Missed`), as the code has it; the property is about all else. The entry deleted since
(`curDeleted`) and the frames of the leaves are left out.

**`Session`, `SystemManager`, `Catalogue`.** `Session` is `BufPageManager` and
`FileManager` again, seen from one statement: each call is an operator from a session (the current
directory, the disk, the open names with their ids, the frames that have a key)
to a session, so that `CreateTable`, `DropTable`, `CreateIndex` and the others
of `SystemManager` read like the code: a composition of calls with its early returns in
order (`Refused`), each leaving open, in a frame or unlinked what the code leaves. `passed` collects the disks there
were on the way. A step of `Catalogue` is one statement, which either
finishes or dies at one of these disks and is started again in the root
directory. `DropDb` unlinks the files of a directory in the order of `readdir`, whichever that
is: with any of them gone it may die, or find that `rmdir` fails (`DirectoryRemoved`). A
database it leaves so that still has its list of tables is in the history variable `halfDropped`. Evictions, pins and calls of `open(2)` that fail on a file that exists
are left to `BufPageManager`; the frames it keeps and the ids it recycles are what
matters here. Page contents are lists of names, a table's description
(`TableInfo`), constraints and the header of a record file. `Spec` has everything
`SM_Manager` offers, `OrderlySpec` the sessions `generate_sql.py` generates: the
databases first, then one of them used until the end, no table named again once
it was dropped, and values that fit the tables they are inserted into.

**Half-dropped databases are excepted.** What `Catalogue` checks and proves, "wherever the program
dies" included, is said of the databases outside `halfDropped`, and of sessions that drop one of these
again before they use it (`OrderlyDatabase`). It is false of the others, in the code as in the model: after
a crash within the loop of `DropDb` (`sm.cc:169-177`) the list of tables may name tables whose files are gone;
`CREATE DATABASE` with that name puts the database on its list again and then finds that the directory
exists; in it `DROP TABLE` takes such a table off the list and answers -1 (`sm.cc:603-611`). Nothing in the repository promises
otherwise, and nothing keeps a script from using such a database.

**`QueryLanguage`.** A table is a record file as `RecordStore` has it, a scan the
sequence of its records, a value a type and a number that stands for what is
stored. A statement is one or more calls of `QL_Manager` (`calls`), as
`parser/ast.cc` makes them whatever each answers; a call of `Delete` or `Update`
finds its records (`Find`) and writes them one after the other, the lowest record id
of `todo` first. `StatementAssumption` says which calls there are: conditions name columns of
the call's table or of none, and those of `Update` have no `NULL`. A value to insert is of any
type: `Insert` copies its bytes, and a column of another type reads in them some
number or string (`RecordOf`, `Misread`). `Select` changes nothing
and is an operator: the depth-first product of the relations (`Dfs`), tried combination by
combination (`Tried`) through the conditions (`JudgedRow`) and stopped at the first refusal. `Answers`, `Effect` and
`Satisfies` say what conditions mean without any of this: `Answers` is the set of the
combinations of records that satisfy them, and what is printed has to be the rows of an
enumeration of it in the order of record ids. `QueriesAssumption`: columns named with a
relation are of one the statement lists, and a condition that names the relation of its left column
names that of its right one. What `SelectPrintsAnswers` says is of conditions that name the relations of both or
of neither (`Resolved`).

## 3. Runs

Each property is stated in a comment of its module, each run in `PROJECT.json`.

| Run | Specification | Shows |
|---|---|---|
| `MyLinkList` | `Spec` | the array implements `Lists`; links stay inverse |
| `BitMaps` | `Spec` | words and trees of words mean the sets of bits the other modules have |
| `BufStructure` | `Spec` | page table and replacement list are coherent whatever callers do, with frames of their own or others |
| `BufEviction` | `DisciplinedSpec` | one file, eviction: implements `PageStore`, pins hold, nothing lost |
| `BufFiles` | `DisciplinedSpec` | two files, recycled ids: ids keep naming their one open file, no stale page, implements `PageStore` |
| `RecordFile` | `LoopSpec` | implements `RecordStore`, bitmaps exact, scans complete, loops over them end |
| `Index` | `Spec` | inserts and deletes lose no entry, node or page of a tree, although separators may be wrong; where they are right, scans return what matches, once and in order, but for the leaf of a value `EQ` and descending `LT`, `LE` do not find |
| `Catalogue` | `OrderlySpec` | lists of tables, files and frames agree, wherever a statement is refused or dies, but in databases left half dropped |
| `QueryLanguage` | `Spec` | select prints what its conditions mean; insert, delete and update have their whole effect or none and can be repeated after a crash |

Runs that TLC must find violated show where the code departs from what its
comments say:

| Run | What the code does |
|---|---|
| `RecordOverlap` | records of 249 and 250 bytes overlap the next slot |
| `IndexLostKeys` | keys of the left half of a split root are not found again; deleting everything leaves some |
| `IndexedLost` | of two attributes, the second indexed first, dropping an index takes the other one off the list of those indexed |

**Departures without a run.** These are in the models, in steps the passing runs
leave out or whose result no property speaks of:

- With every id in use `openFile` gives out id 0 again, and an open that fails
  keeps the id it took (`FmOpenFile` in `Spec` of `BufPageManager`). Statements
  about records use up two ids a table (`RecordStatement`).
- Where files are closed, deleted and created without the discipline (`Spec` of
  `BufPageManager`), a page of a closed file may be written into another one, `getPage` may return a page
  of a file that was created anew, and `openFile` the id of a deleted file.
  `AlterPrimaryKey` closes a file with changed pages in frames. In a second
  database `TableList` is the open file of the first (`Catalogue`).
- The index marks and writes back frames by the wrong number (`UseFrame` in `Spec` of
  `BufPageManager`): other files' pages leave their frames, and its own changes may never be written.
- `DropDb` may leave a database half dropped (`DirectoryRemoved`), see section 2.
- The frame accessed last is not always the last to be replaced (`Touch`).
- With every page full `InsertRecord` stores a record past the bitmaps and
  returns an error (`Spec` of `RecordFile`; `RoomySpec` excludes it).
- A descending scan for less than a value, or at most it, begins where `FindKey`
  puts the value: if that is nowhere it misses what its leaf has before it
  (`OpOptimize`; `Missed` in the run `Index`).
- A relation named on the right of a condition only is ignored, and the column
  looked for in every relation (`JudgedRow`; `Resolved`); named on the left only, the right column is compared with
  a null name.
- A scan writes back the leaf it leaves, and of an index of one node with it the
  root, into whose frame the handle goes on writing (not in a model).
- `CreateDb` empties the list of databases before it reads it.
- `Insert` copies the bytes of a value whatever its type (`RecordOf`, with values of the wrong
  type in the run `QueryLanguage`), although the comment at `ql.cc:327` says types are compared.

**Bounds.** Three lists of four elements: first, last, middle and alone all
occur, and lists exchange elements. Sixteen bits in words of two: a tree of three
levels, where the code's 128 and 256 bits have one inner level, and a
map of eleven bits that ends inside a word; every set of bits is reached. `initConst` is called
first, as in `main.cpp`. In `BufStructure` two names, one id and one descriptor: the id
runs out and is given to the other file, files are unlinked while open. Two frames, two chains and three pages, two of which
have the same chain: frames are in one chain, in two or in none, and change chains. In `BufEviction` two frames and three pages: every
miss evicts, a chain holds two pages, one frame may be pinned. In `BufFiles` one frame and two files with
two ids and descriptors, which are recycled. Two contents tell a changed
page from a new one; where only keys matter (`BufStructure`) there is one. Two data pages of two slots: empty, partly full and full
pages, a record before and behind the scan. Records of at most five bytes in
words of two keep the rounding of 250 bytes in words of four: odd slots start
early. Nodes of two entries and four keys give trees of one, two and three
levels, with splits in the middle of a level, full parents and nodes that empty
upwards; with six pages (`PageSupply` leaves out inserts for which no page is
free) pages come back, also as a new root, which then finds a key of the middle
there. Keys are distinct and from zero up, as in the first part of `ix_test.cc`:
zero is the one that can meet a separator that was read as zero. Scans look for two of the
four keys: each is the first, the last or an inner one of its leaf in some tree, or missing. One database and
two tables of at most one constraint: a table is the first, the last or the one
that does not fit the list, refers to the other, to itself or to one that is not
there, is dropped from either place, and each statement meets frames and open files
of every other; of the files of the database any part may be unlinked. Two tables of two records, and two columns: a name in common,
a condition that refuses behind one that fails, a record before and behind the
one written. Bytes of another type are read as 0 or 1, values that records have anyway. `Update` is given no `NULL` on the right, which it does not look
for; a file is never full there. A larger instance of these would only repeat the
cases, as no operation looks at more than two pages, two files, two
tables or two neighbours of a node. Deadlock is not
checked in `Index` and `IndexLostKeys`: a failing assertion ends the program.

**Fairness.** Only `ScanEnds` needs it: the writes of page 0 go on (weak
fairness: the operation under way is straight-line code), and the caller of a
scan comes back to `GetNextRecord` (strong fairness: the body of its loop is
finitely many operations on the file).

## 4. Proofs

`tlapm` checks these for every value of the constants, from the assumptions
named in the modules (`ListAssumption`, `BitMapAssumption`, `FileAssumption`, `BufAssumption`,
`RecordAssumption`, `NodeAssumption`, `IndexAssumption`, `SessionAssumption`, `SystemAssumption`,
`CatalogueAssumption`, `NoneAssumption` of two modules, `QueryAssumption`, `StatementAssumption`, `QueriesAssumption`).

**Linked lists (`MyLinkListProof`).**

- `TypeCorrect` and `LinksAgree`. `MutuallyInverse` is inductive with the type
  invariant. `DelKeeps` and `SpliceKeeps` treat taking a node out and putting a node
  that is alone between two neighbours; `Insert` and `InsertFirst` are one after the other.
- `ArrayImplementsLists`. The abstract state is what a walk along `next` meets.
  `ListsInv` says that there are sequences, one for each list, which the array
  holds (`next` and `prev` of neighbours), each element in at most one place; a
  walk then meets just these (`SeesWhatItHolds`), so each call need only be
  followed on the sequences.

**Free-id bitmap (`MyBitMapProof`).**

- `LevelsSummarize` and `LowestIsFound`, of maps of any number of bits in words of any size, so
  of trees of any height; the assumption is the one `init` makes, that each
  level below the root is whole words, and that the hashes of the powers of two are distinct and not
  zero, which TLC evaluates for 32 bits and the modulus 61. `MapSpec` lets bits be set
  before there is a table, too. `MapInv` compares each bit only with
  the word below it (`Right`); `BelowMeans` goes from there to the bits of the map,
  level by level. While `updateInner` climbs one bit of the level it comes to may be wrong
  (`RightBut`), and `UpStep` moves it up. On the way down `Found` is the first word of a level
  that has a bit. `PlacesApart`: no two levels share a word of `inner`.

**Page manager (`BufPageManagerProof`).**

- `TableStaysCoherent` and `ListStaysComplete`, whatever callers do with whichever
  frame. The table and the replacement list are inductive by themselves (`TableInv`), without the disk or the ids: an operation
  takes a frame out of a chain, puts one in front of it, moves one within the
  list or rotates the list, and the lemmas about sequences at the top say what
  each leaves (`WithoutFacts`, `ConsFacts`, `AppendFacts`, `RotationFacts`).
- `PinsHold`, of callers that use their own frames: the victim is the first of the list that is not
  pinned (`VictimNotPinned`). That `dirty` marks pages only is true of these callers alone (`DirtyPageHasItsFile`).
- `OneCopyPerPage`, under the discipline. `OneFramePerPage` is not
  inductive: `getPage` takes a second frame for a page it finds under another
  name, and an id may come to mean another file. `IdsInv` excludes both: a frame
  has no free id in its key and has the name its id is open under, and a name is
  open under an id in use that is its own. `NotFoundNotCached` needs `TableInv`:
  `findIndex` looks in one chain only. `DisciplinedTables` carries the first two
  theorems over to these callers, whose steps are steps of `Next`.
- `BufTypeCorrect`, whatever callers do. The step that needs an argument is
  `fopen` of a new file: there are as many inodes as names and descriptors
  together, so one is free (`FreshInode`).
- `IdsStayDistinct`, `OpenIdsReachTheirFile`, `DirtyPagesReachTheirFile`, `PagesFoundAreCurrent`,
  under the discipline, and `CacheImplementsStore`, from one invariant. `StoreInv` adds to the
  types, the tables, `IdsInv` and `OneFramePerPage` two parts: ids in use and descriptors belong to each other, and
  an open name to the inode it is linked to (`FilesInv`); a page in a frame is one of an open
  id and, if it is not dirty, what is on disk (`PagesInv`). None is inductive without the
  others: a write reaches the right file only if descriptors are right, a frame
  may be dropped only if it is clean, and a file closed only if no frame has a page of
  it. Under the refinement mapping an eviction, a hit, a miss, `writeBack` and `close` are
  steps of `PageStore` that leave what callers see alone.
- `OnlyCallersChange` is the action property that follows.

`FileAssumption` says that `None` is no content of a file: `disk` uses it for an inode
that is free.

**Record files (`RecordFileProof`).**

- `BitmapsStayExact`. `BitmapsExact` says nothing while an
  operation is under way and is not inductive. `BitInv` adds that each bit is
  exact or has a write in `todo` (`BitsExactOrPending`), and that these writes
  are within the bitmaps, for different bits, and what the data page calls for
  (`TodoCalledFor`). `OnePageChanged` is the argument common to insert and
  delete, `WriteKeeps` that of a write of page 0. A delete stays within the
  bitmaps because a page with a record has its bit in `nonEmpty`; an insert
  because the file has room, which is the hypothesis of `RoomySpec`.
- `TypeCorrect`, `ScansGoForward`, `ScansAreComplete`. The
  invariant is `ScanProgress`: what was returned lies up to `current_`, what has
  matched all along is returned or ahead. The step that answers `RM_EOF` needs
  `BitmapsExact`: only then is a page with a record within `GetMaxPageNum`.
- `FileImplementsRecordStore`, `RecordsStayWhole`: of every file, full or not, whose
  records fit their slots (`RecordsFit`). A slot has `MaxLength \div WordSize` words,
  so of the 250 bytes a record may have 248 fit. This is no convenience: with 249 bytes the theorem
  is false, as the run `RecordOverlap` shows. `SlotsApart` is the arithmetic, `OneSlotChanged` the step.
- `LoopIsRoomy` ties the specification of the run to those of the theorems.

**Index (`IndexHandleProof`).**

- `TypeCorrect`, `LevelsStayChained`, `HeaderAgrees`, `NoEntryLost`, `OnlyRootEmpties`: the five
  invariants of `IndexHandle`, of trees of any height, from one
  invariant. `TreeInv` says that there are a level `d[p]` for each page, 0 where there is
  no node, and a rank `rk[p]`, such that: the entries of a page above the leaves are
  pages of the next level, each entered once, and only the root nowhere
  (`Tree`); neighbours are of one level and agree, one page of a level has
  none to its left, and ranks grow to the right (`Chain`); the header counts the pages that have a node (`Accounts`);
  no other than a root that is a leaf is empty (`Filled`); and what is due is on the last
  level, whose pages have their keys in order, each once (`Holds`, `Sorted`). Without ranks a level could have a ring beside its chain, and pages of it would be out of a
  scan's reach; without levels an empty node could be its own
  ancestor. Nothing is said of separators, which the code does not keep right: a wrong one
  leads an insert to another leaf of the tree, never out of it.
- Within an operation the tree has a second page that is entered nowhere: the new half
  of a split on its way up, or the node a delete is about to give up (`tops` of `Shape`).
  `ShapeSplit`, `ShapeNode`, `ShapeFree` and `ShapeGrow` say what a split, a changed node, a page given up and
  a new root make of such a tree; `Put` and `Prune` are the invariants of the two loops, level by level, and
  `PutStep` and `PruneStep` their steps. Raising and lowering separators changes
  keys only (`RaisedIs`, `LoweredIs`). The key an insert puts into a leaf is in no leaf (`Fresh`, `Placeable`),
  which is the guard of `Next`: the code has its own test disabled. That a split finds a page is `PageSupply`, the bound of the
  model, which `SupplyIs` turns into a page for each full node and one for the root.
- `ScansReturnWhatMatches`, from the same invariant. `LeavesAre`: the pages of the last level are the
  sequence `Leaves`, and the way along the outer entries leads to its ends. `WayIs`: when neighbours
  agree with `Leaves` they are a chain without a page twice, in key order, which a descending
  scan comes to from behind (`Along`). `Stands` is the invariant of the loop over nodes, `Good` that of the loop over the
  entries of one: what was returned is what matches of the entries passed, in order, or all that
  matches once the scan has ended: of those the scan does not miss, which are a parameter of both. `NothingBehind` is why `EarlyExitOptimize` may end it,
  `SidesAre` why the leaf of the value separates what is before the value from what is behind, and
  `ScanReturns` takes the ways `OpOptimize` begins and ends a scan one by one. The hypothesis
  `Searchable` stands in the property itself: `RootSplit` may make a wrong separator.

Of the constants these theorems assume that a page has two entries or more, keys are integers, the
values of scans are among them, and a new index has a bit that is not set.

**Statements (`QueryLanguageProof`).**

- `RefusalsHarmless`. A call that answers -1 has changed
  nothing. `Update` checks its assignments before each of its writes, so the
  invariant adds that under assignments it refuses nothing has been written
  (`UnassignableWritesNothing`).
- `TypeCorrect`, `CallsTakeEffect`, `CallsCanBeRepeated`, from `CallInv`: while a call writes, each
  record of its table is as it was at the start and still to be written, or not
  hit; or it was hit and is what the call makes of it (`WritingInv`). That the
  scan finds what is hit is `FoundRight`: the conditions tried one after the other, the columns
  looked for and the comparisons (`JudgedRight`) agree with what conditions
  mean (`Satisfies`), which is where the assumptions about statements are used.
  A call made again hits none, or makes the same of it (`MadeTwice`).
- `SelectsPrintAnswers`. `DfsLists`: relation by relation, the combinations `Dfs` has
  are all there are, each once and in order; the one numbered `k` extends the one
  whose number is a quotient of `k` by the remainder (`QuotientIs`, `PairsNumbered`). `ScanIs` and
  `JudgementIs` are the loops over a table and over the conditions. `SelectIs` is the loop over
  combinations: so far nothing was refused and what is printed
  are the rows of the answers so far, or the statement was refused. What refuses a condition
  is its columns and their types, never the values, so that it is refused of one
  combination only if it is of all and then nothing is an answer. The columns are found as meant
  only in conditions that are `Resolved`.

**Statements about tables (`CatalogueProof`).**

- `CatalogueTyped`, `ListedTablesAreThere`, `TablesAreAsDeclared`, `StatementsSeeTheDisk`,
  `RefusalsWriteNothing`, from `CatalogueInductive`, of any number of databases, tables,
  attributes and constraints. The hypothesis is `OrderlySpec`, which the run has too:
  in a second database, with a name used again, or in a database left half dropped, the code departs from all of them.
- `CatInv` has three parts. The session is `Tame`: what is open under an id, or in a frame of a file that was not
  dropped, is a file of the current directory and what the disk has (`Sound`); the list of tables is opened
  once more by nearly every statement, under the lowest id, and its pages are found in
  the first frame with that key, so no older frame may have it (`Sole`); in the root directory nothing
  but the list of databases is open (`Idle`); of a table never listed there is neither an id
  nor a frame (`Fresh`). The disk is right (`DiskRight`): lists fit their arrays, a
  listed table has its two files and they say what was declared, where the database is not left half
  dropped (`halfDropped`), and the session is in no other. And what is declared is what was
  answered with success, except of the last statement when the program died within it.
- Each statement has a lemma that says what it leaves, when it finishes, when it is refused
  at any of its early returns, and on the disks it passes (`Left`). The loops (the pages of
  a description, constraint by constraint, table by table) are `Stages` of `DataLemmas`: an
  invariant for each pass.

`DataLemmas` has least and greatest elements, sequences with one element more or
less, functions defined by iteration, and functions defined from level to level
(`Ascent`, `Descent`, `Stages`), for the loops over a path, a table or a list. The loops of the
models that are proved about are recursive functions, for which these give what
an induction would: the library's induction theorems take an operator as a parameter.

The parts of the invariants were model-checked on the runs of their modules
before they were proved.

Model-checked only: `WordsMeanOnes`, because the definitions of `Bitwise` are recursive; and
`ScanEnds`, because liveness is out of the prover's reach.

## 5. Not modelled, and the plan

Left out for good: the grammar of the parser, the drivers, tests and printing, the type bitmap of
the file manager (unused), the contents of pages and values beyond what tells them apart,
`BTreeNode::Merge` (only a test calls it).
A read of new memory after a failed `readPage` is any content.

Not modelled yet:

- The frames of an index: `ForcePages`, frame 0 in `CreateIndex`, `CloseIndex`, which deletes the
  page manager it shares, reopening, the leaf a scan writes back. They need `IndexHandle` over `BufPageManager`
  with one content for a frame.
- An index that changes during a scan (`curDeleted`), and duplicate keys, which `Split` may
  put on both sides of a separator.
- A crash between the writes of an operation in `RecordFile`. It would leave
  wrong bits for one page.
- The type of an attribute and the check of its name (`AttrExist`) in `SystemManager`.
