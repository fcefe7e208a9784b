--------------------------- MODULE BufPageManager ---------------------------
(***************************************************************************)
(* filesystem/bufmanager/BufPageManager.h with the page table (MyHashMap)  *)
(* and the replacement list (FindReplace) it keeps, over FileManager.      *)
(*                                                                         *)
(* The chains of the hash table and the replacement list are sequences     *)
(* here; MyLinkList shows that the linked lists of the code behave as      *)
(* such.  A page's bytes are one value of Contents.                        *)
(*                                                                         *)
(* None of the operations on frames asks whose frame it is, and the index  *)
(* code uses frames it was not given: it marks and writes back frame 0 for *)
(* page 0 and frame i for page i of its file, and keeps the numbers and    *)
(* the bytes of frames that have been replaced since (Spec).  The other    *)
(* callers work with the frame getPage returned last and with those they   *)
(* have pinned, and mark a page dirty as soon as they have changed it, so  *)
(* changing the bytes and markDirty are one step (DisciplinedSpec).        *)
(***************************************************************************)
EXTENDS FileManager, Sequences, SequencesExt

CONSTANTS Cap,   \* CAP, the number of frames
          Mod    \* MOD, the number of chains of the hash table

ASSUME BufAssumption == Cap \in Nat \ {0} /\ Mod \in Nat \ {0}

VARIABLES nameToId,   \* name_to_id: file name -> id it is open under
          idToName,   \* id_to_name
          frameName,  \* idx_to_name: file name a frame was filled for
          key,        \* MyHashMap::a: frame -> <<file id, page>>, or None for -1, -1
          chain,      \* MyHashMap::list: chain -> frames, first one first
          lru,        \* FindReplace::list: frames, next victim first
          last,       \* last: the frame accessed last
          dirty,      \* dirty
          pinned,     \* idx_pin
          mem,        \* addr: frame -> page held, None before it is allocated
          cur         \* the frame of the caller's last getPage or allocPage

bufVars == <<nameToId, idToName, frameName, key, chain, lru, last, dirty, pinned, mem, cur>>
vars    == <<fmVars, bufVars>>

Frame == 0 .. (Cap - 1)
Key   == Id \X Pages

TypeOK ==
  /\ FmTypeOK
  /\ nameToId \in [Names -> Id \cup {None}]
  /\ idToName \in [Id -> Names \cup {None}]
  /\ frameName \in [Frame -> Names \cup {None}]
  /\ key \in [Frame -> Key \cup {None}]
  /\ chain \in [0 .. (Mod - 1) -> Seq(Frame)]
  /\ lru \in Seq(Frame)
  /\ last \in Frame \cup {None}
  /\ dirty \in [Frame -> BOOLEAN]
  /\ pinned \in [Frame -> BOOLEAN]
  /\ mem \in [Frame -> Contents \cup {None}]
  /\ cur \in Frame \cup {None}

-----------------------------------------------------------------------------
(* MyHashMap and FindReplace.                                               *)

HashOf(k) == (k[1] + k[2]) % Mod

\* Mutant of FindIndex: only the head of the chain is compared.
FindIndexAtHead(k) ==
  LET c == chain[HashOf(k)] IN IF c # << >> /\ key[c[1]] = k THEN c[1] ELSE None

\* findIndex: the first frame of the chain that has the key, None for -1.
FindIndex(k) ==
  LET c    == chain[HashOf(k)]
      hits == {i \in DOMAIN c : key[c[i]] = k}
  IN  IF hits = {} THEN None ELSE c[Min(hits)]

\* MyLinkList::del.
Without(s, f) ==
  LET at == {i \in DOMAIN s : s[i] = f} IN IF at = {} THEN s ELSE RemoveAt(s, Min(at))
StillChained(f) == chain                           \* mutant of Unchained: del is left out
Unchained(f)    == [h \in DOMAIN chain |-> Without(chain[h], f)]
CopiedToEnd(f)  == Append(lru, f)                  \* mutant of MovedToEnd: likewise
MovedToEnd(f)   == Append(Without(lru, f), f)      \* FindReplace::access
MovedToFront(f) == Cons(f, Without(lru, f))        \* FindReplace::free

\* find is called until the frame it returns is not pinned: each call takes the
\* head of the list to its end.  With every frame pinned this never ends.
VictimPosAnyway == 1                               \* mutant of VictimPos: pins are ignored
VictimPos == Min({k \in DOMAIN lru : ~pinned[lru[k]]})
Victim    == lru[VictimPos]
Rotated   == SubSeq(lru, VictimPos + 1, Len(lru)) \o SubSeq(lru, 1, VictimPos)

\* The replacement list the constructor builds.
FreshLruFromOne == [k \in 1 .. Cap |-> k]          \* mutant of FreshLru: counts from 1
FreshLru == [k \in 1 .. Cap |-> k - 1]

\* Dirty marks.
MarkedUnlessLast(f) == IF f = last THEN dirty ELSE [dirty EXCEPT ![f] = TRUE]
                                                   \* mutant of Marked: access's early return first
Marked(f)     == [dirty EXCEPT ![f] = TRUE]
Cleaned(f)    == [dirty EXCEPT ![f] = FALSE]

\* The disk once frame f is written out, under the key it has, if it is dirty.
\* Under -1, -1 the offset is negative, lseek refuses it whatever descriptor
\* fd[-1] is taken for, and nothing is written.
ToBeWritten(f)        == dirty[f] /\ key[f] # None
NotWrittenOut(f)      == disk                      \* mutant of WrittenOut: writePage is left out
WrittenOutAtStart(f)  == IF ToBeWritten(f) THEN Written(key[f][1], Min(Pages), mem[f]) ELSE disk
                                                   \* mutant of WrittenOut: the offset is left out
WrittenOut(f) == IF ToBeWritten(f) THEN Written(key[f][1], key[f][2], mem[f]) ELSE disk

\* name_to_id once id is closed.
StillNamed(id)   == nameToId                       \* mutant of Unnamed: erase is left out
Unnamed(id)      == [n \in Names |-> IF n = idToName[id] THEN None ELSE nameToId[n]]

-----------------------------------------------------------------------------
\* What the constructors build, over an empty directory.
Init ==
  /\ FmInit
  /\ nameToId = [n \in Names |-> None]
  /\ idToName = [id \in Id |-> None]
  /\ frameName = [f \in Frame |-> None]
  /\ key = [f \in Frame |-> None]
  /\ chain = [h \in 0 .. (Mod - 1) |-> << >>]
  /\ lru = FreshLru
  /\ last = None
  /\ dirty = [f \in Frame |-> FALSE]
  /\ pinned = [f \in Frame |-> FALSE]
  /\ mem = [f \in Frame |-> None]
  /\ cur = None

CreateFile(n) == FmCreateFile(n) /\ UNCHANGED bufVars
DeleteFile(n) == FmDeleteFile(n) /\ UNCHANGED bufVars

\* A name already open keeps its id, whatever has become of the file since.
OpenFile(n) ==
  \/ nameToId[n] # None /\ UNCHANGED vars
  \/ /\ nameToId[n] = None
     /\ FmOpenFile(n)
     /\ IF OpenSucceeds(n)
        THEN /\ nameToId' = [nameToId EXCEPT ![n] = NextId]
             /\ idToName' = [idToName EXCEPT ![NextId] = n]
        ELSE UNCHANGED <<nameToId, idToName>>
     /\ UNCHANGED <<frameName, key, chain, lru, last, dirty, pinned, mem, cur>>

\* No frame of the file is written, dropped or renamed; the caller is done with
\* the one it had.
CloseFile(id) ==
  /\ nameToId' = Unnamed(id)
  /\ idToName' = [idToName EXCEPT ![id] = None]
  /\ FmCloseFile(id)
  /\ cur' = IF cur # None /\ key[cur][1] = id THEN None ELSE cur
  /\ UNCHANGED <<frameName, key, chain, lru, last, dirty, pinned, mem>>

\* access: nothing happens for the frame accessed last.
Touch(f) ==
  /\ lru' = IF f = last THEN lru ELSE MovedToEnd(f)
  /\ last' = f

Hit(id, p) == LET f == FindIndex(<<id, p>>)
              IN  f # None /\ frameName[f] = idToName[id]

GetPageHit(id, p) ==
  /\ Hit(id, p)
  /\ Touch(FindIndex(<<id, p>>))
  /\ cur' = FindIndex(<<id, p>>)
  /\ UNCHANGED <<fmVars, nameToId, idToName, frameName, key, chain, dirty, pinned, mem>>

\* fetchPage: a frame never used before is allocated; another is written out if
\* dirty, under the key it has, before it gets the new key.  Its callers then
\* name the frame for the file.
Fetch(id, p) ==
  LET f == Victim
  IN  /\ \E g \in Frame : ~pinned[g]
      /\ lru' = Rotated
      /\ disk' = IF mem[f] = None THEN disk ELSE WrittenOut(f)
      /\ chain' = [Unchained(f) EXCEPT ![HashOf(<<id, p>>)] = Cons(f, @)]
      /\ key' = [key EXCEPT ![f] = <<id, p>>]
      /\ frameName' = [frameName EXCEPT ![f] = idToName[id]]
      /\ cur' = f
      /\ UNCHANGED <<dir, osfd, fd, freeIds, nameToId, idToName, pinned>>

\* The page is read into the victim's buffer, which keeps what it held (new
\* memory: anything) when the read fails.
FetchAndRead(id, p) ==
  LET f == Victim
  IN  /\ Fetch(id, p)
      /\ \E c \in IF InodeOf(id) # None THEN {disk'[InodeOf(id)][p]}
                   ELSE IF mem[f] # None THEN {mem[f]} ELSE Contents :
            mem' = [mem EXCEPT ![f] = c]
      /\ dirty' = IF mem[f] = None THEN dirty ELSE Cleaned(f)
      /\ UNCHANGED last

GetPageMiss(id, p) == ~Hit(id, p) /\ FetchAndRead(id, p)

GetPage(id, p) == GetPageHit(id, p) \/ GetPageMiss(id, p)

\* allocPage does not look whether the page is in a frame already.
AllocPage(id, p) == FetchAndRead(id, p)

\* allocPage without reading, as in testfilesystem.cc: the caller fills the page
\* and marks it dirty.
AllocAndFill(id, p, c) ==
  /\ Fetch(id, p)
  /\ mem' = [mem EXCEPT ![Victim] = c]
  /\ dirty' = Marked(Victim)
  /\ last' = Victim

Access(f) == Touch(f) /\ UNCHANGED <<fmVars, nameToId, idToName, frameName, key, chain,
                                     dirty, pinned, mem, cur>>

MarkDirty(f) ==
  /\ dirty' = Marked(f)
  /\ Touch(f)
  /\ UNCHANGED <<fmVars, nameToId, idToName, frameName, key, chain, pinned, mem, cur>>

\* The caller writes through the address of a frame, as IX_IndexHandle does with
\* pages it marks later, in another frame or not at all.
Overwrite(f, c) ==
  /\ mem[f] # None
  /\ mem' = [mem EXCEPT ![f] = c]
  /\ UNCHANGED <<fmVars, nameToId, idToName, frameName, key, chain, lru, last,
                 dirty, pinned, cur>>

\* The caller changes the page in the frame and calls markDirty.
Modify(f, c) ==
  /\ mem[f] # None
  /\ mem' = [mem EXCEPT ![f] = c]
  /\ dirty' = Marked(f)
  /\ Touch(f)
  /\ UNCHANGED <<fmVars, nameToId, idToName, frameName, key, chain, pinned, cur>>

\* What release and the end of writeBack do to the tables.
GiveBack(f) ==
  /\ dirty' = Cleaned(f)
  /\ lru' = MovedToFront(f)
  /\ chain' = Unchained(f)
  /\ key' = [key EXCEPT ![f] = None]
  /\ cur' = IF f = cur THEN None ELSE cur
  /\ UNCHANGED <<dir, osfd, fd, freeIds, nameToId, idToName, frameName, last, pinned, mem>>

Release(f) == GiveBack(f) /\ UNCHANGED disk

WriteBack(f) ==
  /\ disk' = WrittenOut(f)
  /\ GiveBack(f)

\* close: writeBack of every frame from 0 to CAP-1.  Of two dirty frames of one
\* page the higher one is written last.
CloseAll ==
  /\ disk' = [i \in Inode |-> [p \in Pages |->
               LET writers == {f \in Frame : /\ ToBeWritten(f)
                                             /\ key[f][2] = p
                                             /\ InodeOf(key[f][1]) = i}
               IN  IF writers = {} THEN disk[i][p] ELSE mem[Max(writers)]]]
  /\ dirty' = [f \in Frame |-> FALSE]
  /\ lru' = [k \in 1 .. Cap |-> Cap - k]
  /\ chain' = [h \in DOMAIN chain |-> << >>]
  /\ key' = [f \in Frame |-> None]
  /\ cur' = None
  /\ UNCHANGED <<dir, osfd, fd, freeIds, nameToId, idToName, frameName, last, pinned, mem>>

Pin(f)   == /\ pinned' = [pinned EXCEPT ![f] = TRUE]
            /\ UNCHANGED <<fmVars, nameToId, idToName, frameName, key, chain, lru, last,
                           dirty, mem, cur>>
Unpin(f) == /\ pinned' = [pinned EXCEPT ![f] = FALSE]
            /\ UNCHANGED <<fmVars, nameToId, idToName, frameName, key, chain, lru, last,
                           dirty, mem, cur>>

\* The process dies and is started again: the kernel closes its descriptors and
\* what was in the frames is gone.
Restart ==
  /\ osfd' = [d \in Desc |-> None]
  /\ fd' = [id \in Id |-> None]
  /\ freeIds' = AllFree
  /\ nameToId' = [n \in Names |-> None]
  /\ idToName' = [id \in Id |-> None]
  /\ frameName' = [f \in Frame |-> None]
  /\ key' = [f \in Frame |-> None]
  /\ chain' = [h \in 0 .. (Mod - 1) |-> << >>]
  /\ lru' = FreshLru
  /\ last' = None
  /\ dirty' = [f \in Frame |-> FALSE]
  /\ pinned' = [f \in Frame |-> FALSE]
  /\ mem' = [f \in Frame |-> None]
  /\ cur' = None
  /\ disk' = Reclaimed(dir, osfd')
  /\ UNCHANGED dir

-----------------------------------------------------------------------------
\* The ids openFile would give a caller without opening anything.
OpenIds == {id \in Id : \E n \in Names : nameToId[n] = id}

\* Any caller may use any frame, whoever it was given to and whether it has a
\* page, and allocPage for a page that is in a frame.  Files are opened, closed,
\* created and deleted at any time, as SM_Manager and QL_Manager do: pages of a
\* closed file may stay in frames, a file may be deleted or created anew while
\* it is open, and ids may run out.
UseFrame(f) ==
  \/ Access(f) \/ MarkDirty(f) \/ WriteBack(f) \/ Release(f) \/ Pin(f) \/ Unpin(f)
  \/ \E c \in Contents : Overwrite(f, c) \/ Modify(f, c)

Next ==
  \/ \E id \in OpenIds, p \in Pages :
       GetPage(id, p) \/ AllocPage(id, p) \/ \E c \in Contents : AllocAndFill(id, p, c)
  \/ \E f \in Frame : UseFrame(f)
  \/ CloseAll
  \/ Restart
  \/ \E id \in OpenIds : CloseFile(id)
  \/ \E n \in Names : CreateFile(n) \/ DeleteFile(n) \/ OpenFile(n)

Spec == Init /\ [][Next]_vars

\* The discipline under which the manager is a cache: a caller uses the frame it
\* was given last and those it has pinned, and allocPage for a page that is in
\* no frame (BufPageManager.h:86); a file is closed when none of its pages is in
\* a frame (each was written back or released, as in RM_Manager::CreateFile and
\* SM_Manager::TableExist), created or deleted when it is not open, opened when
\* it exists and an id is free, and no change is thrown away.
Held(f)    == key[f] # None /\ (f = cur \/ pinned[f])
Cached(id) == \E f \in Frame : key[f] # None /\ key[f][1] = id
CanOpen(n) == nameToId[n] # None \/ (freeIds # {} /\ OpenSucceeds(n))

PageStep ==
  \/ \E id \in OpenIds, p \in Pages :
       \/ GetPage(id, p)
       \/ /\ FindIndex(<<id, p>>) = None
          /\ AllocPage(id, p) \/ \E c \in Contents : AllocAndFill(id, p, c)
  \/ \E f \in Frame : /\ Held(f)
                     /\ \/ Access(f) \/ WriteBack(f) \/ Pin(f)
                        \/ ~dirty[f] /\ Release(f)
                        \/ \E c \in Contents : Modify(f, c)
  \/ \E f \in Frame : pinned[f] /\ Unpin(f)
  \/ CloseAll
  \/ Restart

DisciplinedNext ==
  \/ PageStep
  \/ \E id \in OpenIds : ~Cached(id) /\ CloseFile(id)
  \/ \E n \in Names : \/ nameToId[n] = None /\ (CreateFile(n) \/ DeleteFile(n))
                      \/ (CanOpen(n) /\ OpenFile(n))

DisciplinedSpec == Init /\ [][DisciplinedNext]_vars

-----------------------------------------------------------------------------
(* Properties of every use.                                                 *)

(* The page table is coherent: a frame is in the chain its key hashes to,   *)
(* once, and in no other, and a frame without a key is in none.  findIndex   *)
(* (MyHashMap.h:45), which looks for a page only in the chain of its key,   *)
(* misses no frame and its walk ends.                                       *)
PageTableCoherent ==
  \A h \in DOMAIN chain :
    /\ IsInjective(chain[h])
    /\ ToSet(chain[h]) = {f \in Frame : key[f] # None /\ HashOf(key[f]) = h}

(* The replacement list holds every frame once: no frame is lost to it and  *)
(* none is chosen twice in a round.                                         *)
EveryFrameReplaceable == Len(lru) = Cap /\ ToSet(lru) = Frame

(* While a frame is pinned it is never given to another page: until the     *)
(* caller gives it back or everything is closed its key stays, and its      *)
(* bytes change only by the caller's hand, which marks them dirty.          *)
PinnedStays ==
  [][\A f \in Frame : pinned[f] /\ key[f] # None /\ key'[f] # None
        => key'[f] = key[f] /\ (mem'[f] = mem[f] \/ dirty'[f])]_vars

-----------------------------------------------------------------------------
(* Properties of the disciplined use.                                       *)

FileOfKey(k) == LET n == idToName[k[1]] IN IF n = None THEN None ELSE dir[n]

(* No page is in two frames, so no caller changes one copy while another    *)
(* reads or writes out the other.                                           *)
OneFramePerPage ==
  \A f, g \in Frame : key[f] # None /\ key[f] = key[g] => f = g

(* BufPageManager.h:162: a page marked dirty can be written back.  It has a *)
(* place in a file, and the id it would be written through still reaches    *)
(* the file it was read from.                                               *)
DirtyPageHasItsFile ==
  \A f \in Frame : dirty[f] =>
    /\ key[f] # None
    /\ idToName[key[f][1]] = frameName[f]
    /\ FileOfKey(key[f]) # None
    /\ InodeOf(key[f][1]) = FileOfKey(key[f])

(* BufPageManager.h:108: the page getPage finds in a frame is the page of   *)
(* the file.  Unless it was modified, the frame the caller was given holds  *)
(* what the file now linked under the name has in that page.                *)
PageFoundIsFilePage ==
  cur # None /\ ~dirty[cur] /\ FileOfKey(key[cur]) # None
    => mem[cur] = disk[FileOfKey(key[cur])][key[cur][2]]

(* FileManager.h:138: openFile opens the file of that name.  The id a name  *)
(* is open under reaches the file the name is linked to.                    *)
IdReachesNamedFile ==
  \A n \in Names : nameToId[n] # None /\ dir[n] # None
                      => InodeOf(nameToId[n]) = dir[n]

-----------------------------------------------------------------------------
(* The disciplined manager implements PageStore: pages that can be written, *)
(* that survive a restart once synchronised, whatever the frames, the ids   *)
(* and the replacement do.                                                  *)
FramesOf(n, p) == {f \in Frame : nameToId[n] # None /\ key[f] = <<nameToId[n], p>>}

StoreOf(n) ==
  IF dir[n] = None THEN None
  ELSE [p \in Pages |-> IF FramesOf(n, p) = {} THEN disk[dir[n]][p]
                        ELSE mem[CHOOSE f \in FramesOf(n, p) : TRUE]]

DurableOf(n) == IF dir[n] = None THEN None ELSE disk[dir[n]]

AbstractStore == INSTANCE PageStore WITH
  store   <- [n \in Names |-> StoreOf(n)],
  durable <- [n \in Names |-> DurableOf(n)]

ImplementsPageStore == AbstractStore!Spec

(* What callers see of a page changes by their own hand or by a restart:    *)
(* eviction, writeBack, close, and opening and closing files under recycled *)
(* ids never lose a change or bring an older page back.                     *)
CallerChangesPage ==
  \/ \E f \in Frame, c \in Contents : Modify(f, c)
  \/ \E id \in Id, p \in Pages, c \in Contents : AllocAndFill(id, p, c)
  \/ \E n \in Names : CreateFile(n)

OnlyCallersChangePages ==
  [][\A n \in Names, p \in Pages :
        StoreOf(n) # None /\ StoreOf(n)' # None /\ StoreOf(n)'[p] # StoreOf(n)[p]
          => CallerChangesPage \/ Restart]_vars
=============================================================================
