----------------------------- MODULE FileManager -----------------------------
(***************************************************************************)
(* filesystem/fileio/FileManager.h over the file system it calls.          *)
(*                                                                         *)
(* The manager hands out file ids from a bitmap of free ids (fm) and keeps *)
(* for each id the descriptor open(2) returned (fd).  The directory, the   *)
(* inodes and the descriptor table belong to the operating system: a name  *)
(* links to an inode, an inode lives while a name or a descriptor refers   *)
(* to it, and a new descriptor is the lowest one free.                     *)
(***************************************************************************)
EXTENDS Integers, FiniteSets, FiniteSetsExt

CONSTANTS Names,       \* file names
          Pages,       \* page numbers of a file
          Contents,    \* what a page can hold
          Zero,        \* the page of zeros, read where nothing was written
          MaxFileNum,  \* MAX_FILE_NUM, the number of file ids
          MaxDesc,     \* descriptors the process may have open
          None         \* no file, no inode, no descriptor, no name, no frame, no key

ASSUME FileAssumption ==
  /\ IsFiniteSet(Names)
  /\ Pages \subseteq Nat
  /\ Zero \in Contents
  /\ MaxFileNum \in Nat \ {0}
  /\ MaxDesc \in Nat \ {0}
  /\ None \notin Int \cup Names \cup Contents \cup (Int \X Int)
  /\ None \notin [Pages -> Contents]

VARIABLES dir,     \* name -> inode linked under it
          disk,    \* inode -> page -> content
          osfd,    \* descriptor -> inode it is open on
          fd,      \* file id -> descriptor stored for it; kept after a close
          freeIds  \* the ids whose bit of fm is set

fmVars == <<dir, disk, osfd, fd, freeIds>>

Id       == 0 .. (MaxFileNum - 1)
Desc     == 0 .. (MaxDesc - 1)
Inode    == 0 .. (Cardinality(Names) + MaxDesc - 1)
ZeroFile == [p \in Pages |-> Zero]

FmTypeOK ==
  /\ dir \in [Names -> Inode \cup {None}]
  /\ disk \in [Inode -> [Pages -> Contents]]
  /\ osfd \in [Desc -> Inode \cup {None}]
  /\ fd \in [Id -> Desc \cup {None}]
  /\ freeIds \subseteq Id

-----------------------------------------------------------------------------
(* The operating system.                                                    *)

FreeDescs == {d \in Desc : osfd[d] = None}

\* An inode neither linked nor open.  There are as many inodes as names and
\* descriptors together, so one is left whenever a name is not linked.
FreshInode == CHOOSE i \in Inode : /\ \A n \in Names : dir[n] # i
                                   /\ \A d \in Desc : osfd[d] # i

\* Pages of an inode nothing refers to any more are gone.
Reclaimed(links, descs) ==
  [i \in Inode |-> IF (\E n \in Names : links[n] = i) \/ (\E d \in Desc : descs[d] = i)
                   THEN disk[i] ELSE ZeroFile]

-----------------------------------------------------------------------------
(* FileManager.                                                             *)

\* The inode reads and writes through a file id reach: none when the id has no
\* descriptor or its descriptor is closed, where lseek fails.
InodeOf(id) == IF fd[id] = None THEN None ELSE osfd[fd[id]]

\* writePage: nothing is written when lseek fails.
Written(id, p, c) ==
  IF InodeOf(id) = None THEN disk ELSE [disk EXCEPT ![InodeOf(id)][p] = c]

\* fopen(name, "w+"): the file is made or truncated.  createFile returns true
\* even when fopen fails for want of a descriptor.
FmCreateFile(n) ==
  /\ UNCHANGED <<osfd, fd, freeIds>>
  /\ \/ /\ FreeDescs = {}
        /\ UNCHANGED <<dir, disk>>
     \/ /\ FreeDescs # {}
        /\ dir[n] = None
        /\ dir' = [dir EXCEPT ![n] = FreshInode]
        /\ UNCHANGED disk
     \/ /\ FreeDescs # {}
        /\ dir[n] # None
        /\ disk' = [disk EXCEPT ![dir[n]] = ZeroFile]
        /\ UNCHANGED dir

\* remove(name): the inode stays while a descriptor is open on it.
FmDeleteFile(n) ==
  /\ dir' = [dir EXCEPT ![n] = None]
  /\ disk' = Reclaimed(dir', osfd)
  /\ UNCHANGED <<osfd, fd, freeIds>>

\* findLeftOne: the lowest free id, and 0 when no bit is set.
NextIdClear == IF freeIds = Id THEN 0 ELSE Min(Id \ freeIds)   \* mutant of NextId: looks for a clear bit
NextId == IF freeIds = {} THEN 0 ELSE Min(freeIds)

OpenSucceeds(n) == dir[n] # None /\ FreeDescs # {}

\* Mutant of FmOpenFile: the id stays free.
FmOpenFileStillFree(n) ==
  /\ IF OpenSucceeds(n)
     THEN /\ osfd' = [osfd EXCEPT ![Min(FreeDescs)] = dir[n]]
          /\ fd' = [fd EXCEPT ![NextId] = Min(FreeDescs)]
     ELSE UNCHANGED <<osfd, fd>>
  /\ UNCHANGED <<dir, disk, freeIds>>

\* openFile: the id is taken before open(2) is tried and not given back when
\* it fails.
FmOpenFile(n) ==
  /\ freeIds' = freeIds \ {NextId}
  /\ IF OpenSucceeds(n)
     THEN /\ osfd' = [osfd EXCEPT ![Min(FreeDescs)] = dir[n]]
          /\ fd' = [fd EXCEPT ![NextId] = Min(FreeDescs)]
     ELSE UNCHANGED <<osfd, fd>>
  /\ UNCHANGED <<dir, disk>>

\* closeFile: the id is free again, fd keeps the closed descriptor.
FmCloseFile(id) ==
  /\ freeIds' = freeIds \cup {id}
  /\ osfd' = IF fd[id] = None THEN osfd ELSE [osfd EXCEPT ![fd[id]] = None]
  /\ disk' = Reclaimed(dir, osfd')
  /\ UNCHANGED <<dir, fd>>

AllFree == Id

FmInit ==
  /\ dir = [n \in Names |-> None]
  /\ disk = [i \in Inode |-> ZeroFile]
  /\ osfd = [d \in Desc |-> None]
  /\ fd = [id \in Id |-> None]
  /\ freeIds = AllFree

-----------------------------------------------------------------------------
(* FileManager.h:62: ids tell the open files apart.  Every descriptor the   *)
(* manager opened belongs to exactly one id in use.                         *)
IdsDistinguishOpenFiles ==
  \A d \in Desc : osfd[d] # None => Cardinality({id \in Id \ freeIds : fd[id] = d}) = 1
=============================================================================
