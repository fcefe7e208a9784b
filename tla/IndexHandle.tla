----------------------------- MODULE IndexHandle -----------------------------
(***************************************************************************)
(* indexing/ix.cc: IX_IndexHandle, from the Open of a new index on.        *)
(*                                                                         *)
(* Nodes are changed in their frames and written when a path is given up;  *)
(* with 60000 frames none is evicted, so a page has one content, the one   *)
(* in its frame or, when it has none, on disk (node).  Only a new root is  *)
(* different: its frame is the one the old root has just given back.  What *)
(* a page once used for a node holds on disk is left open.                 *)
(*                                                                         *)
(* FindKey(key) asks the default record id for its page, which leaves the  *)
(* answer unset (rm_rid.cc:23): whether the key is found depends on what   *)
(* is on the stack.  A failing assert ends the program (aborted).          *)
(*                                                                         *)
(* Keys are distinct: ix.cc:71 has the test against existing ones disabled.*)
(***************************************************************************)
EXTENDS BTreeNode, FiniteSets, FiniteSetsExt

CONSTANTS Keys,     \* the keys callers use
          Rids,     \* record ids
          Leftover, \* what a page used before may hold where a key is read
          MaxPage,  \* pages the file may have
          Unset,    \* bits CreateIndex leaves as they are in memory; not all are set
          None      \* no node, no key

ASSUME IndexAssumption ==
  /\ Keys \cup Leftover \subseteq Int /\ MaxPage \in Nat \ {0}
  /\ Unset \subseteq 1 .. MaxPage /\ Unset # 1 .. MaxPage
  /\ None \notin Int

VARIABLES node,         \* page -> node, None when the page is free
          used,         \* bits set in header.pageNumBitMap
          numPages,     \* header.numPages
          rootPage,     \* header.rootPageNum
          height,       \* header.height
          treeLargest,  \* treeLargest
          aborted,      \* an assertion has failed
          top,          \* history: the last page that has held a node
          junk,         \* history: bits that were set in the new bitmap
          due           \* history: entries inserted and not asked to be deleted since

header == <<used, numPages, rootPage, height>>
vars   == <<node, header, treeLargest, aborted, top, junk, due>>

Page  == 1 .. MaxPage
Entry == (Keys \cup Leftover \cup {0}) \X (Rids \cup Page)

Node  == [entries : Seq(Entry), left : Page \cup {NoPage}, right : Page \cup {NoPage}]

ASSUME NoneAssumption == None \notin Node

TypeOK ==
  /\ node \in [Page -> Node \cup {None}]
  /\ \A p \in Page : node[p] # None => Size(node[p]) <= Capacity
  /\ used \subseteq Page \cup {0}
  /\ numPages \in Nat
  /\ rootPage \in Page /\ node[rootPage] # None
  /\ height \in Nat \ {0}
  /\ treeLargest \in Keys \cup {None}
  /\ aborted \in BOOLEAN
  /\ top \in Page
  /\ junk \subseteq Unset
  /\ due \subseteq Keys \X Rids

-----------------------------------------------------------------------------
(* The way from the root to a leaf.                                         *)

\* The child to follow: a key beyond the last separator goes to the last one.
ChildPos(n, k) == Min({FindPositionByKey(n, k), Size(n)})

\* path of FindLeaf: a page for each level, the root's first.
Child(p, k) == Addr(node[p], ChildPos(node[p], k))
FindLeaf(k) ==
  LET path[l \in 1 .. height] == IF l = 1 THEN rootPage ELSE Child(path[l - 1], k)
  IN  path

\* FindFirstZeroPosition, as GetNewPage uses it.
NewPage(bits) == Min(Page \ bits)

-----------------------------------------------------------------------------
(* Open of an index CreateIndex has just made: one empty node.  Its header  *)
(* is a local variable whose bitmap nobody clears.                          *)
Init ==
  /\ junk \in SUBSET Unset
  /\ rootPage = NewPage(junk)
  /\ used = {0, rootPage} \cup junk
  /\ numPages = 2
  /\ height = 1
  /\ node = [p \in Page |-> IF p = rootPage THEN EmptyNode ELSE None]
  /\ treeLargest = None
  /\ top = rootPage
  /\ aborted = FALSE
  /\ due = {}

Abort == aborted' = TRUE /\ UNCHANGED <<node, header, treeLargest, top, junk>>

-----------------------------------------------------------------------------
(* InsertEntry.                                                             *)

\* k is put into an empty leaf or is larger than every key so far: the last
\* separators on the path become k.
NewLargest(leaf, k) == ~IsEmpty(leaf) => k > treeLargest

Raised(path, k) ==
  [p \in Page |->
    IF \E i \in 1 .. (height - 1) : path[i] = p
    THEN SetKey(node[p], FindKey(node[p], treeLargest), k) ELSE node[p]]

\* The old right neighbour of a node that was split gets the new one as left.
NotLinked(nodes, right, q) == nodes                \* mutant of LinkedBack: curRight is left alone
LinkedBack(nodes, right, q) ==
  IF right = NoPage THEN nodes ELSE [nodes EXCEPT ![right].left = q]

\* The full node at level l is split, the entry it was to take goes to one of
\* the halves, and both are entered in the parent, which may have to carry the
\* second one.  Which half depends on the key inserted into the leaf.
SplitAt(s, path, l, k) ==
  LET p      == path[l]
      q      == NewPage(s.used)
      halves == Split(s.node[p], p, q)
      right  == k >= LargestKey(halves.this)
      this   == IF right THEN halves.this ELSE Insert(halves.this, s.carry)
      other  == IF right THEN Insert(halves.other, s.carry) ELSE halves.other
      nodes  == LinkedBack([s.node EXCEPT ![p] = this, ![q] = other], s.node[p].right, q)
      atParent(n) == Insert(RemoveEntry(n, ChildPos(node[path[l - 1]], k)), <<LargestKey(this), p>>)
  IN  [node  |-> IF l = 1 THEN nodes ELSE [nodes EXCEPT ![path[l - 1]] = atParent(@)],
       used  |-> s.used \cup {q},
       count |-> s.count + 1,
       carry |-> <<LargestKey(other), q>>,
       done  |-> FALSE]

PutAt(s, path, l, k) ==
  IF s.done THEN s
  ELSE IF Full(s.node[path[l]]) THEN SplitAt(s, path, l, k)
  ELSE [s EXCEPT !.node[path[l]] = Insert(@, s.carry), !.done = TRUE]

\* The loop over full nodes, from the leaf up: what it leaves after[l] level l.
PutUp(nodes, path, e) ==
  LET start == [node |-> nodes, used |-> used, count |-> numPages, carry |-> e, done |-> FALSE]
      after[l \in 1 .. (height + 1)] ==
        IF l > height THEN start ELSE PutAt(after[l + 1], path, l, e[1])
  IN  after[1]

\* A new root over the old one, with separator g, and the half s.carry names.
NewRoot(s, g) == Insert(Insert(EmptyNode, <<g, rootPage>>), s.carry)

\* The new root's separator of the old one is LargestKey of the old root, read
\* after its frame was written back and given to the new page: it is what the
\* new page holds on disk, zeros when that lies behind the end of the file.
ReadForLargest(page, bits) == IF page > Max({top} \cup (bits \ junk)) THEN {0} ELSE Leftover

RootSplit(s) ==
  LET page == NewPage(s.used)
  IN  /\ \E g \in ReadForLargest(page, s.used) : node' = [s.node EXCEPT ![page] = NewRoot(s, g)]
      /\ used' = s.used \cup {page}
      /\ numPages' = s.count + 1
      /\ rootPage' = page
      /\ height' = height + 1

InsertEntry(k, r) ==
  LET path   == FindLeaf(k)
      grows  == NewLargest(node[path[height]], k)
      found  == \A i \in 1 .. (height - 1) : FindKey(node[path[i]], treeLargest) # 0
      nodes  == IF grows THEN Raised(path, k) ELSE node
      s      == PutUp(nodes, path, <<k, r>>)
  IN  /\ ~aborted
      /\ due' = due \cup {<<k, r>>}
      /\ \/ grows /\ height > 1 /\ Abort     \* SetKey asserts a position FindKey did not give
         \/ /\ grows => found
            /\ treeLargest' = IF grows THEN k ELSE treeLargest
            /\ IF s.done
               THEN /\ node' = s.node /\ used' = s.used /\ numPages' = s.count
                    /\ UNCHANGED <<rootPage, height>>
               ELSE RootSplit(s)
            /\ top' = Max({top} \cup (used' \ junk))
            /\ UNCHANGED <<aborted, junk>>

-----------------------------------------------------------------------------
(* DeleteEnrty.                                                             *)

\* The separators that are the key k to be deleted become the key before it:
\* above the leaf in any position, further up only in the last one.
LowerAt(nodes, path, l, k) ==
  LET n     == nodes[path[l]]
      child == nodes[path[l + 1]]
      i     == FindKey(n, k)
      last  == IF LargestKey(child) = k THEN Size(child) - 1 ELSE Size(child)
  IN  IF i # 0 /\ last > 0 /\ (l = height - 1 \/ i = Size(n))
      THEN [nodes EXCEPT ![path[l]] = SetKey(n, i, Key(child, last))] ELSE nodes

Lowered(path, k, levels) ==
  LET after[l \in 1 .. height] ==
        IF l = height THEN node
        ELSE IF l \in levels THEN LowerAt(after[l + 1], path, l, k) ELSE after[l + 1]
  IN  after[1]

\* Only for the last key of the leaf, on the levels where FindKey happens to work.
Lowerings(path, k, pos) ==
  IF pos = Size(node[path[height]])
  THEN {Lowered(path, k, levels) : levels \in SUBSET (1 .. (height - 1))} ELSE {node}

\* A node is taken out of the chain of its level.
TakenOut(nodes, p) ==
  LET n == nodes[p]
  IN  [x \in Page |-> CASE x = p       -> None
                        [] x = n.left  -> [nodes[x] EXCEPT !.right = n.right]
                        [] x = n.right -> [nodes[x] EXCEPT !.left = n.left]
                        [] OTHER       -> nodes[x]]

\* DisposePage.
StillUsed(bits, p) == bits                         \* mutant of Freed: the bit stays set
Freed(bits, p)     == bits \ {p}

\* An empty node leaves its parent and its chain.
PruneAt(s, path, l, k) ==
  LET p == path[l]
  IN  IF ~IsEmpty(s.node[p]) THEN s
      ELSE [node  |-> TakenOut([s.node EXCEPT
                        ![path[l - 1]] = RemoveEntry(@, ChildPos(node[path[l - 1]], k))], p),
            used  |-> Freed(s.used, p),
            count |-> s.count - 1]

PruneLeaf(nodes, path, k) ==                       \* mutant of PruneUp: only the leaf is looked at
  LET s == [node |-> nodes, used |-> used, count |-> numPages]
  IN  IF height = 1 THEN s ELSE PruneAt(s, path, height, k)

\* The loop over empty nodes, from the leaf up: after[l] has looked at those below l.
PruneUp(nodes, path, k) ==
  LET after[l \in 1 .. height] ==
        IF l = height THEN [node |-> nodes, used |-> used, count |-> numPages]
        ELSE PruneAt(after[l + 1], path, l + 1, k)
  IN  after[1]

\* The entry is not in the leaf.  As keys are distinct, ScanLeftFind meets a
\* smaller key before it finds the record id.
NotFound(k, r) ==
  /\ FindEntry(node[FindLeaf(k)[height]], k, r) = 0
  /\ UNCHANGED <<node, header, treeLargest, aborted, top, junk>>

Found(k, r) ==
  LET path == FindLeaf(k)
      pos  == FindEntry(node[path[height]], k, r)
  IN  /\ pos # 0
      /\ \E nodes \in Lowerings(path, k, pos) :
           LET s == PruneUp([nodes EXCEPT ![path[height]] = RemoveEntry(@, pos)], path, k)
           IN  IF IsEmpty(s.node[rootPage]) /\ s.count # 2
               THEN Abort                          \* root = FetchNode of no address
               ELSE /\ node' = s.node /\ used' = s.used /\ numPages' = s.count
                    /\ height' = IF IsEmpty(s.node[rootPage]) THEN 1 ELSE height
                    /\ UNCHANGED <<rootPage, treeLargest, aborted, top, junk>>

DeleteEntry(k, r) ==
  /\ ~aborted
  /\ due' = due \ {<<k, r>>}
  /\ NotFound(k, r) \/ Found(k, r)

-----------------------------------------------------------------------------
(* The tree.                                                                *)

\* The pages of a level, the root's first, and all of them.
Level[l \in 1 .. height] ==
  IF l = 1 THEN {rootPage} ELSE UNION {Addresses(node[p]) : p \in Level[l - 1]}

TreePages == UNION {Level[l] : l \in 1 .. height}

Stored == UNION {ToSet(node[p].entries) : p \in Level[height]}

\* Bound of the model: a page is free for each node this insert splits, and
\* for a new root.
PageSupply(k) ==
  LET path == FindLeaf(k)
      full == {l \in 1 .. height : \A i \in l .. height : Full(node[path[i]])}
  IN  Cardinality(Page \ used) >= IF 1 \in full THEN height + 1 ELSE Cardinality(full)

Next ==
  \/ \E k \in Keys \ {e[1] : e \in Stored}, r \in Rids : PageSupply(k) /\ InsertEntry(k, r)
  \/ \E k \in Keys, r \in Rids : DeleteEntry(k, r)

Spec == Init /\ [][Next]_vars

-----------------------------------------------------------------------------
(* Splits and pruning keep each level one chain, linked both ways: scans    *)
(* follow the leaves' chain, ScanLeftFind its reverse.                      *)
Linked(level) ==
  /\ \A p \in level :
       /\ node[p].right # NoPage => node[p].right \in level /\ node[node[p].right].left = p
       /\ node[p].left # NoPage => node[p].left \in level /\ node[node[p].left].right = p
  /\ Cardinality({p \in level : node[p].left = NoPage}) = 1

ChainIsLevel == \A l \in 1 .. height : Linked(Level[l])

(* The header agrees with the tree: the bitmap has the pages of the tree    *)
(* and what it was created with; numPages counts the pages of the tree and  *)
(* the header; and no page but the root's is without its one entry in a     *)
(* node above.                                                              *)
PagesAccounted ==
  LET inner == UNION {Level[l] : l \in 1 .. (height - 1)}
  IN  /\ used = {0} \cup junk \cup TreePages
      /\ TreePages = {p \in Page : node[p] # None}
      /\ numPages = 1 + Cardinality(TreePages)
      /\ \A p, q \in inner : \A i \in DOMAIN node[p].entries, j \in DOMAIN node[q].entries :
           Addr(node[p], i) = Addr(node[q], j) => p = q /\ i = j
      /\ \A p \in inner : rootPage \notin Addresses(node[p])

(* Splitting, raising, lowering and pruning lose no entry: what was         *)
(* inserted and not asked to be deleted is in a leaf of the tree.           *)
EntriesKept == aborted \/ due \subseteq Stored

(* Pruning leaves no node empty but the root, on any level: GetKey(0),      *)
(* LargestKey and the way down rely on it.                                  *)
NoEmptyNode == \A p \in Page \ {rootPage} : node[p] # None => ~IsEmpty(node[p])

(* ix_test.cc:75-81 deletes every key it has inserted and expects a tree of *)
(* height 1 and the two pages of a new index.                               *)
AllDeletedIsNew == ~aborted /\ due = {} => height = 1 /\ numPages = 2
=============================================================================
