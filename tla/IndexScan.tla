------------------------------ MODULE IndexScan ------------------------------
(***************************************************************************)
(* indexing/ix.cc: IX_IndexScan over an index that does not change while   *)
(* it is scanned.  A scan is its operator, its value (None for a null      *)
(* pointer, with NO_OP) and its direction; what a caller gets by calling   *)
(* GetNextEntry until it answers -2 is an operator.                        *)
(*                                                                         *)
(* Left out: what GetNextEntry does when the entry it returned last has    *)
(* been deleted (curDeleted), and the frames of the leaves it writes back. *)
(***************************************************************************)
EXTENDS IndexHandle

CONSTANT Values    \* the values scans are opened with

ASSUME ScanAssumption == Values \subseteq Keys

\* GetCheckFunction.
CheckFunction(op, x, y) ==
  \/ op = "NO"
  \/ op = "EQ" /\ x = y
  \/ op = "NE" /\ x # y
  \/ op = "LT" /\ x < y
  \/ op = "GE" /\ x >= y
  \/ op = "GT" /\ x > y
  \/ op = "LE" /\ x <= y

\* EarlyExitOptimize: no entry behind x can match.
EarlyExit(c, x) ==
  \/ c.op = "EQ" /\ x # c.value
  \/ ~c.desc /\ ((c.op = "LE" /\ x > c.value) \/ (c.op = "LT" /\ x >= c.value))
  \/ c.desc /\ ((c.op = "GE" /\ x < c.value) \/ (c.op = "GT" /\ x <= c.value))

\* The side of a node a scan comes to it from.
Outer(c, p) == IF c.desc THEN Size(node[p]) ELSE 1

\* FindSmallestLeaf, and FindLargestLeaf for a descending scan.
FindOuterLeaf(c) ==
  LET path[l \in 1 .. height] ==
        IF l = 1 THEN rootPage ELSE Addr(node[path[l - 1]], Outer(c, path[l - 1]))
  IN  path[height]

\* FindLeafForceRight: a neighbour that begins with the key would have it twice.
LeafOf(v) == FindLeaf(v)[height]

-----------------------------------------------------------------------------
\* Mutant of EnterNode: the last entry of a node is passed over from behind.
EnterNodeShort(c, p) == [page |-> p, from |-> IF c.desc THEN Max({0, Size(node[p]) - 1}) ELSE 1]

\* Where a node is entered on the way.
EnterNode(c, p) == [page |-> p, from |-> Outer(c, p)]

\* The end GetNextEntry begins at when OpOptimize has not chosen a leaf.
Outermost(c) == EnterNode(c, FindOuterLeaf(c))

\* OpOptimize: the first entry to look at, the last leaf (lastNode) and eof.  pos
\* is what FindKey answers in the leaf of the value.
OpOptimize(c, pos) ==
  LET opened(at, p) == [at |-> at, last |-> p, eof |-> c.op = "EQ" /\ pos = 0]
      last(p)       == opened(Outermost(c), p)
      inLeaf(i)     == opened([page |-> LeafOf(c.value), from |-> i], NoPage)
  IN  IF c.value = None \/ c.op \in {"NE", "GE"} THEN last(NoPage)
      ELSE IF c.desc THEN IF c.op \in {"LE", "LT", "EQ"} THEN inLeaf(pos) ELSE last(LeafOf(c.value))
      ELSE IF c.op \in {"LE", "LT", "EQ"} THEN last(LeafOf(c.value)) ELSE inLeaf(pos + 1)

\* One entry: it is returned, passed over, or ends the scan once one was found.
Looked(c, s, e) ==
  IF s.eof THEN s
  ELSE IF CheckFunction(c.op, e[1], c.value) THEN [s EXCEPT !.found = Append(@, e)]
  ELSE [s EXCEPT !.eof = s.found # << >> /\ EarlyExit(c, e[1])]

\* The entries of a node from the one entered on, and the way to its neighbour.
Entries(c, at) ==
  LET n == node[at.page]
  IN  [i \in 1 .. (IF c.desc THEN at.from ELSE Size(n) + 1 - at.from) |->
        n.entries[IF c.desc THEN at.from + 1 - i ELSE at.from + i - 1]]

NodeScanned(c, s, last) ==
  LET es   == Entries(c, s.at)
      seen[i \in 0 .. Len(es)] == IF i = 0 THEN s ELSE Looked(c, seen[i - 1], es[i])
      t    == seen[Len(es)]
      next == IF c.desc THEN node[s.at.page].left ELSE node[s.at.page].right
  IN  IF s.eof THEN s
      ELSE IF t.eof \/ s.at.page = last \/ next = NoPage THEN [t EXCEPT !.eof = TRUE]
      ELSE [t EXCEPT !.at = EnterNode(c, next)]

\* OpenScan, then GetNextEntry until -2: no more nodes than pages.
Returned(c, pos) ==
  LET start == OpOptimize(c, pos)
      after[i \in 0 .. MaxPage] ==
        IF i = 0 THEN [at |-> start.at, found |-> << >>, eof |-> start.eof]
        ELSE NodeScanned(c, after[i - 1], start.last)
  IN  after[MaxPage].found

-----------------------------------------------------------------------------
(* Scans over the tree as it is.                                            *)
Scans == [op : {"EQ", "NE", "LT", "GE", "GT", "LE"}, value : Values, desc : BOOLEAN]
         \cup [op : {"NO"}, value : {None}, desc : BOOLEAN]

\* The leaves, in the order of the entries above them.
Below(pages) ==
  FlattenSeq([j \in DOMAIN pages |-> [i \in DOMAIN node[pages[j]].entries |-> Addr(node[pages[j]], i)]])
Leaves ==
  LET level[l \in 1 .. height] == IF l = 1 THEN <<rootPage>> ELSE Below(level[l - 1])
  IN  level[height]

\* The leaves are a chain in the order of their entries, and the way down leads
\* to the leaf of every key.
LeavesInOrder(leaves) ==
  \A i \in 2 .. Len(leaves) :
    /\ node[leaves[i]].left = leaves[i - 1] /\ node[leaves[i - 1]].right = leaves[i]
    /\ LargestKey(node[leaves[i - 1]]) < Key(node[leaves[i]], 1)
Searchable(leaves) ==
  /\ LeavesInOrder(leaves)
  /\ \A k \in Keys : \A j \in DOMAIN leaves :
       LeafOf(k) = leaves[j] =>
         /\ j > 1 => LargestKey(node[leaves[j - 1]]) < k
         /\ j < Len(leaves) => Key(node[leaves[j + 1]], 1) > k

\* Scans that begin where FindKey finds the value, or end at once when it does not.
EndsUnfound(c) == c.op = "EQ" \/ (c.desc /\ c.op \in {"LT", "LE"})

\* What FindKey may answer in the leaf of the value, where a scan depends on it: it
\* misses keys of the tree too.  GT begins behind the value or with its leaf.
FoundAt(c) == IF EndsUnfound(c) \/ (~c.desc /\ c.op = "GT")
              THEN {0, FindKey(node[LeafOf(c.value)], c.value)} ELSE {0}

\* The entries a scan passes over when the value is not found: those of its leaf.
\* EQ has nothing to return elsewhere, and misses the value itself where FindKey
\* does; a descending LT or LE goes on with the leaf to the left, and misses what
\* is smaller in this one, whether the value is in the index or not.
Missed(c, pos) ==
  IF EndsUnfound(c) /\ pos = 0 THEN ToSet(node[LeafOf(c.value)].entries) ELSE {}

InOrder(c, es) ==
  \A i, j \in DOMAIN es : i < j => IF c.desc THEN es[i][1] > es[j][1] ELSE es[i][1] < es[j][1]

(* ix.cc:812-1105: in a tree whose separators are right (RootSplit may have *)
(* made a wrong one) a scan returns the entries that match but for those    *)
(* Missed of the leaf of a value that is not found, each once and in order, *)
(* although it begins in the middle and ends at a leaf chosen before or at  *)
(* the first entry past a match.                                            *)
ScanReturnsMatching ==
  LET stored == Stored
  IN  Searchable(Leaves) =>
        \A c \in Scans : \A pos \in FoundAt(c) :
          LET es == Returned(c, pos)
          IN  /\ ToSet(es) = {e \in stored \ Missed(c, pos) : CheckFunction(c.op, e[1], c.value)}
              /\ InOrder(c, es)
=============================================================================
