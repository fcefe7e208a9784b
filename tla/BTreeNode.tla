------------------------------ MODULE BTreeNode ------------------------------
(***************************************************************************)
(* indexing/btree_node.cc: what the operations of a node compute.          *)
(*                                                                         *)
(* A node is its entries, <<key, address>> in key order, and the pages of  *)
(* its neighbours.  Keys are integers.  Positions count from 1; 0 stands   *)
(* for the -1 of a key that is not found.                                  *)
(***************************************************************************)
EXTENDS Integers, Sequences, SequencesExt, FiniteSetsExt

CONSTANT Capacity    \* entries of a page, at least 75 for keys of up to 100 bytes

ASSUME NodeAssumption == Capacity \in Nat /\ Capacity >= 2

NoPage    == -1
EmptyNode == [entries |-> << >>, left |-> NoPage, right |-> NoPage]

Key(n, i)     == n.entries[i][1]
Addr(n, i)    == n.entries[i][2]
Size(n)       == Len(n.entries)
IsEmpty(n)    == Size(n) = 0
LargestKey(n) == Key(n, Size(n))
Addresses(n)  == {Addr(n, i) : i \in DOMAIN n.entries}

FullLate(n) == Size(n) > Capacity                  \* mutant of Full: off by one
Full(n)     == Size(n) = Capacity

\* Both searches go from the last entry down to the first whose key is at most k.
AtMost(n, k) == {i \in DOMAIN n.entries : Key(n, i) <= k}

\* FindKey with a record id: among entries of one key, the last that has it.
FindEntry(n, k, r) ==
  LET S    == AtMost(n, k)
      hits == {i \in S : n.entries[i] = <<k, r>> /\ \A j \in S : j > i => Key(n, j) = k}
  IN  IF hits = {} THEN 0 ELSE Max(hits)

\* FindKey without one.
FindKey(n, k) ==
  LET S == AtMost(n, k) IN IF S # {} /\ Key(n, Max(S)) = k THEN Max(S) ELSE 0

\* FindPositionByKey: Size(n) + 1 when k is larger than every key.
FindPositionByKey(n, k) ==
  LET S == AtMost(n, k)
  IN  IF S = {} THEN 1 ELSE IF Key(n, Max(S)) = k THEN Max(S) ELSE Max(S) + 1

\* Insert into a node that is not full: behind the entries with keys up to k.
Insert(n, e) ==
  LET S == AtMost(n, e[1])
  IN  [n EXCEPT !.entries = InsertAt(@, IF S = {} THEN 1 ELSE Max(S) + 1, e)]

RemoveEntry(n, i) == [n EXCEPT !.entries = RemoveAt(@, i)]
SetKey(n, i, k)   == [n EXCEPT !.entries[i][1] = k]

\* Split of the node of page p into itself and the new node of page q: the
\* upper half moves, and q becomes the right neighbour of p.
SplitLosingOne(n, p, q) ==                         \* mutant of Split: RangeRemove one too many
  LET half == (Size(n) + 1) \div 2
  IN  [this  |-> [n EXCEPT !.entries = SubSeq(@, 1, half), !.right = q],
       other |-> [entries |-> SubSeq(n.entries, half + 2, Size(n)), left |-> p, right |-> n.right]]
Split(n, p, q) ==
  LET half == (Size(n) + 1) \div 2
  IN  [this  |-> [n EXCEPT !.entries = SubSeq(@, 1, half), !.right = q],
       other |-> [entries |-> SubSeq(n.entries, half + 1, Size(n)), left |-> p, right |-> n.right]]
=============================================================================
