----------------------------- MODULE MyLinkList -----------------------------
(***************************************************************************)
(* filesystem/utils/MyLinkList.h: ListNum circular doubly linked lists in  *)
(* one array of nodes.  Nodes 0 .. Cap-1 are the elements, node Cap + l is *)
(* the head of list l, and a node alone is linked to itself.               *)
(***************************************************************************)
EXTENDS Integers, Sequences, FiniteSetsExt

CONSTANTS Cap,      \* number of elements
          ListNum   \* number of lists

ASSUME ListAssumption == Cap \in Nat \ {0} /\ ListNum \in Nat \ {0}

VARIABLE a          \* the array: node -> [next, prev]

Node   == 0 .. (Cap + ListNum - 1)
Elem   == 0 .. (Cap - 1)
ListId == 0 .. (ListNum - 1)
HeadOf(l)  == l + Cap
IsHead(n) == n >= Cap

-----------------------------------------------------------------------------
(* The array after each operation; reads of the array happen where the code *)
(* makes them, so Insert looks the neighbour up after the element is gone.  *)

Link(b, prev, next) == [b EXCEPT ![prev].next = next, ![next].prev = prev]

\* Mutant of Del: the element has no links.
DelToNull(b, e) ==
  IF b[e].prev = e
  THEN b
  ELSE [Link(b, b[e].prev, b[e].next) EXCEPT ![e] = [next |-> -1, prev |-> -1]]

Del(b, e) ==
  IF b[e].prev = e
  THEN b
  ELSE [Link(b, b[e].prev, b[e].next) EXCEPT ![e] = [next |-> e, prev |-> e]]

\* Mutants of Insert and InsertFirst: the neighbour is looked up before the
\* element is taken out.
InsertLookedUpEarly(b, l, e) ==
  Link(Link(Del(b, e), b[HeadOf(l)].prev, e), e, HeadOf(l))
InsertFirstLookedUpEarly(b, l, e) ==
  Link(Link(Del(b, e), HeadOf(l), e), e, b[HeadOf(l)].next)

Insert(b, l, e) ==
  LET d == Del(b, e)
  IN  Link(Link(d, d[HeadOf(l)].prev, e), e, HeadOf(l))

InsertFirst(b, l, e) ==
  LET d    == Del(b, e)
      next == d[HeadOf(l)].next
  IN  Link(Link(d, HeadOf(l), e), e, next)

-----------------------------------------------------------------------------
Init == a = [n \in Node |-> [next |-> n, prev |-> n]]

DoDel(e)            == a' = Del(a, e)
DoInsert(l, e)      == a' = Insert(a, l, e)
DoInsertFirst(l, e) == a' = InsertFirst(a, l, e)

Next == \E e \in Elem : \/ DoDel(e)
                        \/ \E l \in ListId : DoInsert(l, e) \/ DoInsertFirst(l, e)

Spec == Init /\ [][Next]_a

-----------------------------------------------------------------------------
(* Every link leads to a node of the array.                                 *)
TypeOK == a \in [Node -> [next : Node, prev : Node]]

(* The two directions agree at every node, so a walk along next and one     *)
(* along prev see the same lists, and no two nodes share a successor: no    *)
(* element is ever in two lists and no list loses its tail.                 *)
MutuallyInverse == \A n \in Node : /\ a[a[n].next].prev = n
                                   /\ a[a[n].prev].next = n

-----------------------------------------------------------------------------
(* The list a client sees: the nodes met by getFirst and next up to the     *)
(* head, as MyHashMap::findIndex walks them.  The walk is cut at Cap steps, *)
(* more than any list is long.                                              *)
Contents(l) ==
  LET walk[k \in 0 .. Cap] == IF k = 0 THEN a[HeadOf(l)].next
                                       ELSE a[walk[k - 1]].next
      ends == {k \in 0 .. Cap : IsHead(walk[k])}
      len  == IF ends = {} THEN Cap ELSE Min(ends)
  IN  [k \in 1 .. len |-> walk[k - 1]]

(* The array implements sequences over the elements: every operation of the *)
(* class is the operation of that name on the sequences.                    *)
AbstractLists == INSTANCE Lists WITH lists <- [l \in ListId |-> Contents(l)]
ImplementsLists == AbstractLists!Spec
=============================================================================
