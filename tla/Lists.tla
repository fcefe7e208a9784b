------------------------------- MODULE Lists -------------------------------
(***************************************************************************)
(* What filesystem/utils/MyLinkList.h promises its users (the hash chains  *)
(* of MyHashMap and the replacement list of FindReplace): a fixed number   *)
(* of sequences over one pool of elements, in which an element is in at    *)
(* most one place at a time and moving it takes it out of where it was.    *)
(***************************************************************************)
EXTENDS Integers, Sequences, SequencesExt, FiniteSetsExt

CONSTANTS Cap,      \* elements are 0 .. Cap-1
          ListNum   \* lists are 0 .. ListNum-1

VARIABLE lists      \* list id -> sequence of elements

Elem   == 0 .. (Cap - 1)
ListId == 0 .. (ListNum - 1)

\* The sequence s without the element e, which it holds at most once.
Without(s, e) ==
  LET at == {i \in DOMAIN s : s[i] = e} IN IF at = {} THEN s ELSE RemoveAt(s, Min(at))

\* Every list without e.
Removed(e) == [l \in ListId |-> Without(lists[l], e)]

Init == lists = [l \in ListId |-> << >>]

TakeOut(e)      == lists' = Removed(e)
PushBack(l, e)  == lists' = [Removed(e) EXCEPT ![l] = Append(@, e)]
PushFront(l, e) == lists' = [Removed(e) EXCEPT ![l] = Cons(e, @)]

Next == \E e \in Elem : \/ TakeOut(e)
                        \/ \E l \in ListId : PushBack(l, e) \/ PushFront(l, e)

Spec == Init /\ [][Next]_lists
=============================================================================
