---------------------------- MODULE MCMyLinkList ----------------------------
(* Four elements in three lists: every element can be first, last, in the   *)
(* middle or alone, and a list can lose its last element to another.        *)
EXTENDS MyLinkList
=============================================================================
