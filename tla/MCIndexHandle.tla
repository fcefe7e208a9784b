--------------------------- MODULE MCIndexHandle ---------------------------
(* Nodes of two entries: four keys make a tree of height three.  Zero is    *)
(* the key a new root may be given for the old one.                         *)
EXTENDS IndexScan
=============================================================================
