-------------------------- MODULE MCBufPageManager --------------------------
(* See the .cfg files: fewer frames than pages, so that frames are evicted, *)
(* and where there are two, two chains of one or two of them and a victim   *)
(* that may be pinned.                                                      *)
EXTENDS BufPageManager
=============================================================================
