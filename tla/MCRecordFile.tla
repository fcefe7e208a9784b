---------------------------- MODULE MCRecordFile ----------------------------
(* Records of at most five bytes in words of two: slot 0 is at byte 0, slot *)
(* 1 at byte 4 instead of 5, slot 2 at byte 10, as 250 bytes in words of    *)
(* four put the odd slots two bytes early.                                  *)
EXTENDS RecordFile
=============================================================================
