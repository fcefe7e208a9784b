---------------------------- MODULE RecordStore ----------------------------
(***************************************************************************)
(* What a record file of recordmanager/rm.h promises: records kept under   *)
(* record ids, each unchanged until it is updated or deleted itself.       *)
(***************************************************************************)
CONSTANTS Rids,     \* record ids
          Values,   \* records
          None      \* no record

VARIABLE recs       \* record id -> record, or None

Init == recs = [r \in Rids |-> None]

\* The file chooses a record id that is not in use.
Insert(r, v) == recs[r] = None /\ recs' = [recs EXCEPT ![r] = v]
Delete(r)    == recs[r] # None /\ recs' = [recs EXCEPT ![r] = None]
Update(r, v) == recs[r] # None /\ recs' = [recs EXCEPT ![r] = v]

Next == \E r \in Rids : \/ Delete(r)
                        \/ \E v \in Values : Insert(r, v) \/ Update(r, v)

Spec == Init /\ [][Next]_recs
=============================================================================
