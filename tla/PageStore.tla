----------------------------- MODULE PageStore -----------------------------
(***************************************************************************)
(* What BufPageManager promises: every page of every file can be read and  *)
(* written as if it were in memory (store), some of what was written is on *)
(* disk (durable), and nothing but a restart brings the older content      *)
(* back.                                                                   *)
(***************************************************************************)
EXTENDS Integers

CONSTANTS Names,      \* file names
          Pages,      \* page numbers
          Contents,   \* what a page can hold
          Zero,       \* the page of zeros
          None        \* no such file

VARIABLES store,      \* name -> page -> content callers see, or None
          durable     \* the same for what a restart would leave

storeVars == <<store, durable>>
NewFile   == [p \in Pages |-> Zero]

Init == /\ store = [n \in Names |-> None]
        /\ durable = [n \in Names |-> None]

\* A new file, or an old one emptied.
Create(n) == /\ store' = [store EXCEPT ![n] = NewFile]
             /\ durable' = [durable EXCEPT ![n] = NewFile]

Delete(n) == /\ store' = [store EXCEPT ![n] = None]
             /\ durable' = [durable EXCEPT ![n] = None]

\* What is on disk once the pages of S have been synchronised.
Flushed(S) == [n \in Names |->
                IF store[n] = None THEN None
                ELSE [p \in Pages |-> IF <<n, p>> \in S THEN store[n][p]
                                      ELSE durable[n][p]]]

\* Some pages reach the disk: those written back or evicted.
Flush == \E S \in SUBSET (Names \X Pages) : durable' = Flushed(S)

Sync == Flush /\ UNCHANGED store

\* A page is changed; finding room for it may evict others.
Write(n, p, c) == /\ store[n] # None
                  /\ store' = [store EXCEPT ![n][p] = c]
                  /\ Flush

Restart == store' = durable /\ UNCHANGED durable

Next ==
  \/ \E n \in Names : \/ Create(n) \/ Delete(n)
                      \/ \E p \in Pages, c \in Contents : Write(n, p, c)
  \/ Sync
  \/ Restart

Spec == Init /\ [][Next]_storeVars
=============================================================================
