------------------------- MODULE QueryLanguageProof -------------------------
(***************************************************************************)
(* Proofs about QueryLanguage for every schema, every number of records    *)
(* and every set of statements: type correctness; a call that is refused   *)
(* changes nothing, one that is not has its effect, also when a crash cut  *)
(* it short and it is made again.                                          *)
(***************************************************************************)
EXTENDS QueryLanguage, DataLemmas, TLAPS

\* Update looks at what it assigns before each write and answers alike each time.
UnassignableWritesNothing ==
  phase = "writing" /\ Call.kind = "update" /\ ~Assignable => recs = start

RefusalInv == /\ phase \in {"idle", "writing"}
              /\ UnassignableWritesNothing
              /\ RefusedCallChangesNothing

LEMMA RefusalInvStep == RefusalInv /\ [Next]_vars => RefusalInv'
<1> SUFFICES ASSUME RefusalInv, [Next]_vars PROVE RefusalInv'
  OBVIOUS
<1> USE DEF RefusalInv
<1>1. ASSUME NEW s \in Statements, Visit(s) PROVE RefusalInv'
  BY <1>1 DEF Visit, UnassignableWritesNothing, RefusedCallChangesNothing
<1>2. CASE Insert
  <2>1. CASE Insertable(Call.table, Call.values)
    BY <1>2, <2>1 DEF Insert, Answer, UnassignableWritesNothing, RefusedCallChangesNothing
  <2>2. CASE ~Insertable(Call.table, Call.values)
    BY <1>2, <2>2 DEF Insert, Answer, UnassignableWritesNothing, RefusedCallChangesNothing
  <2> QED BY <2>1, <2>2
<1>3. CASE Find
  <2>1. recs' = start'
    BY <1>3 DEF Find
  <2>2. phase' \in {"idle", "writing"}
    BY <1>3 DEF Find, Answer
  <2> QED BY <2>1, <2>2 DEF UnassignableWritesNothing, RefusedCallChangesNothing
<1>4. CASE DeleteOne
  <2>1. phase' = "writing" /\ Call'.kind = "delete"
    BY <1>4 DEF DeleteOne, Call
  <2> QED BY <2>1 DEF UnassignableWritesNothing, RefusedCallChangesNothing
<1>5. CASE UpdateOne
  <2>1. CASE Assignable
    <3>1. phase' = "writing" /\ Call' = Call
      BY <1>5, <2>1 DEF UpdateOne, Call
    <3>2. Assignable'
      BY <2>1, <3>1 DEF Assignable, Has, TypeIn, Column, ColumnsNamed
    <3> QED BY <3>1, <3>2 DEF UnassignableWritesNothing, RefusedCallChangesNothing
  <2>2. CASE ~Assignable
    <3>1. recs = start
      BY <1>5, <2>2 DEF UpdateOne, UnassignableWritesNothing
    <3>2. phase' = "idle" /\ recs' = start'
      BY <1>5, <2>2, <3>1 DEF UpdateOne, Answer
    <3> QED BY <3>2 DEF UnassignableWritesNothing, RefusedCallChangesNothing
  <2> QED BY <2>1, <2>2
<1>6. CASE Return
  BY <1>6 DEF Return, Answer, UnassignableWritesNothing, RefusedCallChangesNothing
<1>7. CASE Restart
  BY <1>7 DEF Restart, UnassignableWritesNothing, RefusedCallChangesNothing
<1>8. CASE UNCHANGED vars
  BY <1>8 DEF vars, UnassignableWritesNothing, RefusedCallChangesNothing, Assignable, Call,
              Has, TypeIn, Column, ColumnsNamed
<1> QED BY <1>1, <1>2, <1>3, <1>4, <1>5, <1>6, <1>7, <1>8 DEF Next

(* For every schema and every statement: a call that answers -1 has changed *)
(* nothing (ql.cc:308-705).  Insert and the scans of Delete and Update      *)
(* answer before they write; Update is refused at the first record or at    *)
(* none.                                                                    *)
THEOREM RefusalsHarmless == Spec => []RefusedCallChangesNothing
<1>1. Init => RefusalInv
  BY DEF Init, RefusalInv, UnassignableWritesNothing, RefusedCallChangesNothing
<1>2. RefusalInv => RefusedCallChangesNothing
  BY DEF RefusalInv
<1> QED BY <1>1, <1>2, RefusalInvStep, PTL DEF Spec
-----------------------------------------------------------------------------
(* What the code finds of a record is what the conditions mean.             *)

\* The first verdict that is not "holds" decides.
LEMMA VerdictIs ==
  ASSUME NEW j, DOMAIN j \subseteq Nat
  PROVE  IF \A k \in DOMAIN j : j[k] = "holds" THEN Verdict(j) = "holds"
         ELSE \E k \in DOMAIN j : j[k] # "holds" /\ Verdict(j) = j[k]
<1> DEFINE others == {k \in DOMAIN j : j[k] # "holds"}
<1>1. Verdict(j) = IF others = {} THEN "holds" ELSE j[Min(others)]
  BY DEF Verdict
<1>2. others # {} => Min(others) \in others
  <2>1. others \subseteq Nat
    OBVIOUS
  <2> HIDE DEF others
  <2> QED BY <2>1, LeastNat
<1>3. CASE others = {}
  <2>1. \A k \in DOMAIN j : j[k] = "holds"
    BY <1>3
  <2> QED BY <1>1, <1>3, <2>1
<1>4. CASE others # {}
  <2> DEFINE m == Min(others)
  <2>1. m \in DOMAIN j /\ j[m] # "holds"
    BY <1>2, <1>4
  <2>2. Verdict(j) = j[m]
    BY <1>1, <1>4
  <2> HIDE DEF m, others
  <2> QED BY <2>1, <2>2
<1> QED BY <1>3, <1>4

\* A column is the only one of its name.
LEMMA ColumnIs ==
  ASSUME NEW t \in Tables, NEW name, Has(t, name)
  PROVE  /\ Column(t, name) \in DOMAIN Schema[t]
         /\ Schema[t][Column(t, name)].name = name
         /\ \A i \in DOMAIN Schema[t] : Schema[t][i].name = name => i = Column(t, name)
<1> DEFINE C == ColumnsNamed(t, name)
<1>1. Schema[t] \in Seq([name : STRING, type : STRING, notNull : BOOLEAN])
  BY QueryAssumption
<1>2. C \subseteq Nat /\ C # {}
  BY <1>1 DEF Has, ColumnsNamed
<1>3. Min(C) \in C
  <2> HIDE DEF C
  <2> QED BY <1>2, LeastNat
<1>4. Column(t, name) \in DOMAIN Schema[t] /\ Schema[t][Column(t, name)].name = name
  BY <1>3 DEF Column, ColumnsNamed
<1> QED BY <1>4, QueryAssumption

\* What a column of a call's own table means in a record of that table.
LEMMA MeantIs ==
  ASSUME NEW t \in Tables, NEW x, NEW col, col.rel \in {t, None}, Has(t, col.name)
  PROVE  Meant(<<t>>, <<x>>, col) = x[Column(t, col.name)]
<1> DEFINE P(k) == /\ IF col.rel = None THEN Has(<<t>>[k], col.name) ELSE <<t>>[k] = col.rel
                   /\ \A m \in 1 .. (k - 1) :
                        IF col.rel = None THEN ~Has(<<t>>[m], col.name) ELSE <<t>>[m] # col.rel
           i == CHOOSE k \in DOMAIN <<t>> : P(k)
           j == CHOOSE k \in DOMAIN Schema[t] : Schema[t][k].name = col.name
<1>1. DOMAIN <<t>> = {1} /\ <<t>>[1] = t /\ <<x>>[1] = x
  OBVIOUS
<1>2. P(1)
  OBVIOUS
<1> HIDE DEF P
<1>3. i = 1
  BY <1>1, <1>2
<1>4. j = Column(t, col.name)
  BY ColumnIs
<1>5. Meant(<<t>>, <<x>>, col) =
        <<x>>[i][CHOOSE k \in DOMAIN Schema[<<t>>[i]] : Schema[<<t>>[i]][k].name = col.name]
  BY DEF Meant, P
<1> HIDE DEF i
<1> QED BY <1>1, <1>3, <1>4, <1>5

\* Numbers are compared as the operator says.
LEMMA ComparesRight ==
  ASSUME NEW op \in {"EQ", "NE", "LT", "GE", "GT", "LE"}, NEW x \in Nat, NEW y \in Nat
  PROVE  CheckFunction(op, x, y) <=>
           /\ op = "EQ" => x = y
           /\ op = "NE" => x # y
           /\ op = "LT" => x < y
           /\ op = "GE" => ~(x < y)
           /\ op = "GT" => y < x
           /\ op = "LE" => ~(y < x)
BY DEF CheckFunction

\* The value of a column of a record that fits its table.
LEMMA ValueOfColumn ==
  ASSUME NEW t \in Tables, NEW x \in Seq(Value), Fits(t, x), NEW name, Has(t, name)
  PROVE  /\ x[Column(t, name)] \in Value
         /\ x[Column(t, name)].type = TypeIn(t, name)
         /\ x[Column(t, name)].v \in Nat
<1>1. Column(t, name) \in DOMAIN x
  BY ColumnIs DEF Fits
<1>2. x[Column(t, name)] \in Value
  BY <1>1
<1> QED BY <1>1, <1>2 DEF Fits, TypeIn, Value

\* A condition that is not refused is judged as it is meant.
LEMMA JudgedRight ==
  ASSUME NEW call, call.table \in Tables, NEW c \in Conditions(call),
         NEW r, NEW x \in Seq(Value), Fits(call.table, x), recs[call.table][r] = x
  PROVE  \/ JudgedRecord(call.table, r, c) = "refused"
         \/ JudgedRecord(call.table, r, c) = "holds" /\ Satisfies(<<call.table>>, <<x>>, c)
         \/ JudgedRecord(call.table, r, c) = "fails" /\ ~Satisfies(<<call.table>>, <<x>>, c)
<1> DEFINE t == call.table
           j == JudgedRecord(t, r, c)
           a == x[Column(t, c.lhs.name)]
           b == x[Column(t, c.rhs.name)]
<1>1. /\ c.lhs.rel \in {t, None} /\ c.rhs.rel \in {t, None}
      /\ c.op \in {"EQ", "NE", "LT", "GE", "GT", "LE"}
      /\ c.value \in Value \cup {None} /\ c.rhsIsAttr \in BOOLEAN
  BY DEF Conditions
<1>2. SUFFICES ASSUME Has(t, c.lhs.name), c.rhsIsAttr => Has(t, c.rhs.name)
               PROVE  \/ j = "refused"
                      \/ j = "holds" /\ Satisfies(<<t>>, <<x>>, c)
                      \/ j = "fails" /\ ~Satisfies(<<t>>, <<x>>, c)
  BY DEF JudgedRecord
<1>3. /\ a \in Value /\ a.type = TypeIn(t, c.lhs.name) /\ a.v \in Nat
      /\ ValueIn(t, r, c.lhs.name) = a.v
      /\ Meant(<<t>>, <<x>>, c.lhs) = a
  BY <1>1, <1>2, ValueOfColumn, MeantIs DEF ValueIn
<1>4. c.rhsIsAttr =>
        /\ b \in Value /\ b.type = TypeIn(t, c.rhs.name) /\ b.v \in Nat
        /\ ValueIn(t, r, c.rhs.name) = b.v
        /\ Meant(<<t>>, <<x>>, c.rhs) = b
  BY <1>1, <1>2, ValueOfColumn, MeantIs DEF ValueIn
<1> DEFINE y == IF c.rhsIsAttr THEN b
                ELSE IF c.value = None THEN [type |-> "STRING", v |-> 0] ELSE c.value
<1>5. y.v \in Nat
  BY <1>1, <1>4 DEF Value
<1>6. Satisfies(<<t>>, <<x>>, c) <=>
        /\ a.type = y.type
        /\ c.rhsIsAttr \/ c.value # None \/ c.op \in {"EQ", "NE"}
        /\ CheckFunction(c.op, a.v, y.v)
  <2>1. CheckFunction(c.op, a.v, y.v) <=>
          /\ c.op = "EQ" => a.v = y.v
          /\ c.op = "NE" => a.v # y.v
          /\ c.op = "LT" => a.v < y.v
          /\ c.op = "GE" => ~(a.v < y.v)
          /\ c.op = "GT" => y.v < a.v
          /\ c.op = "LE" => ~(y.v < a.v)
    <3> HIDE DEF a, y
    <3>1. a.v \in Nat
      BY <1>3
    <3> QED BY ONLY <1>1, <3>1, <1>5, ComparesRight
  <2>2. y = IF c.rhsIsAttr THEN Meant(<<t>>, <<x>>, c.rhs)
            ELSE IF c.value = None THEN [type |-> "STRING", v |-> 0] ELSE c.value
    BY <1>4
  <2> HIDE DEF a, y
  <2> QED BY <1>3, <2>1, <2>2 DEF Satisfies
<1>7. j = IF c.rhsIsAttr \/ c.value # None THEN Compared(c.op, a.v, a.type, y.v, y.type)
          ELSE ComparedToNull(c.op, a.v, a.type)
  BY <1>2, <1>3, <1>4 DEF JudgedRecord
<1>8. c.rhsIsAttr \/ c.value # None \/ (y.v = 0 /\ y.type = "STRING")
  OBVIOUS
<1> HIDE DEF a, y, j
<1>9. CASE c.rhsIsAttr \/ c.value # None
  BY <1>6, <1>7, <1>9 DEF Compared
<1>10. CASE ~(c.rhsIsAttr \/ c.value # None)
  <2>1. CheckFunction(c.op, a.v, 0) /\ c.op \in {"EQ", "NE"} <=>
          (c.op = "EQ" /\ a.v = 0) \/ (c.op = "NE" /\ a.v > 0)
    BY <1>3 DEF CheckFunction
  <2> QED BY <1>6, <1>7, <1>8, <1>10, <2>1 DEF ComparedToNull
<1> QED BY <1>9, <1>10
-----------------------------------------------------------------------------
(* Type correctness and the effect of a call.                               *)

\* Between the writes of a call: the records it is about and has no longer to
\* write have become what it makes of them, and all else is as it was at its
\* start.  An update that cannot assign has written nothing.
WritingInv ==
  phase = "writing" =>
    /\ \A r \in todo : Hit(Call, start[Call.table][r])
    /\ \A t \in Tables : t # Call.table => recs[t] = start[t]
    /\ \A r \in Rids : recs[Call.table][r] =
                         IF Hit(Call, start[Call.table][r]) /\ r \notin todo
                         THEN Made(Call, start[Call.table][r]) ELSE start[Call.table][r]
    /\ Call.kind = "update" /\ ~Assignable =>
         \A r \in Rids : Hit(Call, start[Call.table][r]) => r \in todo

CallInv == TypeOK /\ WritingInv

\* The call under way is one of a statement.
LEMMA CallIs ==
  ASSUME TypeOK, calls # << >>
  PROVE  /\ Call \in AllCalls /\ Call.table \in Tables
         /\ Tail(calls) \in Seq(AllCalls)
         /\ Call.kind = "insert" => Call.values \in Seq(Value \cup {None})
         /\ Call.kind \in {"delete", "update"} => Call.conds \in Seq(Conditions(Call))
         /\ Call.kind = "update" => Call.set.value \in Value
<1>1. calls \in Seq(AllCalls)
  BY DEF TypeOK
<1>2. Call \in AllCalls /\ Tail(calls) \in Seq(AllCalls)
  BY <1>1 DEF Call
<1> QED BY <1>2, StatementAssumption

\* A record is None or has a value for every column of its table.
LEMMA RecordIs ==
  ASSUME NEW R \in Contents, NEW t \in Tables, NEW r \in Rids, R[t][r] # None
  PROVE  R[t][r] \in Seq(Value) /\ Fits(t, R[t][r])
BY DEF Contents

\* Where a scan is not refused it finds the records the conditions are about.
LEMMA FoundRight ==
  ASSUME TypeOK, NEW call, call.table \in Tables, call.conds \in Seq(Conditions(call)),
         ~ScanRefused(call.table, call.conds), NEW r \in Rids
  PROVE  r \in Selected(call.table, call.conds) <=> Hit(call, recs[call.table][r])
<1> DEFINE t == call.table
           x == recs[t][r]
           j == [k \in DOMAIN call.conds |-> JudgedRecord(t, r, call.conds[k])]
<1>1. r \in RidsOf(t) <=> x # None
  BY DEF RidsOf
<1>2. CASE x = None
  BY <1>1, <1>2 DEF Selected, Hit
<1>3. CASE x # None
  <2>1. x \in Seq(Value) /\ Fits(t, x)
    BY <1>3, RecordIs DEF TypeOK
  <2>2. \A k \in DOMAIN call.conds : call.conds[k] \in Conditions(call)
    OBVIOUS
  <2>3. \A k \in DOMAIN j : \/ j[k] = "refused"
                            \/ j[k] = "holds" /\ Satisfies(<<t>>, <<x>>, call.conds[k])
                            \/ j[k] = "fails" /\ ~Satisfies(<<t>>, <<x>>, call.conds[k])
    BY <2>1, <2>2, JudgedRight
  <2>4. DOMAIN j \subseteq Nat
    OBVIOUS
  <2>5. Verdict(j) # "refused"
    BY <1>1, <1>3 DEF ScanRefused, VerdictOn
  <2>6. r \in Selected(t, call.conds) <=> Verdict(j) = "holds"
    BY <1>1, <1>3 DEF Selected, VerdictOn
  <2>7. Hit(call, x) <=> \A k \in DOMAIN j : Satisfies(<<t>>, <<x>>, call.conds[k])
    BY <1>3 DEF Hit
  <2> HIDE DEF j, x, t
  <2>8. CASE \A k \in DOMAIN j : j[k] = "holds"
    <3>1. Verdict(j) = "holds"
      BY <2>4, <2>8, VerdictIs
    <3>2. \A k \in DOMAIN j : Satisfies(<<t>>, <<x>>, call.conds[k])
      BY <2>3, <2>8
    <3> QED BY <3>1, <3>2, <2>6, <2>7 DEF t, x
  <2>9. CASE ~ \A k \in DOMAIN j : j[k] = "holds"
    <3>1. PICK k \in DOMAIN j : j[k] # "holds" /\ Verdict(j) = j[k]
      BY <2>4, <2>9, VerdictIs
    <3>2. ~Satisfies(<<t>>, <<x>>, call.conds[k])
      BY <3>1, <2>3, <2>5
    <3> QED BY <3>1, <3>2, <2>6, <2>7 DEF t, x
  <2> QED BY <2>8, <2>9
<1> QED BY <1>2, <1>3

LEMMA FindKeeps == ASSUME CallInv, Find PROVE CallInv'
<1>1. TypeOK /\ calls # << >> /\ Call.kind \in {"delete", "update"} /\ recs' = recs /\ start' = recs
  BY DEF CallInv, Find
<1>2. /\ Call.table \in Tables /\ Call.conds \in Seq(Conditions(Call))
      /\ Tail(calls) \in Seq(AllCalls)
  BY <1>1, CallIs
<1>3. CASE ScanRefused(Call.table, Call.conds)
  <2>1. calls' = Tail(calls) /\ todo' = {} /\ phase' = "idle" /\ rc' = -1
    BY <1>3 DEF Find, Answer
  <2>2. TypeOK'
    BY <1>1, <1>2, <2>1 DEF TypeOK
  <2> QED BY <2>1, <2>2 DEF CallInv, WritingInv
<1>4. CASE ~ScanRefused(Call.table, Call.conds)
  <2>1. todo' = Selected(Call.table, Call.conds) /\ phase' = "writing" /\ UNCHANGED <<calls, rc>>
    BY <1>4 DEF Find
  <2>2. Call' = Call
    BY <2>1 DEF Call
  <2>3. todo' \subseteq RidsOf(Call.table) /\ RidsOf(Call.table) \subseteq Rids
    BY <2>1 DEF Selected, RidsOf
  <2>4. RidsOf(Call.table)' = RidsOf(Call.table)
    BY <1>1, <2>2 DEF RidsOf
  <2>5. TypeOK'
    BY <1>1, <2>1, <2>2, <2>3, <2>4 DEF TypeOK
  <2>6. \A r \in Rids : r \in todo' <=> Hit(Call, recs[Call.table][r])
    BY <1>1, <1>2, <1>4, <2>1, FoundRight
  <2>7. WritingInv'
    BY <1>1, <2>2, <2>3, <2>6 DEF WritingInv
  <2> QED BY <2>5, <2>7 DEF CallInv
<1> QED BY <1>3, <1>4

\* A call that writes the next of its records.
LEMMA WriteOneKeeps ==
  ASSUME CallInv, phase = "writing", todo # {}, NEW m, m = Min(todo), NEW z,
         z = Made(Call, recs[Call.table][m]),
         z = None \/ (z \in Seq(Value) /\ Fits(Call.table, z)),
         Call.kind = "update" => Assignable,
         recs' = [recs EXCEPT ![Call.table] = [@ EXCEPT ![m] = z]],
         todo' = todo \ {m}, UNCHANGED <<calls, phase, rc, start>>
  PROVE  CallInv'
<1> DEFINE t == Call.table
<1>1. /\ TypeOK /\ calls # << >> /\ t \in Tables /\ Call' = Call
      /\ todo \subseteq RidsOf(t) /\ RidsOf(t) \subseteq Rids
  BY CallIs DEF CallInv, TypeOK, RidsOf, Call
<1>2. m \in todo /\ m \in Rids
  <2>1. todo \subseteq Nat
    BY <1>1, QueryAssumption DEF Rids
  <2> QED BY <1>1, <2>1, LeastNat
<1>3. recs \in [Tables -> [Rids -> Seq(Value) \cup {None}]]
  BY <1>1 DEF TypeOK, Contents
<1>4. /\ recs' \in [Tables -> [Rids -> Seq(Value) \cup {None}]]
      /\ recs'[t][m] = z
      /\ \A r \in Rids : r # m => recs'[t][r] = recs[t][r]
      /\ \A u \in Tables : u # t => recs'[u] = recs[u]
  <2> DEFINE T == [recs[t] EXCEPT ![m] = z]
  <2>1. T \in [Rids -> Seq(Value) \cup {None}] /\ T[m] = z /\ \A r \in Rids : r # m => T[r] = recs[t][r]
    BY <1>1, <1>2, <1>3
  <2>2. recs' = [recs EXCEPT ![t] = T]
    OBVIOUS
  <2> DEFINE D == [Rids -> Seq(Value) \cup {None}]
  <2>3. T \in D /\ recs \in [Tables -> D] /\ t \in Tables
    BY <1>1, <1>3, <2>1
  <2> HIDE DEF T, D, t
  <2>4. recs' \in [Tables -> D] /\ recs'[t] = T /\ \A u \in Tables : u # t => recs'[u] = recs[u]
    BY ONLY <2>2, <2>3
  <2> QED BY <2>1, <2>4 DEF D
<1>5. recs' \in Contents
  <2>1. ASSUME NEW u \in Tables, NEW r \in Rids PROVE recs'[u][r] = None \/ Fits(u, recs'[u][r])
    <3>1. recs[u][r] = None \/ Fits(u, recs[u][r])
      BY <1>1 DEF TypeOK, Contents
    <3>2. CASE u = t /\ r = m
      BY <1>4, <3>2
    <3>3. CASE ~(u = t /\ r = m)
      <4>1. recs'[u][r] = recs[u][r]
        BY <1>4, <3>3
      <4> QED BY <3>1, <4>1
    <3> QED BY <3>2, <3>3
  <2> QED BY <1>4, <2>1 DEF Contents
<1>6. todo' \subseteq RidsOf(t)'
  BY <1>1, <1>4 DEF RidsOf
<1>7. TypeOK'
  BY <1>1, <1>5, <1>6 DEF TypeOK
<1>8. WritingInv'
  <2>1. /\ \A r \in todo : Hit(Call, start[t][r])
        /\ \A u \in Tables : u # t => recs[u] = start[u]
        /\ \A r \in Rids : recs[t][r] = IF Hit(Call, start[t][r]) /\ r \notin todo
                                        THEN Made(Call, start[t][r]) ELSE start[t][r]
    BY DEF CallInv, WritingInv
  <2>2. Hit(Call, start[t][m]) /\ recs[t][m] = start[t][m]
    BY <1>2, <2>1
  <2>3. \A r \in Rids : recs'[t][r] = IF Hit(Call, start[t][r]) /\ r \notin todo'
                                      THEN Made(Call, start[t][r]) ELSE start[t][r]
    BY <1>2, <1>4, <2>1, <2>2
  <2>4. Call.kind = "update" => Assignable'
    BY <1>1 DEF Assignable, Has, TypeIn, Column, ColumnsNamed
  <2> QED BY <1>1, <1>4, <2>1, <2>3, <2>4 DEF WritingInv
<1> QED BY <1>7, <1>8 DEF CallInv
LEMMA DeleteOneKeeps == ASSUME CallInv, DeleteOne PROVE CallInv'
<1>1. Made(Call, recs[Call.table][Min(todo)]) = None /\ Call.kind # "update"
  BY DEF DeleteOne, Made
<1>2. recs' = [recs EXCEPT ![Call.table] = [@ EXCEPT ![Min(todo)] = None]]
  BY DEF DeleteOne
<1>3. /\ phase = "writing" /\ todo # {} /\ todo' = todo \ {Min(todo)}
      /\ UNCHANGED <<calls, phase, rc, start>>
  BY DEF DeleteOne
<1> QED BY <1>1, <1>2, <1>3, WriteOneKeeps

\* What an assignment makes of a record that fits its table fits it too, and is
\* the record but for the column assigned.
LEMMA MadeIs ==
  ASSUME NEW call, call.table \in Tables, call.kind = "update", call.set.value \in Value,
         Has(call.table, call.set.name),
         call.set.value.type = TypeIn(call.table, call.set.name),
         NEW x \in Seq(Value), Fits(call.table, x)
  PROVE  /\ Made(call, x) = [x EXCEPT ![Column(call.table, call.set.name)] = call.set.value]
         /\ Made(call, x) \in Seq(Value)
         /\ Fits(call.table, Made(call, x))
<1> DEFINE t == call.table
           c == Column(t, call.set.name)
           y == call.set.value
           z == Made(call, x)
<1>1. /\ c \in DOMAIN Schema[t] /\ DOMAIN x = DOMAIN Schema[t]
      /\ \A i \in DOMAIN Schema[t] : Schema[t][i].name = call.set.name <=> i = c
  BY ColumnIs DEF Fits
<1>2. z = [i \in DOMAIN x |-> IF Schema[t][i].name = call.set.name THEN y ELSE x[i]]
  BY DEF Made
<1>3. x = [i \in DOMAIN x |-> x[i]]
  OBVIOUS
<1>4. z = [i \in DOMAIN x |-> IF i = c THEN y ELSE x[i]]
  BY <1>1, <1>2
<1>5. z = [x EXCEPT ![c] = y]
  BY <1>1, <1>3, <1>4
<1>6. z \in Seq(Value)
  BY <1>1, <1>5
<1>7. Fits(t, z)
  <2> SUFFICES ASSUME NEW i \in DOMAIN x PROVE z[i].type = Schema[t][i].type
    BY <1>4 DEF Fits
  <2>1. CASE i = c
    BY <1>4, <2>1 DEF TypeIn
  <2>2. CASE i # c
    BY <1>4, <2>2 DEF Fits
  <2> QED BY <2>1, <2>2
<1> QED BY <1>5, <1>6, <1>7

LEMMA UpdateOneKeeps == ASSUME CallInv, UpdateOne PROVE CallInv'
<1> DEFINE t == Call.table
           m == Min(todo)
           x == recs[t][m]
<1>1. /\ phase = "writing" /\ todo # {} /\ Call.kind = "update" /\ UNCHANGED start
      /\ TypeOK /\ calls # << >>
  BY DEF UpdateOne, CallInv, TypeOK
<1>2. t \in Tables /\ Call.set.value \in Value /\ Tail(calls) \in Seq(AllCalls)
  BY <1>1, CallIs
<1>3. CASE Assignable
  <2>1. m \in todo /\ todo \subseteq RidsOf(t) /\ m \in Rids /\ x # None
    <3>1. todo \subseteq RidsOf(t) /\ todo \subseteq Nat
      BY <1>1, QueryAssumption DEF TypeOK, RidsOf, Rids
    <3>2. m \in todo
      BY <1>1, <3>1, LeastNat
    <3> QED BY <3>1, <3>2 DEF RidsOf
  <2>2. x \in Seq(Value) /\ Fits(t, x)
    BY <1>1, <1>2, <2>1, RecordIs DEF TypeOK
  <2> DEFINE z == Made(Call, x)
  <2>3. /\ z = [x EXCEPT ![Column(t, Call.set.name)] = Call.set.value]
        /\ z \in Seq(Value) /\ Fits(t, z)
    BY <1>1, <1>2, <1>3, <2>2, MadeIs DEF Assignable
  <2>4. recs' = [recs EXCEPT ![t] = [@ EXCEPT ![m] = z]]
    BY <1>3, <2>3 DEF UpdateOne
  <2>5. todo' = todo \ {m} /\ UNCHANGED <<calls, phase, rc, start>>
    BY <1>1, <1>3 DEF UpdateOne
  <2> HIDE DEF z
  <2> QED BY <1>1, <1>3, <2>3, <2>4, <2>5, WriteOneKeeps DEF z
<1>4. CASE ~Assignable
  <2>1. UNCHANGED recs /\ calls' = Tail(calls) /\ todo' = {} /\ phase' = "idle" /\ rc' = -1
    BY <1>4 DEF UpdateOne, Answer
  <2>2. TypeOK'
    BY <1>1, <1>2, <2>1 DEF TypeOK
  <2> QED BY <2>1, <2>2 DEF CallInv, WritingInv
<1> QED BY <1>3, <1>4

LEMMA InsertKeeps == ASSUME CallInv, Insert PROVE CallInv'
<1> DEFINE t == Call.table
<1>1. /\ phase = "idle" /\ calls # << >> /\ Call.kind = "insert" /\ start' = recs
      /\ TypeOK
  BY DEF Insert, CallInv
<1>2. t \in Tables /\ Call.values \in Seq(Value \cup {None}) /\ Tail(calls) \in Seq(AllCalls)
  BY <1>1, CallIs
<1>3. calls' = Tail(calls) /\ todo' = {} /\ phase' = "idle" /\ rc' \in {0, -1}
  BY DEF Insert, Answer
<1>4. recs' \in Contents
  <2>1. CASE Insertable(t, Call.values)
    <3> DEFINE m == Min(Rids \ RidsOf(t))
               v == Call.values
    <3>0. PICK read \in [DOMAIN v -> Misread] :
            RidsOf(t) # Rids /\ recs' = [recs EXCEPT ![t][m] = RecordOf(t, v, read)]
      BY <1>1, <2>1 DEF Insert
    <3> DEFINE z == RecordOf(t, v, read)
    <3>1. RidsOf(t) # Rids /\ recs' = [recs EXCEPT ![t][m] = z]
      BY <3>0
    <3>2. m \in Rids
      <4>1. Rids \ RidsOf(t) \subseteq Nat /\ Rids \ RidsOf(t) # {}
        BY <3>1, QueryAssumption DEF RidsOf, Rids
      <4> QED BY <4>1, LeastNat
    <3>3. z \in Seq(Value) /\ Fits(t, z)
      <4>1. /\ v \in Seq(Value \cup {None}) /\ Len(v) = Len(Schema[t])
            /\ Schema[t] \in Seq([name : STRING, type : STRING, notNull : BOOLEAN])
        BY <1>2, <2>1, QueryAssumption DEF Insertable
      <4>2. DOMAIN v = 1 .. Len(v) /\ DOMAIN Schema[t] = 1 .. Len(v) /\ Len(v) \in Nat
        BY <4>1
      <4>3. ASSUME NEW i \in 1 .. Len(v)
            PROVE  [type |-> Schema[t][i].type,
                    v    |-> IF v[i] = None THEN 0
                             ELSE IF v[i].type = Schema[t][i].type THEN v[i].v ELSE read[i]] \in Value
        <5>1. v[i] \in Value \cup {None} /\ Schema[t][i].type \in STRING
          <6> DEFINE V == Value \cup {None}
                     C == [name : STRING, type : STRING, notNull : BOOLEAN]
                     k == Schema[t]
          <6>1. v \in Seq(V) /\ k \in Seq(C) /\ i \in DOMAIN v /\ i \in DOMAIN k
            BY <4>1, <4>2
          <6> HIDE DEF V, C, k, v
          <6>2. v[i] \in V /\ k[i] \in C
            BY ONLY <6>1
          <6> QED BY <6>2 DEF V, C, k
        <5>2. read[i] \in Nat
          BY <4>2, QueryAssumption
        <5> QED BY <5>1, <5>2 DEF Value
      <4>4. z = [i \in 1 .. Len(v) |->
                   [type |-> Schema[t][i].type,
                    v    |-> IF v[i] = None THEN 0
                             ELSE IF v[i].type = Schema[t][i].type THEN v[i].v ELSE read[i]]]
        BY <4>2 DEF RecordOf
      <4>5. z \in Seq(Value)
        BY <4>2, <4>3, <4>4
      <4>6. Fits(t, z)
        <5>1. DOMAIN z = DOMAIN Schema[t]
          BY <4>2, <4>4
        <5>2. ASSUME NEW i \in DOMAIN z PROVE z[i].type = Schema[t][i].type
          <6>1. i \in 1 .. Len(v)
            BY <4>4
          <6> QED BY <4>4, <6>1
        <5> QED BY <5>1, <5>2 DEF Fits
      <4> QED BY <4>5, <4>6
    <3> HIDE DEF m, z, t
    <3>4. recs \in [Tables -> [Rids -> Seq(Value) \cup {None}]]
      BY <1>1 DEF TypeOK, Contents
    <3>5. recs' \in [Tables -> [Rids -> Seq(Value) \cup {None}]]
      BY <1>2, <3>1, <3>2, <3>3, <3>4
    <3>6. ASSUME NEW u \in Tables, NEW r \in Rids PROVE recs'[u][r] = None \/ Fits(u, recs'[u][r])
      <4>1. recs[u][r] = None \/ Fits(u, recs[u][r])
        BY <1>1 DEF TypeOK, Contents
      <4>2. recs'[u][r] = IF u = t /\ r = m THEN z ELSE recs[u][r]
        BY <1>2, <3>1, <3>2, <3>4
      <4> QED BY <3>3, <4>1, <4>2
    <3> QED BY <3>5, <3>6 DEF Contents
  <2>2. CASE ~Insertable(t, Call.values)
    BY <1>1, <2>2 DEF Insert, TypeOK
  <2> QED BY <2>1, <2>2
<1>5. TypeOK'
  BY <1>1, <1>2, <1>3, <1>4 DEF TypeOK
<1> QED BY <1>3, <1>5 DEF CallInv, WritingInv

LEMMA CallInvInit == Init => CallInv
<1> SUFFICES ASSUME Init PROVE CallInv
  OBVIOUS
<1>1. recs \in Contents /\ start = recs
  BY DEF Init, Contents
<1> QED BY <1>1 DEF Init, CallInv, TypeOK, WritingInv

LEMMA CallInvStep == CallInv /\ [Next]_vars => CallInv'
<1> SUFFICES ASSUME CallInv, [Next]_vars PROVE CallInv'
  OBVIOUS
<1>1. TypeOK
  BY DEF CallInv
<1>2. ASSUME NEW s \in Statements, Visit(s) PROVE CallInv'
  <2>1. s \in Seq(AllCalls)
    BY StatementAssumption
  <2> QED BY <1>1, <1>2, <2>1 DEF Visit, CallInv, TypeOK, WritingInv
<1>3. CASE Insert
  BY <1>3, InsertKeeps
<1>4. CASE Find
  BY <1>4, FindKeeps
<1>5. CASE DeleteOne
  BY <1>5, DeleteOneKeeps
<1>6. CASE UpdateOne
  BY <1>6, UpdateOneKeeps
<1>7. CASE Return
  <2>1. calls # << >>
    BY <1>1, <1>7 DEF Return, TypeOK
  <2>2. Tail(calls) \in Seq(AllCalls)
    BY <1>1, <2>1, CallIs
  <2> QED BY <1>1, <1>7, <2>2 DEF Return, Answer, CallInv, TypeOK, WritingInv
<1>8. CASE Restart
  BY <1>1, <1>8 DEF Restart, CallInv, TypeOK, WritingInv
<1>9. CASE UNCHANGED vars
  <2>1. Call' = Call /\ (Assignable' <=> Assignable) /\ \A t : RidsOf(t)' = RidsOf(t)
    BY <1>9 DEF vars, Call, Assignable, Has, TypeIn, Column, ColumnsNamed, RidsOf
  <2>2. UNCHANGED <<recs, calls, todo, phase, rc, start>>
    BY <1>9 DEF vars
  <2>3. TypeOK'
    BY <1>1, <2>1, <2>2 DEF TypeOK
  <2>4. WritingInv'
    BY <2>1, <2>2 DEF CallInv, WritingInv
  <2> QED BY <2>3, <2>4 DEF CallInv
<1> QED BY <1>2, <1>3, <1>4, <1>5, <1>6, <1>7, <1>8, <1>9 DEF Next

LEMMA AlwaysCallInv == Spec => []CallInv
BY CallInvInit, CallInvStep, PTL DEF Spec

\* Whatever is inserted and however it is read (ql.cc:327 announces a look at the
\* types that Insert does not take), every record has one value of the column's type
\* for each column, and a call under way is about records that are there.
THEOREM TypeCorrect == Spec => []TypeOK
<1>1. CallInv => TypeOK
  BY DEF CallInv
<1> QED BY <1>1, AlwaysCallInv, PTL

-----------------------------------------------------------------------------
\* The contents a call leaves, record by record.
LEMMA EffectAt ==
  ASSUME NEW call, call.table \in Tables, NEW R \in Contents
  PROVE  /\ Effect(call, R) = [u \in Tables |-> Effect(call, R)[u]]
         /\ \A u \in Tables : u # call.table => Effect(call, R)[u] = R[u]
         /\ Effect(call, R)[call.table] = [r \in Rids |-> Effect(call, R)[call.table][r]]
         /\ \A r \in Rids : Effect(call, R)[call.table][r] =
                              IF Hit(call, R[call.table][r]) THEN Made(call, R[call.table][r])
                              ELSE R[call.table][r]
BY DEF Effect, Contents

(* Delete (ql.cc:383-538) and Update (540-705): a call that is about to     *)
(* answer 0 has made of the records at its start what it says.              *)
THEOREM CallsTakeEffect == Spec => []CallHasItsEffect
<1>1. CallInv => CallHasItsEffect
  <2> SUFFICES ASSUME CallInv, phase = "writing", todo = {} PROVE recs = Effect(Call, start)
    BY DEF CallHasItsEffect
  <2> DEFINE E == Effect(Call, start)
             t == Call.table
  <2>1. t \in Tables /\ recs \in Contents /\ start \in Contents
    BY CallIs DEF CallInv, TypeOK
  <2>2. /\ E = [u \in Tables |-> E[u]] /\ E[t] = [r \in Rids |-> E[t][r]]
        /\ \A u \in Tables : u # t => E[u] = start[u]
        /\ \A r \in Rids : E[t][r] = IF Hit(Call, start[t][r]) THEN Made(Call, start[t][r])
                                     ELSE start[t][r]
    BY <2>1, EffectAt
  <2>3. recs = [u \in Tables |-> recs[u]] /\ recs[t] = [r \in Rids |-> recs[t][r]]
    BY <2>1 DEF Contents
  <2>4. /\ \A u \in Tables : u # t => recs[u] = start[u]
        /\ \A r \in Rids : recs[t][r] = IF Hit(Call, start[t][r]) THEN Made(Call, start[t][r])
                                        ELSE start[t][r]
    BY DEF CallInv, WritingInv
  <2> HIDE DEF E, t
  <2>5. recs[t] = E[t]
    BY <2>2, <2>3, <2>4
  <2>6. \A u \in Tables : recs[u] = E[u]
    BY <2>2, <2>4, <2>5
  <2> QED BY <2>2, <2>3, <2>6 DEF E
<1> QED BY <1>1, AlwaysCallInv, PTL

\* A record a call has been made of is made of it again.
LEMMA MadeTwice ==
  ASSUME NEW call, NEW x
  PROVE  Hit(call, Made(call, x)) => Made(call, Made(call, x)) = Made(call, x)
<1>1. CASE call.kind = "delete"
  BY <1>1 DEF Made
<1>2. CASE call.kind # "delete"
  <2> DEFINE f(y) == [i \in DOMAIN y |-> IF Schema[call.table][i].name = call.set.name
                                         THEN call.set.value ELSE y[i]]
  <2>1. \A y : Made(call, y) = f(y)
    BY <1>2 DEF Made
  <2>2. f(f(x)) = f(x)
    OBVIOUS
  <2> HIDE DEF f
  <2> QED BY <2>1, <2>2
<1> QED BY <1>1, <1>2

(* A call that a crash cut short leads, made again from any state between   *)
(* its writes, to what it would have led to.                                *)
THEOREM CallsCanBeRepeated == Spec => []RepeatedCallCompletes
<1>1. CallInv => RepeatedCallCompletes
  <2> SUFFICES ASSUME CallInv, phase = "writing" PROVE Effect(Call, recs) = Effect(Call, start)
    BY DEF RepeatedCallCompletes
  <2> DEFINE t == Call.table
             E == Effect(Call, recs)
             F == Effect(Call, start)
  <2>1. t \in Tables /\ recs \in Contents /\ start \in Contents
    BY CallIs DEF CallInv, TypeOK
  <2>2. /\ E = [u \in Tables |-> E[u]] /\ E[t] = [r \in Rids |-> E[t][r]]
        /\ \A u \in Tables : u # t => E[u] = recs[u]
        /\ \A r \in Rids : E[t][r] = IF Hit(Call, recs[t][r]) THEN Made(Call, recs[t][r])
                                     ELSE recs[t][r]
    BY <2>1, EffectAt
  <2>3. /\ F = [u \in Tables |-> F[u]] /\ F[t] = [r \in Rids |-> F[t][r]]
        /\ \A u \in Tables : u # t => F[u] = start[u]
        /\ \A r \in Rids : F[t][r] = IF Hit(Call, start[t][r]) THEN Made(Call, start[t][r])
                                     ELSE start[t][r]
    BY <2>1, EffectAt
  <2>4. \A u \in Tables : u # t => recs[u] = start[u]
    BY DEF CallInv, WritingInv
  <2>5. ASSUME NEW r \in Rids PROVE E[t][r] = F[t][r]
    <3>1. \/ recs[t][r] = start[t][r]
          \/ Hit(Call, start[t][r]) /\ recs[t][r] = Made(Call, start[t][r])
      BY DEF CallInv, WritingInv
    <3> HIDE DEF E, F, t
    <3> QED BY <2>2, <2>3, <3>1, MadeTwice
  <2> HIDE DEF E, F, t
  <2>6. E[t] = F[t]
    BY <2>2, <2>3, <2>5
  <2>7. \A u \in Tables : E[u] = F[u]
    BY <2>2, <2>3, <2>4, <2>6
  <2> QED BY <2>2, <2>3, <2>7 DEF E, F
<1> QED BY <1>1, AlwaysCallInv, PTL

-----------------------------------------------------------------------------
(* What SELECT prints.                                                      *)

\* The numbers up to a * b go through the pairs, the second of which runs faster.
Slow(k, b) == ((k - 1) \div b) + 1
Fast(k, b) == ((k - 1) % b) + 1

LEMMA PairsNumbered ==
  ASSUME NEW a \in Nat, NEW b \in Nat
  PROVE  /\ a * b \in Nat
         /\ \A k \in 1 .. (a * b) : Slow(k, b) \in 1 .. a /\ Fast(k, b) \in 1 .. b
         /\ \A k, m \in 1 .. (a * b) : k < m =>
              Slow(k, b) < Slow(m, b) \/ (Slow(k, b) = Slow(m, b) /\ Fast(k, b) < Fast(m, b))
         /\ \A i \in 1 .. a, j \in 1 .. b :
              \E k \in 1 .. (a * b) : Slow(k, b) = i /\ Fast(k, b) = j
<1>1. a * b \in Nat /\ (b = 0 => a * b = 0)
  OBVIOUS
<1>2. CASE b = 0
  BY <1>1, <1>2
<1>3. CASE b # 0
  <2>1. ASSUME NEW k \in 1 .. (a * b)
        PROVE  /\ Slow(k, b) - 1 \in Nat /\ Fast(k, b) - 1 \in 0 .. (b - 1)
               /\ k - 1 = b * (Slow(k, b) - 1) + (Fast(k, b) - 1)
    <3> DEFINE x == k - 1
    <3>1. x \in Nat
      BY <1>1
    <3> HIDE DEF x
    <3>2. x \div b \in Nat /\ x % b \in 0 .. (b - 1) /\ x = b * (x \div b) + (x % b)
      BY ONLY <3>1, <1>3, b \in Nat, QuotientIs
    <3>3. Slow(k, b) = (x \div b) + 1 /\ Fast(k, b) = (x % b) + 1
      BY DEF Slow, Fast, x
    <3>4. Slow(k, b) - 1 = x \div b /\ Fast(k, b) - 1 = x % b
      BY <3>2, <3>3
    <3> QED BY <3>2, <3>4 DEF x
  <2>2. ASSUME NEW k \in 1 .. (a * b) PROVE Slow(k, b) \in 1 .. a /\ Fast(k, b) \in 1 .. b
    <3> DEFINE p == Slow(k, b) - 1
               r == Fast(k, b) - 1
    <3>1. p \in Nat /\ r \in 0 .. (b - 1) /\ k - 1 = b * p + r
      BY <2>1
    <3>2. b * p + r < b * a + 0
      <4>1. b * a = a * b /\ k - 1 < a * b
        BY <1>1
      <4> QED BY <3>1, <4>1, <1>1
    <3> HIDE DEF p, r
    <3>3. p < a
      <4>1. 0 \in 0 .. (b - 1)
        BY <1>3
      <4>2. p < a \/ (p = a /\ r < 0)
        BY ONLY <1>3, <3>1, <3>2, <4>1, a \in Nat, b \in Nat, QuotientOnly
      <4> QED BY <3>1, <4>2
    <3>4. Slow(k, b) = p + 1 /\ Fast(k, b) = r + 1
      <4>1. Slow(k, b) \in Int /\ Fast(k, b) \in Int
        BY <1>3 DEF Slow, Fast
      <4> QED BY <4>1 DEF p, r
    <3> QED BY <3>1, <3>3, <3>4
  <2>3. ASSUME NEW k \in 1 .. (a * b), NEW m \in 1 .. (a * b), k < m
        PROVE  Slow(k, b) < Slow(m, b) \/ (Slow(k, b) = Slow(m, b) /\ Fast(k, b) < Fast(m, b))
    <3> DEFINE p == Slow(k, b) - 1
               r == Fast(k, b) - 1
               q == Slow(m, b) - 1
               s == Fast(m, b) - 1
    <3>1. /\ p \in Nat /\ r \in 0 .. (b - 1) /\ k - 1 = b * p + r
          /\ q \in Nat /\ s \in 0 .. (b - 1) /\ m - 1 = b * q + s
      BY <2>1
    <3>2. b * p + r < b * q + s
      <4>1. k - 1 < m - 1
        BY <2>3, <1>1
      <4> HIDE DEF p, r, q, s
      <4> QED BY <4>1, <3>1
    <3>3. p < q \/ (p = q /\ r < s)
      <4> HIDE DEF p, r, q, s
      <4> QED BY ONLY <1>3, <3>1, <3>2, b \in Nat, QuotientOnly
    <3>4. Slow(k, b) \in Int /\ Slow(m, b) \in Int /\ Fast(k, b) \in Int /\ Fast(m, b) \in Int
      BY <2>2
    <3> QED BY <3>3, <3>4
  <2>4. ASSUME NEW i \in 1 .. a, NEW j \in 1 .. b
        PROVE  \E k \in 1 .. (a * b) : Slow(k, b) = i /\ Fast(k, b) = j
    <3> DEFINE p == i - 1
               r == j - 1
               k == (b * p + r) + 1
    <3>1. p \in Nat /\ r \in 0 .. (b - 1) /\ p < a /\ 0 \in 0 .. (b - 1)
      BY <1>3
    <3>2. b * p + r < b * a + 0
      <4> HIDE DEF p, r
      <4> QED BY ONLY <1>3, <3>1, a \in Nat, b \in Nat, QuotientOnly
    <3>3. b * p \in Nat
      <4> HIDE DEF p
      <4> QED BY <3>1
    <3>4. k \in 1 .. (a * b) /\ k - 1 = b * p + r
      <4> HIDE DEF p, r
      <4>1. b * a = a * b
        OBVIOUS
      <4>2. b * p + r \in Nat /\ b * p + r < a * b
        BY <3>1, <3>2, <3>3, <4>1, <1>1
      <4> QED BY <4>2, <1>1
    <3> DEFINE q == Slow(k, b) - 1
               s == Fast(k, b) - 1
    <3>5. q \in Nat /\ s \in 0 .. (b - 1) /\ b * p + r = b * q + s
      BY <2>1, <3>4
    <3>6. ~ (p < q \/ (p = q /\ r < s)) /\ ~ (q < p \/ (q = p /\ s < r))
      <4> HIDE DEF p, q, r, s
      <4>1. b * q \in Nat
        BY <3>5
      <4>2. ~ (b * p + r < b * q + s) /\ ~ (b * q + s < b * p + r)
        BY <3>1, <3>3, <3>5, <4>1
      <4> QED BY ONLY <1>3, <3>1, <3>5, <4>2, b \in Nat, QuotientOnly
    <3>7. p = q /\ r = s
      <4> HIDE DEF p, q, r, s
      <4> QED BY <3>1, <3>5, <3>6
    <3>8. Slow(k, b) \in Int /\ Fast(k, b) \in Int
      BY <2>2, <3>4
    <3>9. Slow(k, b) = i /\ Fast(k, b) = j
      <4>1. Slow(k, b) - 1 = i - 1 /\ Fast(k, b) - 1 = j - 1
        BY <3>7
      <4> HIDE DEF k
      <4> QED BY <3>8, <4>1
    <3> QED BY <3>4, <3>9
  <2> QED BY <1>1, <2>2, <2>3, <2>4
<1> QED BY <1>2, <1>3

\* A scan gives the record ids there are, in their order.
Ascends(s) == \A i, j \in DOMAIN s : i < j => s[i] < s[j]

LEMMA ScanIs ==
  ASSUME NEW t
  PROVE  /\ Scan(t) \in Seq(Rids) /\ Ascends(Scan(t))
         /\ \A i \in DOMAIN Scan(t) : recs[t][Scan(t)[i]] # None
         /\ \A r \in Rids : recs[t][r] # None => \E i \in DOMAIN Scan(t) : Scan(t)[i] = r
<1> DEFINE P(l, s) == /\ Ascends(s)
                      /\ \A i \in DOMAIN s : s[i] <= l /\ recs[t][s[i]] # None
                      /\ \A r \in 1 .. l : recs[t][r] # None => \E i \in DOMAIN s : s[i] = r
           S    == Seq(Rids)
           next(s, r) == IF recs[t][r] = None THEN s ELSE Append(s, r)
           G    == [l \in 0 .. MaxRid |-> {s \in S : P(l, s)}]
           step == [l \in 1 .. MaxRid |-> [s \in S |-> next(s, l)]]
<1>1. MaxRid \in Nat /\ Rids = 1 .. MaxRid
  BY QueryAssumption DEF Rids
<1>2. << >> \in S /\ P(0, << >>)
  <2>1. DOMAIN << >> = {} /\ 1 .. 0 = {}
    OBVIOUS
  <2> QED BY <2>1 DEF Ascends
<1>3. ASSUME NEW l \in 1 .. MaxRid, NEW s \in S, P(l - 1, s) PROVE next(s, l) \in S /\ P(l, next(s, l))
  <2>1. l \in Rids /\ l \in Nat /\ 1 .. l = (1 .. (l - 1)) \cup {l}
    BY <1>1
  <2>2. DOMAIN s = 1 .. Len(s) /\ Len(s) \in Nat /\ \A i \in 1 .. Len(s) : s[i] \in Nat /\ s[i] <= l - 1
    BY <1>1, <1>3
  <2>3. CASE recs[t][l] = None
    <3>1. next(s, l) = s
      BY <2>3
    <3>2. P(l, s)
      BY <1>3, <2>1, <2>2, <2>3
    <3> QED BY <3>1, <3>2
  <2>4. CASE recs[t][l] # None
    <3> DEFINE a == Append(s, l)
    <3>1. /\ a \in S /\ Len(a) = Len(s) + 1 /\ a[Len(s) + 1] = l
          /\ \A i \in 1 .. Len(s) : a[i] = s[i]
      BY <2>1
    <3>2. DOMAIN a = 1 .. (Len(s) + 1)
      BY <2>1, <2>2
    <3>3. next(s, l) = a
      BY <2>4
    <3> HIDE DEF a
    <3>4. \A i \in DOMAIN a : i \in 1 .. Len(s) \/ i = Len(s) + 1
      BY <2>2, <3>2
    <3>5. ASSUME NEW i \in DOMAIN a, NEW j \in DOMAIN a, i < j PROVE a[i] < a[j]
      <4>1. i \in 1 .. Len(s)
        BY <2>2, <3>2, <3>5
      <4>2. CASE j \in 1 .. Len(s)
        BY <1>3, <2>2, <3>1, <3>5, <4>1, <4>2 DEF Ascends
      <4>3. CASE j = Len(s) + 1
        BY <2>1, <2>2, <3>1, <4>1, <4>3
      <4> QED BY <3>4, <4>2, <4>3
    <3>6. \A i \in DOMAIN a : a[i] <= l /\ recs[t][a[i]] # None
      BY <1>3, <2>1, <2>2, <2>4, <3>1, <3>4
    <3>7. ASSUME NEW r \in 1 .. l, recs[t][r] # None PROVE \E i \in DOMAIN a : a[i] = r
      <4>1. CASE r = l
        BY <2>2, <3>1, <3>2, <4>1
      <4>2. CASE r # l
        <5>1. PICK i \in DOMAIN s : s[i] = r
          BY <1>3, <2>1, <3>7, <4>2
        <5> QED BY <2>2, <3>1, <3>2, <5>1
      <4> QED BY <4>1, <4>2
    <3>8. P(l, a)
      BY <3>5, <3>6, <3>7 DEF Ascends
    <3> HIDE DEF P, next
    <3> QED BY <3>1, <3>3, <3>8
  <2> QED BY <2>3, <2>4
<1> HIDE DEF P, next
<1>4. Stays(MaxRid, S, G, << >>, step)
  <2>1. \A l \in 0 .. MaxRid : G[l] \subseteq S
    OBVIOUS
  <2>2. << >> \in G[0]
    BY <1>1, <1>2
  <2>3. ASSUME NEW l \in 1 .. MaxRid, NEW s \in G[l - 1] PROVE step[l][s] \in G[l]
    <3>1. l \in 0 .. MaxRid /\ l - 1 \in 0 .. MaxRid
      BY <1>1
    <3>2. s \in S /\ P(l - 1, s)
      BY <3>1
    <3>3. step[l][s] = next(s, l)
      BY <3>2
    <3> QED BY <1>3, <3>1, <3>2, <3>3
  <2> QED BY <1>1, <2>1, <2>2, <2>3 DEF Stays
<1>5. \E f \in [0 .. MaxRid -> S] :
        \A l \in 0 .. MaxRid : f[l] = (IF l = 0 THEN << >> ELSE step[l][f[l - 1]]) /\ f[l] \in G[l]
  <2> HIDE DEF G, step, S
  <2> QED BY ONLY <1>4, Stages
<1>6. PICK f \in [0 .. MaxRid -> S] :
        \A l \in 0 .. MaxRid : f[l] = (IF l = 0 THEN << >> ELSE step[l][f[l - 1]]) /\ f[l] \in G[l]
  BY <1>5
<1> DEFINE upto[r \in 0 .. MaxRid] ==
             IF r = 0 THEN << >>
             ELSE IF recs[t][r] = None THEN upto[r - 1] ELSE Append(upto[r - 1], r)
<1>7. upto = [r \in 0 .. MaxRid |->
                IF r = 0 THEN << >>
                ELSE IF recs[t][r] = None THEN upto[r - 1] ELSE Append(upto[r - 1], r)]
  <2>1. f = [r \in 0 .. MaxRid |->
               IF r = 0 THEN << >>
               ELSE IF recs[t][r] = None THEN f[r - 1] ELSE Append(f[r - 1], r)]
    <3>1. ASSUME NEW l \in 0 .. MaxRid, l # 0
          PROVE  step[l][f[l - 1]] = IF recs[t][l] = None THEN f[l - 1] ELSE Append(f[l - 1], l)
      <4>1. l \in 1 .. MaxRid /\ l - 1 \in 0 .. MaxRid
        BY <1>1, <3>1
      <4> QED BY <4>1 DEF next
    <3> HIDE DEF step
    <3> QED BY <3>1, <1>6
  <2> QED BY <2>1
<1>8. Scan(t) = upto[MaxRid]
  BY DEF Scan
<1> HIDE DEF upto
<1> DEFINE T == {l \in 0 .. MaxRid : upto[l] \in S /\ P(l, upto[l])}
<1>9. \A l \in 0 .. MaxRid : l \in T
  <2>1. 0 \in T
    BY <1>1, <1>2, <1>7
  <2>2. ASSUME NEW l \in 1 .. MaxRid, l - 1 \in T PROVE l \in T
    <3>1. upto[l] = next(upto[l - 1], l)
      <4>1. l \in 0 .. MaxRid /\ l # 0
        BY <1>1
      <4>2. upto[l] = IF l = 0 THEN << >>
                      ELSE IF recs[t][l] = None THEN upto[l - 1] ELSE Append(upto[l - 1], l)
        BY <4>1, <1>7
      <4> QED BY <4>1, <4>2 DEF next
    <3>2. upto[l - 1] \in S /\ P(l - 1, upto[l - 1])
      BY <2>2
    <3> QED BY <1>3, <3>1, <3>2
  <2> HIDE DEF T
  <2> QED BY <1>1, <2>1, <2>2, Throughout
<1>10. Scan(t) \in S /\ P(MaxRid, Scan(t))
  BY <1>1, <1>8, <1>9
<1> QED BY <1>1, <1>10 DEF P

\* The combinations of records of the first n relations, and the sequences that
\* have each of them once and in order.
RowsOfFirst(rels, n) == {f \in [1 .. n -> Rids] : \A i \in 1 .. n : recs[rels[i]][f[i]] # None}

Lists(s, S) ==
  /\ s \in Seq(S)
  /\ \A f \in S : \E i \in DOMAIN s : s[i] = f
  /\ \A i, j \in DOMAIN s : i < j => Before(s[i], s[j])

LEMMA LongerBy ==
  ASSUME NEW n \in Nat, NEW f \in [1 .. n -> Rids], NEW r \in Rids
  PROVE  /\ Append(f, r) \in [1 .. (n + 1) -> Rids]
         /\ \A i \in 1 .. n : Append(f, r)[i] = f[i]
         /\ Append(f, r)[n + 1] = r
<1>1. f \in Seq(Rids) /\ Len(f) = n
  BY SeqDef
<1> DEFINE a == Append(f, r)
<1>2. a \in Seq(Rids) /\ Len(a) = n + 1 /\ a[n + 1] = r /\ \A i \in 1 .. n : a[i] = f[i]
  BY <1>1, AppendProperties
<1> HIDE DEF a
<1>3. a \in [1 .. (n + 1) -> Rids]
  BY <1>2
<1> QED BY <1>2, <1>3 DEF a

\* A combination that is before another stays so, and with the same combination
\* the lower record is first.
LEMMA LongerBefore ==
  ASSUME NEW n \in Nat, NEW f \in [1 .. n -> Rids], NEW g \in [1 .. n -> Rids],
         NEW r \in Rids, NEW s \in Rids, Before(f, g) \/ (f = g /\ r < s)
  PROVE  Before(Append(f, r), Append(g, s))
<1> DEFINE a == Append(f, r)
           b == Append(g, s)
<1>1. /\ DOMAIN a = 1 .. (n + 1) /\ a[n + 1] = r /\ \A i \in 1 .. n : a[i] = f[i]
      /\ b[n + 1] = s /\ \A i \in 1 .. n : b[i] = g[i]
  BY LongerBy
<1> HIDE DEF a, b
<1>2. CASE Before(f, g)
  <2>1. PICK k \in 1 .. n : f[k] < g[k] /\ \A m \in 1 .. (k - 1) : f[m] = g[m]
    BY <1>2 DEF Before
  <2>2. k \in DOMAIN a /\ \A m \in 1 .. (k - 1) : m \in 1 .. n
    BY <1>1
  <2> QED BY <1>1, <2>1, <2>2 DEF Before, a, b
<1>3. CASE f = g /\ r < s
  <2>1. n + 1 \in DOMAIN a /\ (n + 1) - 1 = n
    BY <1>1
  <2> QED BY <1>1, <1>3, <2>1 DEF Before, a, b
<1> QED BY <1>2, <1>3

\* One more relation.
LEMMA ExtendedLists ==
  ASSUME NEW rels, NEW n \in Nat, NEW combos, Lists(combos, RowsOfFirst(rels, n))
  PROVE  Lists(Extended(combos, Scan(rels[n + 1])), RowsOfFirst(rels, n + 1))
<1> DEFINE t == rels[n + 1]
           rids == Scan(t)
           a == Len(combos)
           b == Len(rids)
           e == Extended(combos, rids)
           A == RowsOfFirst(rels, n)
           B == RowsOfFirst(rels, n + 1)
<1>1. /\ rids \in Seq(Rids) /\ Ascends(rids)
      /\ \A i \in DOMAIN rids : recs[t][rids[i]] # None
      /\ \A r \in Rids : recs[t][r] # None => \E i \in DOMAIN rids : rids[i] = r
  BY ScanIs
<1>2. /\ combos \in Seq(A) /\ \A f \in A : \E i \in DOMAIN combos : combos[i] = f
      /\ \A i, j \in DOMAIN combos : i < j => Before(combos[i], combos[j])
  BY DEF Lists
<1>3. \A f \in A : f \in [1 .. n -> Rids] /\ \A i \in 1 .. n : recs[rels[i]][f[i]] # None
  BY DEF RowsOfFirst
<1>4. \A f \in [1 .. (n + 1) -> Rids] : f \in B <=> \A i \in 1 .. (n + 1) : recs[rels[i]][f[i]] # None
  BY DEF RowsOfFirst
<1> HIDE DEF rids, A, B
<1>5. a \in Nat /\ b \in Nat /\ DOMAIN combos = 1 .. a /\ DOMAIN rids = 1 .. b
  BY <1>1, <1>2
<1>6. e = [k \in 1 .. (a * b) |-> Append(combos[Slow(k, b)], rids[Fast(k, b)])]
  BY DEF Extended, Slow, Fast
<1> HIDE DEF e, a, b
<1>7. /\ a * b \in Nat
      /\ \A k \in 1 .. (a * b) : Slow(k, b) \in 1 .. a /\ Fast(k, b) \in 1 .. b
      /\ \A k, m \in 1 .. (a * b) : k < m =>
           Slow(k, b) < Slow(m, b) \/ (Slow(k, b) = Slow(m, b) /\ Fast(k, b) < Fast(m, b))
      /\ \A i \in 1 .. a, j \in 1 .. b : \E k \in 1 .. (a * b) : Slow(k, b) = i /\ Fast(k, b) = j
  BY ONLY <1>5, PairsNumbered
<1>8. ASSUME NEW i \in 1 .. a, NEW j \in 1 .. b
      PROVE  /\ combos[i] \in A /\ combos[i] \in [1 .. n -> Rids] /\ rids[j] \in Rids
             /\ Append(combos[i], rids[j]) \in B
  <2> DEFINE f == combos[i]
             r == rids[j]
             g == Append(f, r)
  <2>1. f \in A /\ r \in Rids
    BY <1>1, <1>2, <1>5
  <2>2. f \in [1 .. n -> Rids] /\ recs[t][r] # None
    BY <1>1, <1>3, <1>5, <2>1
  <2>3. /\ g \in [1 .. (n + 1) -> Rids] /\ g[n + 1] = r
        /\ \A k \in 1 .. n : g[k] = f[k]
    <3> HIDE DEF f, r
    <3> QED BY ONLY <2>1, <2>2, n \in Nat, LongerBy
  <2>4. ASSUME NEW k \in 1 .. (n + 1) PROVE recs[rels[k]][g[k]] # None
    <3> HIDE DEF f, r, g
    <3>1. CASE k = n + 1
      BY <2>2, <2>3, <3>1
    <3>2. CASE k # n + 1
      <4>1. k \in 1 .. n
        BY <3>2
      <4> QED BY <1>3, <2>1, <2>3, <4>1
    <3> QED BY <3>1, <3>2
  <2>5. g \in B
    <3> HIDE DEF g
    <3> QED BY <1>4, <2>3, <2>4
  <2> QED BY <2>1, <2>2, <2>5
<1>9. e \in Seq(B) /\ DOMAIN e = 1 .. (a * b)
  <2>1. ASSUME NEW k \in 1 .. (a * b) PROVE Append(combos[Slow(k, b)], rids[Fast(k, b)]) \in B
    <3> HIDE DEF rids
    <3> QED BY <1>7, <1>8
  <2> DEFINE N == a * b
             F(k) == Append(combos[Slow(k, b)], rids[Fast(k, b)])
  <2>2. N \in Nat /\ e = [k \in 1 .. N |-> F(k)] /\ \A k \in 1 .. N : F(k) \in B
    BY <1>6, <1>7, <2>1
  <2> HIDE DEF N, F
  <2>3. e \in [1 .. N -> B]
    BY <2>2
  <2>4. e \in Seq(B) /\ DOMAIN e = 1 .. N
    BY <2>2, <2>3, SeqDef
  <2> QED BY <2>4 DEF N
<1>10. ASSUME NEW f \in B PROVE \E k \in DOMAIN e : e[k] = f
  <2> DEFINE g == [i \in 1 .. n |-> f[i]]
  <2>1. f \in [1 .. (n + 1) -> Rids] /\ \A i \in 1 .. (n + 1) : recs[rels[i]][f[i]] # None
    BY DEF B, RowsOfFirst
  <2>2. n + 1 \in 1 .. (n + 1) /\ \A i \in 1 .. n : i \in 1 .. (n + 1)
    OBVIOUS
  <2>3. g \in A
    BY <2>1, <2>2 DEF A, RowsOfFirst
  <2>4. f[n + 1] \in Rids /\ recs[t][f[n + 1]] # None
    BY <2>1, <2>2
  <2>5. PICK i \in 1 .. a : combos[i] = g
    BY <1>2, <1>5, <2>3
  <2>6. PICK j \in 1 .. b : rids[j] = f[n + 1]
    BY <1>1, <1>5, <2>4
  <2>7. PICK k \in 1 .. (a * b) : Slow(k, b) = i /\ Fast(k, b) = j
    BY <1>7
  <2>8. e[k] = Append(g, f[n + 1])
    BY <1>6, <2>5, <2>6, <2>7
  <2>9. Append(g, f[n + 1]) = f
    <3> DEFINE h == Append(g, f[n + 1])
    <3>1. g \in [1 .. n -> Rids]
      BY <1>3, <2>3
    <3>2. \A k1 \in 1 .. n : g[k1] = f[k1]
      OBVIOUS
    <3> HIDE DEF g
    <3>3. h \in [1 .. (n + 1) -> Rids] /\ h[n + 1] = f[n + 1] /\ \A k1 \in 1 .. n : h[k1] = g[k1]
      BY ONLY <2>4, <3>1, n \in Nat, LongerBy
    <3> HIDE DEF h
    <3>4. \A k1 \in 1 .. (n + 1) : h[k1] = f[k1]
      <4>1. \A k1 \in 1 .. (n + 1) : k1 = n + 1 \/ k1 \in 1 .. n
        OBVIOUS
      <4> QED BY <3>2, <3>3, <4>1
    <3> QED BY <2>1, <3>3, <3>4 DEF h
  <2> QED BY <1>9, <2>7, <2>8, <2>9
<1>11. ASSUME NEW k \in DOMAIN e, NEW m \in DOMAIN e, k < m PROVE Before(e[k], e[m])
  <2> DEFINE f == combos[Slow(k, b)]
             g == combos[Slow(m, b)]
             r == rids[Fast(k, b)]
             s == rids[Fast(m, b)]
  <2>1. e[k] = Append(f, r) /\ e[m] = Append(g, s)
    BY <1>6, <1>9
  <2>2. /\ f \in [1 .. n -> Rids] /\ g \in [1 .. n -> Rids] /\ r \in Rids /\ s \in Rids
        /\ Slow(k, b) \in 1 .. a /\ Slow(m, b) \in 1 .. a /\ Fast(k, b) \in 1 .. b /\ Fast(m, b) \in 1 .. b
    BY <1>7, <1>8, <1>9
  <2>3. Slow(k, b) < Slow(m, b) \/ (Slow(k, b) = Slow(m, b) /\ Fast(k, b) < Fast(m, b))
    BY <1>7, <1>9, <1>11
  <2>4. Before(f, g) \/ (f = g /\ r < s)
    BY <1>1, <1>2, <1>5, <2>2, <2>3 DEF Ascends
  <2> HIDE DEF f, g, r, s
  <2> QED BY ONLY <2>1, <2>2, <2>4, n \in Nat, LongerBefore
<1>12. Lists(e, B)
  BY ONLY <1>9, <1>10, <1>11 DEF Lists
<1> QED BY <1>12 DEF e, B, rids

\* Dfs goes through the combinations.
LEMMA DfsLists ==
  ASSUME NEW rels \in Seq(Tables)
  PROVE  Lists(Dfs(rels), Combinations(rels))
<1> DEFINE N == Len(rels)
           C(l) == RowsOfFirst(rels, l)
           S == {s \in Seq(Seq(Rids)) : TRUE}
           next(s, l) == Extended(s, Scan(rels[l]))
           G    == [l \in 0 .. N |-> {s \in S : Lists(s, C(l))}]
           step == [l \in 1 .. N |-> [s \in S |-> next(s, l)]]
<1>1. N \in Nat /\ DOMAIN rels = 1 .. N
  OBVIOUS
<1>2. Combinations(rels) = C(N)
  BY <1>1 DEF Combinations, RowsOfFirst
<1>3. ASSUME NEW l \in Nat, NEW s, Lists(s, C(l)) PROVE s \in S
  <2>1. C(l) \subseteq Seq(Rids)
    <3>1. [1 .. l -> Rids] \subseteq Seq(Rids)
      BY SeqDef
    <3> QED BY <3>1 DEF RowsOfFirst
  <2> DEFINE A == C(l)
             B == Seq(Rids)
  <2>2. s \in Seq(A) /\ A \subseteq B
    BY <1>3, <2>1 DEF Lists
  <2> HIDE DEF A, B
  <2>3. s \in Seq(B)
    BY ONLY <2>2
  <2> QED BY <2>3 DEF B
<1>4. Lists(<< << >> >>, C(0))
  <2>1. << >> \in C(0) /\ \A f \in C(0) : f = << >>
    BY DEF RowsOfFirst
  <2> DEFINE A == C(0)
             s == << << >> >>
  <2>2. s \in Seq(A) /\ DOMAIN s = {1} /\ s[1] = << >>
    BY <2>1
  <2>3. \A f \in A : f = << >>
    BY <2>1
  <2> HIDE DEF A, s
  <2>4. Lists(s, A)
    BY <2>2, <2>3 DEF Lists
  <2> QED BY <2>4 DEF s, A
<1>5. ASSUME NEW l \in 1 .. N, NEW s, Lists(s, C(l - 1)) PROVE Lists(next(s, l), C(l))
  <2>1. l - 1 \in Nat /\ (l - 1) + 1 = l
    BY <1>1
  <2>2. Lists(Extended(s, Scan(rels[(l - 1) + 1])), RowsOfFirst(rels, (l - 1) + 1))
    BY ONLY <1>5, <2>1, ExtendedLists
  <2> QED BY <2>1, <2>2
<1> HIDE DEF C, next, S
<1>6. Stays(N, S, G, << << >> >>, step)
  <2>1. \A l \in 0 .. N : G[l] \subseteq S
    OBVIOUS
  <2>2. << << >> >> \in G[0]
    <3>1. << << >> >> \in S
      BY <1>3, <1>4
    <3> QED BY <1>1, <1>4, <3>1
  <2>3. ASSUME NEW l \in 1 .. N, NEW s \in G[l - 1] PROVE step[l][s] \in G[l]
    <3>1. l \in 0 .. N /\ l - 1 \in 0 .. N /\ l \in Nat
      BY <1>1
    <3>2. s \in S /\ Lists(s, C(l - 1))
      BY <3>1
    <3>3. step[l][s] = next(s, l)
      BY <3>2
    <3>4. Lists(next(s, l), C(l))
      BY <1>5, <3>2
    <3> QED BY <1>3, <3>1, <3>3, <3>4
  <2> HIDE DEF G, step
  <2> QED BY <1>1, <2>1, <2>2, <2>3 DEF Stays
<1>7. \E f \in [0 .. N -> S] :
        \A l \in 0 .. N : f[l] = (IF l = 0 THEN << << >> >> ELSE step[l][f[l - 1]]) /\ f[l] \in G[l]
  <2> HIDE DEF G, step, N
  <2> QED BY ONLY <1>6, Stages
<1>8. PICK f \in [0 .. N -> S] :
        \A l \in 0 .. N : f[l] = (IF l = 0 THEN << << >> >> ELSE step[l][f[l - 1]]) /\ f[l] \in G[l]
  BY <1>7
<1> DEFINE upto[n \in 0 .. N] ==
             IF n = 0 THEN << << >> >> ELSE Extended(upto[n - 1], Scan(rels[n]))
<1>9. upto = [n \in 0 .. N |->
                IF n = 0 THEN << << >> >> ELSE Extended(upto[n - 1], Scan(rels[n]))]
  <2>1. f = [n \in 0 .. N |-> IF n = 0 THEN << << >> >> ELSE Extended(f[n - 1], Scan(rels[n]))]
    <3>1. ASSUME NEW l \in 0 .. N, l # 0
          PROVE  step[l][f[l - 1]] = Extended(f[l - 1], Scan(rels[l]))
      <4>1. l \in 1 .. N /\ l - 1 \in 0 .. N
        BY <1>1, <3>1
      <4> QED BY <4>1 DEF next
    <3> HIDE DEF step
    <3> QED BY <3>1, <1>8
  <2> QED BY <2>1
<1>10. Dfs(rels) = upto[N]
  BY DEF Dfs
<1> HIDE DEF upto
<1> DEFINE T == {l \in 0 .. N : Lists(upto[l], C(l))}
<1>11. \A l \in 0 .. N : l \in T
  <2>1. 0 \in T
    BY <1>1, <1>4, <1>9
  <2>2. ASSUME NEW l \in 1 .. N, l - 1 \in T PROVE l \in T
    <3>1. upto[l] = next(upto[l - 1], l) /\ l \in 0 .. N
      <4>1. l \in 0 .. N /\ l # 0
        BY <1>1
      <4>2. upto[l] = IF l = 0 THEN << << >> >> ELSE Extended(upto[l - 1], Scan(rels[l]))
        BY <4>1, <1>9
      <4> QED BY <4>1, <4>2 DEF next
    <3>2. Lists(upto[l - 1], C(l - 1))
      BY <2>2
    <3> HIDE DEF N
    <3> QED BY <1>5, <3>1, <3>2
  <2> HIDE DEF T, N
  <2> QED BY <1>1, <2>1, <2>2, Throughout
<1>12. Lists(Dfs(rels), C(N))
  <2> HIDE DEF N
  <2> QED BY <1>1, <1>10, <1>11
<1> QED BY <1>2, <1>12

\* The relation a column is looked for in is the first that is named or has it.
First(rels, col, k) ==
  /\ IF col.rel = None THEN Has(rels[k], col.name) ELSE rels[k] = col.rel
  /\ \A m \in 1 .. (k - 1) : IF col.rel = None THEN ~Has(rels[m], col.name) ELSE rels[m] # col.rel

LEMMA RelationIs ==
  ASSUME NEW rels \in Seq(Tables), NEW col, Named(rels, col)
  PROVE  LET i == RelationOf(rels, col, col.rel # None)
         IN  /\ i \in DOMAIN rels /\ Has(rels[i], col.name)
             /\ \A k \in DOMAIN rels : First(rels, col, k) <=> k = i
<1> DEFINE T == IF col.rel # None THEN {i \in DOMAIN rels : rels[i] = col.rel}
                ELSE {i \in DOMAIN rels : Has(rels[i], col.name)}
           i == RelationOf(rels, col, col.rel # None)
<1>1. DOMAIN rels \subseteq Nat /\ \A k \in DOMAIN rels : \A m \in 1 .. (k - 1) : m \in DOMAIN rels
  OBVIOUS
<1>2. PICK n \in DOMAIN rels : /\ col.rel \in {rels[n], None}
                               /\ \E j \in DOMAIN Schema[rels[n]] : Schema[rels[n]][j].name = col.name
  BY DEF Named
<1>3. Has(rels[n], col.name) /\ n \in T
  BY <1>2 DEF Has, ColumnsNamed
<1>4. i = Min(T)
  BY DEF RelationOf
<1>5. i \in T /\ \A y \in T : i <= y
  <2>1. T \subseteq Nat /\ T # {}
    BY <1>1, <1>3
  <2> HIDE DEF T, i
  <2> QED BY ONLY <1>4, <2>1, LeastNat
<1>6. i \in DOMAIN rels /\ \A k \in DOMAIN rels :
        k \in T <=> (IF col.rel = None THEN Has(rels[k], col.name) ELSE rels[k] = col.rel)
  BY <1>5
<1>7. Has(rels[i], col.name)
  BY <1>2, <1>3, <1>5
<1> HIDE DEF T, i
<1>8. ASSUME NEW k \in DOMAIN rels PROVE First(rels, col, k) <=> k = i
  <2>1. First(rels, col, k) <=> k \in T /\ \A m \in 1 .. (k - 1) : m \notin T
    BY <1>1, <1>6 DEF First
  <2>2. T \subseteq DOMAIN rels
    BY DEF T
  <2>3. CASE k = i
    <3>1. \A m \in 1 .. (k - 1) : m \notin T
      BY <1>1, <1>5, <2>2, <2>3
    <3> QED BY <1>5, <2>1, <2>3, <3>1
  <2>4. CASE k # i
    <3>1. k \in T => i \in 1 .. (k - 1)
      <4>1. k \in T => i <= k
        BY <1>5
      <4>2. i \in Nat /\ k \in Nat /\ i >= 1
        BY <1>1, <1>6
      <4> QED BY <2>4, <4>1, <4>2
    <3> QED BY <1>5, <2>1, <2>4, <3>1
  <2> QED BY <2>3, <2>4
<1> QED BY <1>6, <1>7, <1>8 DEF i

\* What a column means in a combination is what it is looked up to be.
LEMMA MeantIn ==
  ASSUME recs \in Contents, NEW rels \in Seq(Tables), NEW f \in Combinations(rels),
         NEW col, Named(rels, col)
  PROVE  LET i == RelationOf(rels, col, col.rel # None)
             a == recs[rels[i]][f[i]][Column(rels[i], col.name)]
         IN  /\ Meant(rels, Content(rels, f), col) = a
             /\ a \in Value /\ a.v \in Nat /\ a.type = TypeIn(rels[i], col.name)
             /\ ValueIn(rels[i], f[i], col.name) = a.v
<1> DEFINE i == RelationOf(rels, col, col.rel # None)
           t == rels[i]
           x == recs[t][f[i]]
           a == x[Column(t, col.name)]
           g == Content(rels, f)
<1>1. i \in DOMAIN rels /\ Has(t, col.name) /\ \A k \in DOMAIN rels : First(rels, col, k) <=> k = i
  BY RelationIs
<1>2. f \in [DOMAIN rels -> Rids] /\ \A k \in DOMAIN f : recs[rels[k]][f[k]] # None
  BY DEF Combinations
<1> HIDE DEF i
<1>3. t \in Tables /\ f[i] \in Rids /\ x # None
  BY <1>1, <1>2
<1>4. x \in Seq(Value) /\ Fits(t, x)
  BY <1>3, RecordIs
<1>5. a \in Value /\ a.type = TypeIn(t, col.name) /\ a.v \in Nat
  <2> HIDE DEF x, t
  <2> QED BY <1>1, <1>3, <1>4, ValueOfColumn
<1>6. ValueIn(t, f[i], col.name) = a.v
  BY DEF ValueIn
<1>7. g[i] = x
  BY <1>1, <1>2 DEF Content
<1>8. (CHOOSE k \in DOMAIN rels : First(rels, col, k)) = i
  BY <1>1
<1>9. (CHOOSE k \in DOMAIN Schema[t] : Schema[t][k].name = col.name) = Column(t, col.name)
  <2> HIDE DEF t
  <2> QED BY <1>1, <1>3, ColumnIs
<1>10. Meant(rels, g, col) =
         LET p == CHOOSE k \in DOMAIN rels : First(rels, col, k)
             q == CHOOSE k \in DOMAIN Schema[rels[p]] : Schema[rels[p]][k].name = col.name
         IN  g[p][q]
  BY DEF Meant, First
<1> HIDE DEF g, x
<1>11. Meant(rels, g, col) = a
  BY <1>7, <1>8, <1>9, <1>10
<1> QED BY <1>5, <1>6, <1>11 DEF i, x, g

\* The sides of a condition have different types: it is refused whatever the records.
Mismatched(rels, c) ==
  LET tx == TypeIn(rels[RelationOf(rels, c.lhs, c.lhs.rel # None)], c.lhs.name)
      ty == TypeIn(rels[RelationOf(rels, c.rhs, c.rhs.rel # None)], c.rhs.name)
  IN  tx # (IF c.rhsIsAttr THEN ty ELSE IF c.value = None THEN "STRING" ELSE c.value.type)

LEMMA RowJudged ==
  ASSUME recs \in Contents, NEW rels \in Seq(Tables), NEW f \in Combinations(rels),
         NEW c \in SelectConditions(rels),
         c.rhsIsAttr => (c.lhs.rel = None <=> c.rhs.rel = None)
  PROVE  /\ Mismatched(rels, c) => ~Satisfies(rels, Content(rels, f), c)
         /\ JudgedRow(rels, f, c) = IF Mismatched(rels, c) THEN "refused"
                                    ELSE IF Satisfies(rels, Content(rels, f), c) THEN "holds"
                                    ELSE "fails"
<1> DEFINE l == RelationOf(rels, c.lhs, c.lhs.rel # None)
           r == RelationOf(rels, c.rhs, c.rhs.rel # None)
           g == Content(rels, f)
           a == Meant(rels, g, c.lhs)
           b == Meant(rels, g, c.rhs)
           y == IF c.rhsIsAttr THEN b
                ELSE IF c.value = None THEN [type |-> "STRING", v |-> 0] ELSE c.value
           j == JudgedRow(rels, f, c)
           tx == TypeIn(rels[l], c.lhs.name)
           ty == TypeIn(rels[r], c.rhs.name)
<1>1. /\ c.op \in {"EQ", "NE", "LT", "GE", "GT", "LE"}
      /\ c.value \in Value \cup {None} /\ c.rhsIsAttr \in BOOLEAN
      /\ Named(rels, c.lhs)
      /\ c.rhsIsAttr => Named(rels, c.rhs) /\ (c.lhs.rel = None <=> c.rhs.rel = None)
  BY DEF SelectConditions
<1>2. a \in Value /\ a.v \in Nat /\ a.type = tx /\ ValueIn(rels[l], f[l], c.lhs.name) = a.v
  <2>1. LET i == RelationOf(rels, c.lhs, c.lhs.rel # None)
            z == recs[rels[i]][f[i]][Column(rels[i], c.lhs.name)]
        IN  /\ Meant(rels, Content(rels, f), c.lhs) = z
            /\ z \in Value /\ z.v \in Nat /\ z.type = TypeIn(rels[i], c.lhs.name)
            /\ ValueIn(rels[i], f[i], c.lhs.name) = z.v
    BY <1>1, MeantIn
  <2> QED BY <2>1
<1>3. c.rhsIsAttr =>
        b \in Value /\ b.v \in Nat /\ b.type = ty /\ ValueIn(rels[r], f[r], c.rhs.name) = b.v
  <2> SUFFICES ASSUME c.rhsIsAttr
               PROVE  b \in Value /\ b.v \in Nat /\ b.type = ty /\ ValueIn(rels[r], f[r], c.rhs.name) = b.v
    OBVIOUS
  <2>1. LET i == RelationOf(rels, c.rhs, c.rhs.rel # None)
            z == recs[rels[i]][f[i]][Column(rels[i], c.rhs.name)]
        IN  /\ Meant(rels, Content(rels, f), c.rhs) = z
            /\ z \in Value /\ z.v \in Nat /\ z.type = TypeIn(rels[i], c.rhs.name)
            /\ ValueIn(rels[i], f[i], c.rhs.name) = z.v
    BY <1>1, MeantIn
  <2> QED BY <2>1
<1>4. c.rhsIsAttr => RelationOf(rels, c.rhs, c.lhs.rel # None) = r
  BY <1>1
<1>5. j = IF c.rhsIsAttr THEN Compared(c.op, a.v, tx, b.v, ty)
          ELSE IF c.value = None THEN ComparedToNull(c.op, a.v, tx)
          ELSE Compared(c.op, a.v, tx, c.value.v, c.value.type)
  <2> HIDE DEF a, b, g
  <2>1. CASE c.rhsIsAttr
    BY <1>2, <1>3, <1>4, <2>1 DEF JudgedRow
  <2>2. CASE ~c.rhsIsAttr
    BY <1>2, <2>2 DEF JudgedRow
  <2> QED BY <2>1, <2>2
<1>6. Mismatched(rels, c) <=> tx # (IF c.rhsIsAttr THEN ty ELSE IF c.value = None THEN "STRING" ELSE c.value.type)
  BY DEF Mismatched
<1>7. Satisfies(rels, g, c) <=>
        /\ a.type = y.type
        /\ c.rhsIsAttr \/ c.value # None \/ c.op \in {"EQ", "NE"}
        /\ c.op = "EQ" => a.v = y.v
        /\ c.op = "NE" => a.v # y.v
        /\ c.op = "LT" => a.v < y.v
        /\ c.op = "GE" => ~(a.v < y.v)
        /\ c.op = "GT" => y.v < a.v
        /\ c.op = "LE" => ~(y.v < a.v)
  BY DEF Satisfies
<1> HIDE DEF g, a, b, j, tx, ty
<1>8. y.v \in Nat /\ (c.value # None => c.value.v \in Nat)
  BY <1>1, <1>3 DEF Value
<1>9. Satisfies(rels, g, c) <=>
        /\ a.type = y.type
        /\ c.rhsIsAttr \/ c.value # None \/ c.op \in {"EQ", "NE"}
        /\ CheckFunction(c.op, a.v, y.v)
  <2>1. CheckFunction(c.op, a.v, y.v) <=>
          /\ c.op = "EQ" => a.v = y.v
          /\ c.op = "NE" => a.v # y.v
          /\ c.op = "LT" => a.v < y.v
          /\ c.op = "GE" => ~(a.v < y.v)
          /\ c.op = "GT" => y.v < a.v
          /\ c.op = "LE" => ~(y.v < a.v)
    <3> HIDE DEF y
    <3>1. a.v \in Nat
      BY <1>2
    <3> QED BY ONLY <1>1, <3>1, <1>8, ComparesRight
  <2> HIDE DEF y
  <2> QED BY <1>7, <2>1
<1>10. y.type = (IF c.rhsIsAttr THEN ty ELSE IF c.value = None THEN "STRING" ELSE c.value.type)
  BY <1>3
<1>11. CASE c.rhsIsAttr \/ c.value # None
  <2>1. j = Compared(c.op, a.v, tx, y.v, y.type)
    BY <1>3, <1>5, <1>11
  <2>2. Mismatched(rels, c) <=> tx # y.type
    BY <1>6, <1>10
  <2> HIDE DEF y
  <2>3. a.type = tx
    BY <1>2
  <2>4. j = IF Mismatched(rels, c) THEN "refused" ELSE IF Satisfies(rels, g, c) THEN "holds" ELSE "fails"
    BY <1>9, <1>11, <2>1, <2>2, <2>3 DEF Compared
  <2> QED BY <1>9, <2>2, <2>3, <2>4 DEF g, j
<1>12. CASE ~(c.rhsIsAttr \/ c.value # None)
  <2>1. j = ComparedToNull(c.op, a.v, tx) /\ y.v = 0 /\ y.type = "STRING"
    BY <1>5, <1>12
  <2>2. Mismatched(rels, c) <=> tx # "STRING"
    BY <1>6, <1>12
  <2>3. CheckFunction(c.op, a.v, 0) /\ c.op \in {"EQ", "NE"} <=>
          (c.op = "EQ" /\ a.v = 0) \/ (c.op = "NE" /\ a.v > 0)
    BY <1>2 DEF CheckFunction
  <2> HIDE DEF y
  <2>4. a.type = tx
    BY <1>2
  <2>5. j = IF Mismatched(rels, c) THEN "refused" ELSE IF Satisfies(rels, g, c) THEN "holds" ELSE "fails"
    BY <1>9, <1>12, <2>1, <2>2, <2>3, <2>4 DEF ComparedToNull
  <2> QED BY <1>9, <2>1, <2>2, <2>4, <2>5 DEF g, j
<1> QED BY <1>11, <1>12

\* What the conditions say of a combination.
Judgement(q, f) == Verdict([k \in DOMAIN q.conds |-> JudgedRow(q.rels, f, q.conds[k])])

LEMMA JudgementIs ==
  ASSUME recs \in Contents, NEW q \in Queries, Resolved(q), NEW f \in Combinations(q.rels)
  PROVE  /\ Judgement(q, f) = "holds" <=> f \in Answers(q)
         /\ Judgement(q, f) = "refused" => Answers(q) = {}
<1> DEFINE rels == q.rels
           j == [k \in DOMAIN q.conds |-> JudgedRow(rels, f, q.conds[k])]
<1>1. rels \in Seq(Tables) /\ q.conds \in Seq(SelectConditions(rels))
  BY QueriesAssumption
<1>2. ASSUME NEW k \in DOMAIN q.conds, NEW g \in Combinations(rels)
      PROVE  /\ Mismatched(rels, q.conds[k]) => ~Satisfies(rels, Content(rels, g), q.conds[k])
             /\ JudgedRow(rels, g, q.conds[k]) =
                  IF Mismatched(rels, q.conds[k]) THEN "refused"
                  ELSE IF Satisfies(rels, Content(rels, g), q.conds[k]) THEN "holds"
                  ELSE "fails"
  <2> DEFINE c == q.conds[k]
  <2>1. c \in SelectConditions(rels) /\ (c.rhsIsAttr => (c.lhs.rel = None <=> c.rhs.rel = None))
    BY <1>1 DEF Resolved
  <2> HIDE DEF c, rels
  <2>2. /\ Mismatched(rels, c) => ~Satisfies(rels, Content(rels, g), c)
        /\ JudgedRow(rels, g, c) = IF Mismatched(rels, c) THEN "refused"
                                   ELSE IF Satisfies(rels, Content(rels, g), c) THEN "holds"
                                   ELSE "fails"
    BY <1>1, <1>2, <2>1, RowJudged
  <2> QED BY <2>2 DEF c
<1>3. DOMAIN j \subseteq Nat /\ DOMAIN j = DOMAIN q.conds
  BY <1>1
<1>4. Judgement(q, f) = Verdict(j)
  BY DEF Judgement
<1>5. f \in Answers(q) <=> \A k \in DOMAIN q.conds : Satisfies(rels, Content(rels, f), q.conds[k])
  BY DEF Answers
<1>6. \A k \in DOMAIN q.conds : j[k] = JudgedRow(rels, f, q.conds[k])
  OBVIOUS
<1>7. CASE \A k \in DOMAIN j : j[k] = "holds"
  <2> HIDE DEF j
  <2>1. Verdict(j) = "holds"
    BY <1>3, <1>7, VerdictIs
  <2>2. f \in Answers(q)
    BY <1>2, <1>3, <1>5, <1>6, <1>7
  <2> QED BY <1>4, <2>1, <2>2
<1>8. CASE ~ \A k \in DOMAIN j : j[k] = "holds"
  <2> HIDE DEF j
  <2>1. PICK k \in DOMAIN j : j[k] # "holds" /\ Verdict(j) = j[k]
    BY <1>3, <1>8, VerdictIs
  <2>2. f \notin Answers(q)
    BY <1>2, <1>3, <1>5, <1>6, <2>1
  <2>3. ASSUME j[k] = "refused" PROVE Answers(q) = {}
    <3>1. Mismatched(rels, q.conds[k])
      BY <1>2, <1>3, <1>6, <2>3
    <3>2. \A g \in Combinations(rels) : ~Satisfies(rels, Content(rels, g), q.conds[k])
      BY <1>2, <1>3, <3>1
    <3> QED BY <1>3, <3>2 DEF Answers
  <2> QED BY <1>4, <2>1, <2>2, <2>3
<1> QED BY <1>7, <1>8

\* What is printed of a combination.
LEMMA ShownIs ==
  ASSUME recs \in Contents, NEW q \in Queries, NEW f \in Combinations(q.rels)
  PROVE  Shown(q, f) = Row(q, f)
<1>1. CASE q.all
  BY <1>1 DEF Shown, Row, Content
<1>2. CASE ~q.all
  <2> DEFINE rels == q.rels
             a(k) == LET i == RelationOf(rels, q.cols[k], q.cols[k].rel # None)
                     IN  recs[rels[i]][f[i]][Column(rels[i], q.cols[k].name)]
  <2>1. ASSUME NEW k \in DOMAIN q.cols PROVE a(k) = Meant(rels, Content(rels, f), q.cols[k])
    <3> DEFINE col == q.cols[k]
    <3>1. rels \in Seq(Tables) /\ Named(rels, col)
      BY <1>2, QueriesAssumption
    <3> HIDE DEF col, rels
    <3>2. LET i == RelationOf(rels, col, col.rel # None)
              z == recs[rels[i]][f[i]][Column(rels[i], col.name)]
          IN  /\ Meant(rels, Content(rels, f), col) = z
              /\ z \in Value /\ z.v \in Nat /\ z.type = TypeIn(rels[i], col.name)
              /\ ValueIn(rels[i], f[i], col.name) = z.v
      BY <3>1, MeantIn DEF rels
    <3> QED BY <3>2 DEF col
  <2>2. Shown(q, f) = [k \in DOMAIN q.cols |-> a(k)]
    BY <1>2 DEF Shown
  <2>3. Row(q, f) = [k \in DOMAIN q.cols |-> Meant(rels, Content(rels, f), q.cols[k])]
    BY <1>2 DEF Row
  <2> HIDE DEF a, rels
  <2> QED BY <2>1, <2>2, <2>3
<1> QED BY <1>1, <1>2

\* After the first n combinations: what was printed are the answers among them.
Printed(q, n, a, s) ==
  /\ s \in Seq(Answers(q))
  /\ a.rows = [i \in DOMAIN s |-> Row(q, s[i])]
  /\ \A i, j \in DOMAIN s : i < j => Before(s[i], s[j])
  /\ \A i \in DOMAIN s : \E k \in 1 .. n : s[i] = Dfs(q.rels)[k]
  /\ \A k \in 1 .. n : Dfs(q.rels)[k] \in Answers(q) => \E i \in DOMAIN s : s[i] = Dfs(q.rels)[k]

States(q) == [rc : {0, -1}, rows : Seq({Row(q, f) : f \in Answers(q)})]

SoFar(q, n, a) ==
  /\ a \in States(q)
  /\ a.rc # 0 => Answers(q) = {}
  /\ \E s : Printed(q, n, a, s)

LEMMA TriedKeeps ==
  ASSUME recs \in Contents, NEW q \in Queries, Resolved(q), NEW n \in 1 .. Len(Dfs(q.rels)), NEW a,
         SoFar(q, n - 1, a)
  PROVE  SoFar(q, n, Tried(q, a, Dfs(q.rels)[n]))
<1> DEFINE d == Dfs(q.rels)
           f == d[n]
           A == Answers(q)
           z == Tried(q, a, f)
           R == {Row(q, g) : g \in A}
<1>1. Lists(d, Combinations(q.rels))
  BY DfsLists, QueriesAssumption
<1> HIDE DEF d
<1>2. /\ n \in Nat /\ n \in DOMAIN d /\ 1 .. n = (1 .. (n - 1)) \cup {n}
      /\ \A k \in 1 .. (n - 1) : k \in DOMAIN d /\ k < n
  BY <1>1 DEF Lists, d
<1>3. f \in Combinations(q.rels)
  BY <1>1, <1>2 DEF Lists
<1>4. /\ Judgement(q, f) = "holds" <=> f \in A
      /\ Judgement(q, f) = "refused" => A = {}
  <2> HIDE DEF f
  <2> QED BY <1>3, JudgementIs
<1>5. z = IF a.rc # 0 THEN a
          ELSE IF Judgement(q, f) = "refused" THEN [a EXCEPT !.rc = -1]
          ELSE IF Judgement(q, f) = "holds" THEN [a EXCEPT !.rows = Append(@, Row(q, f))]
          ELSE a
  <2>1. Shown(q, f) = Row(q, f)
    <3> HIDE DEF f
    <3> QED BY <1>3, ShownIs
  <2> HIDE DEF f
  <2> QED BY <2>1 DEF Tried, Judgement
<1>6. PICK s : Printed(q, n - 1, a, s)
  BY DEF SoFar
<1>7. a \in States(q) /\ (a.rc # 0 => A = {})
  BY DEF SoFar
<1>8. /\ s \in Seq(A) /\ a.rows = [i \in DOMAIN s |-> Row(q, s[i])]
      /\ \A i, j \in DOMAIN s : i < j => Before(s[i], s[j])
      /\ \A i \in DOMAIN s : \E k \in 1 .. (n - 1) : s[i] = d[k]
      /\ \A k \in 1 .. (n - 1) : d[k] \in A => \E i \in DOMAIN s : s[i] = d[k]
  BY <1>6 DEF Printed, d
<1> HIDE DEF f, z, A
<1>9. CASE f \notin A
  <2>1. z \in States(q) /\ z.rows = a.rows /\ (z.rc # 0 => A = {})
    BY <1>4, <1>5, <1>7, <1>9 DEF States
  <2>2. Printed(q, n, z, s)
    <3>1. d[n] \notin A
      BY <1>9 DEF f
    <3>2. \A k \in 1 .. n : d[k] \in A => \E i \in DOMAIN s : s[i] = d[k]
      BY <1>2, <1>8, <3>1
    <3>3. \A i \in DOMAIN s : \E k \in 1 .. n : s[i] = d[k]
      BY <1>2, <1>8
    <3> QED BY <1>8, <2>1, <3>2, <3>3 DEF Printed, d, A
  <2> QED BY <2>1, <2>2 DEF SoFar, z, f, d, A
<1>10. CASE f \in A
  <2> DEFINE t == Append(s, f)
             x == Row(q, f)
  <2>1. z = [a EXCEPT !.rows = Append(@, x)] /\ z.rc = 0
    BY <1>4, <1>5, <1>7, <1>10 DEF States
  <2>2. /\ t \in Seq(A) /\ Len(t) = Len(s) + 1 /\ t[Len(s) + 1] = f
        /\ \A i \in 1 .. Len(s) : t[i] = s[i]
    BY <1>8, <1>10, AppendProperties
  <2>3. Len(s) \in Nat /\ DOMAIN s = 1 .. Len(s) /\ DOMAIN t = 1 .. (Len(s) + 1)
    BY <1>8, <2>2
  <2>4. z.rows = Append(a.rows, x) /\ z \in States(q)
    <3>1. x \in R
      BY <1>10 DEF A
    <3>2. a \in [rc : {0, -1}, rows : Seq(R)]
      BY <1>7 DEF States, A
    <3> HIDE DEF R, x
    <3>3. z.rows = Append(a.rows, x) /\ z \in [rc : {0, -1}, rows : Seq(R)]
      <4>1. Append(a.rows, x) \in Seq(R)
        BY <3>1, <3>2, AppendProperties
      <4> QED BY <2>1, <3>2, <4>1
    <3> QED BY <3>3 DEF States, R, A
  <2> HIDE DEF t
  <2>5. z.rows = [i \in DOMAIN t |-> Row(q, t[i])]
    <3> DEFINE p == a.rows
    <3>1. p = [i \in 1 .. Len(s) |-> Row(q, s[i])] /\ p \in Seq(R)
      BY <1>7, <1>8, <2>3 DEF States, A
    <3>2. x \in R
      BY <1>10 DEF A
    <3> HIDE DEF p, R, x
    <3>3. Len(p) = Len(s)
      BY <2>3, <3>1
    <3>4. /\ Append(p, x) \in Seq(R) /\ Len(Append(p, x)) = Len(s) + 1
          /\ Append(p, x)[Len(s) + 1] = x /\ \A i \in 1 .. Len(s) : Append(p, x)[i] = p[i]
      BY <3>1, <3>2, <3>3, AppendProperties
    <3>5. Append(p, x) = [i \in 1 .. (Len(s) + 1) |-> Append(p, x)[i]]
      <4> DEFINE w == Append(p, x)
      <4>1. w \in Seq(R) /\ Len(w) = Len(s) + 1
        BY <3>4
      <4> HIDE DEF w
      <4>2. w = [i \in 1 .. (Len(s) + 1) |-> w[i]]
        BY <4>1
      <4> QED BY <4>2 DEF w
    <3>6. ASSUME NEW i \in 1 .. (Len(s) + 1) PROVE Append(p, x)[i] = Row(q, t[i])
      <4>1. CASE i = Len(s) + 1
        BY <2>2, <3>4, <4>1 DEF x
      <4>2. CASE i # Len(s) + 1
        <5>1. i \in 1 .. Len(s)
          BY <2>3, <4>2
        <5> QED BY <2>2, <3>1, <3>4, <5>1
      <4> QED BY <4>1, <4>2
    <3> QED BY <2>3, <2>4, <3>5, <3>6 DEF p
  <2>6. ASSUME NEW i \in DOMAIN t, NEW j \in DOMAIN t, i < j PROVE Before(t[i], t[j])
    <3>1. i \in 1 .. Len(s) /\ t[i] = s[i]
      BY <2>2, <2>3, <2>6
    <3>2. CASE j \in 1 .. Len(s)
      BY <1>8, <2>2, <2>3, <2>6, <3>1, <3>2
    <3>3. CASE j = Len(s) + 1
      <4>1. PICK k \in 1 .. (n - 1) : s[i] = d[k]
        BY <1>8, <2>3, <3>1
      <4>2. Before(d[k], d[n])
        BY <1>1, <1>2, <4>1 DEF Lists
      <4> QED BY <2>2, <3>1, <3>3, <4>1, <4>2 DEF f
    <3> QED BY <2>3, <3>2, <3>3
  <2>7. ASSUME NEW i \in DOMAIN t PROVE \E k \in 1 .. n : t[i] = d[k]
    <3>1. CASE i \in 1 .. Len(s)
      BY <1>2, <1>8, <2>2, <2>3, <3>1
    <3>2. CASE i = Len(s) + 1
      BY <1>2, <2>2, <3>2 DEF f
    <3> QED BY <2>3, <3>1, <3>2
  <2>8. ASSUME NEW k \in 1 .. n, d[k] \in A PROVE \E i \in DOMAIN t : t[i] = d[k]
    <3>1. CASE k = n
      BY <2>2, <2>3, <3>1 DEF f
    <3>2. CASE k # n
      <4>1. PICK i \in DOMAIN s : s[i] = d[k]
        BY <1>2, <1>8, <2>8, <3>2
      <4> QED BY <2>2, <2>3, <4>1
    <3> QED BY <3>1, <3>2
  <2>9. Printed(q, n, z, t)
    BY <2>2, <2>5, <2>6, <2>7, <2>8 DEF Printed, d, A
  <2> QED BY <2>1, <2>4, <2>9 DEF SoFar, z, f, d
<1> QED BY <1>9, <1>10

LEMMA SelectIs ==
  ASSUME recs \in Contents, NEW q \in Queries, Resolved(q)
  PROVE  SoFar(q, Len(Dfs(q.rels)), Select(q))
<1> DEFINE d == Dfs(q.rels)
           N == Len(d)
           S == States(q)
           x == [rc |-> 0, rows |-> << >>]
           G    == [l \in 0 .. N |-> {a \in S : SoFar(q, l, a)}]
           step == [l \in 1 .. N |-> [a \in S |-> Tried(q, a, d[l])]]
<1>1. N \in Nat
  BY DfsLists, QueriesAssumption DEF Lists
<1>2. SoFar(q, 0, x)
  <2>1. Printed(q, 0, x, << >>)
    BY DEF Printed
  <2>2. x \in S
    BY DEF States
  <2> QED BY <2>1, <2>2 DEF SoFar
<1>3. ASSUME NEW l \in 1 .. N, NEW a, SoFar(q, l - 1, a) PROVE SoFar(q, l, Tried(q, a, d[l]))
  BY <1>3, TriedKeeps
<1>4. \A l, a : SoFar(q, l, a) => a \in S
  BY DEF SoFar
<1> HIDE DEF d, S, x
<1>5. Stays(N, S, G, x, step)
  <2>1. \A l \in 0 .. N : G[l] \subseteq S
    OBVIOUS
  <2>2. x \in G[0]
    BY <1>1, <1>2, <1>4
  <2>3. ASSUME NEW l \in 1 .. N, NEW a \in G[l - 1] PROVE step[l][a] \in G[l]
    <3>1. l \in 0 .. N /\ l - 1 \in 0 .. N
      BY <1>1
    <3>2. a \in S /\ SoFar(q, l - 1, a)
      BY <3>1
    <3>3. step[l][a] = Tried(q, a, d[l])
      BY <3>2
    <3>4. SoFar(q, l, Tried(q, a, d[l]))
      BY <1>3, <3>2
    <3> QED BY <1>4, <3>1, <3>3, <3>4
  <2> HIDE DEF G, step
  <2> QED BY <1>1, <2>1, <2>2, <2>3 DEF Stays
<1>6. \E f \in [0 .. N -> S] :
        \A l \in 0 .. N : f[l] = (IF l = 0 THEN x ELSE step[l][f[l - 1]]) /\ f[l] \in G[l]
  <2> HIDE DEF G, step, N
  <2> QED BY ONLY <1>5, Stages
<1>7. PICK f \in [0 .. N -> S] :
        \A l \in 0 .. N : f[l] = (IF l = 0 THEN x ELSE step[l][f[l - 1]]) /\ f[l] \in G[l]
  BY <1>6
<1> DEFINE upto[n \in 0 .. N] == IF n = 0 THEN x ELSE Tried(q, upto[n - 1], d[n])
<1>8. upto = [n \in 0 .. N |-> IF n = 0 THEN x ELSE Tried(q, upto[n - 1], d[n])]
  <2>1. f = [n \in 0 .. N |-> IF n = 0 THEN x ELSE Tried(q, f[n - 1], d[n])]
    <3>1. ASSUME NEW l \in 0 .. N, l # 0 PROVE step[l][f[l - 1]] = Tried(q, f[l - 1], d[l])
      <4>1. l \in 1 .. N /\ l - 1 \in 0 .. N
        BY <1>1, <3>1
      <4> QED BY <4>1
    <3> HIDE DEF step
    <3> QED BY <3>1, <1>7
  <2> QED BY <2>1
<1>9. Select(q) = upto[N]
  BY DEF Select, d, x
<1> HIDE DEF upto
<1> DEFINE T == {l \in 0 .. N : SoFar(q, l, upto[l])}
<1>10. \A l \in 0 .. N : l \in T
  <2>1. 0 \in T
    BY <1>1, <1>2, <1>8
  <2>2. ASSUME NEW l \in 1 .. N, l - 1 \in T PROVE l \in T
    <3>1. upto[l] = Tried(q, upto[l - 1], d[l]) /\ l \in 0 .. N
      <4>1. l \in 0 .. N /\ l # 0
        BY <1>1
      <4> QED BY <4>1, <1>8
    <3>2. SoFar(q, l - 1, upto[l - 1])
      BY <2>2
    <3>3. SoFar(q, l, Tried(q, upto[l - 1], d[l]))
      BY <1>3, <3>2
    <3> QED BY <3>1, <3>3
  <2> HIDE DEF T, N
  <2> QED BY <1>1, <2>1, <2>2, Throughout
<1>11. SoFar(q, N, Select(q))
  <2> HIDE DEF N
  <2> QED BY <1>1, <1>9, <1>10
<1> QED BY <1>11 DEF d

(* Whatever the records and the relations, and whatever the conditions of a *)
(* query that is Resolved - they name the relations of both columns or of   *)
(* neither; where the right one only is named, its name is ignored - SELECT *)
(* prints the rows of the product that satisfy the conditions, each once    *)
(* and in order, and none before it is refused (ql.cc:21-306 and 707-738).  *)
THEOREM SelectsPrintAnswers == Spec => []SelectPrintsAnswers
<1>1. CallInv => SelectPrintsAnswers
  <2> SUFFICES ASSUME CallInv, NEW q \in Queries, Resolved(q)
               PROVE  LET rows == Select(q).rows
                      IN  \E s \in [DOMAIN rows -> Answers(q)] :
                            Enumerates(s, Answers(q)) /\ rows = [i \in DOMAIN s |-> Row(q, s[i])]
    BY DEF SelectPrintsAnswers
  <2> DEFINE d == Dfs(q.rels)
             A == Answers(q)
             rows == Select(q).rows
  <2>1. recs \in Contents /\ q.rels \in Seq(Tables)
    BY QueriesAssumption DEF CallInv, TypeOK
  <2>2. SoFar(q, Len(d), Select(q))
    BY <2>1, SelectIs
  <2>3. PICK s : Printed(q, Len(d), Select(q), s)
    BY <2>2 DEF SoFar
  <2>4. /\ s \in Seq(A) /\ rows = [i \in DOMAIN s |-> Row(q, s[i])]
        /\ \A i, j \in DOMAIN s : i < j => Before(s[i], s[j])
        /\ \A k \in 1 .. Len(d) : d[k] \in A => \E i \in DOMAIN s : s[i] = d[k]
    BY <2>3 DEF Printed
  <2>5. Lists(d, Combinations(q.rels)) /\ A \subseteq Combinations(q.rels)
    BY <2>1, DfsLists DEF Answers
  <2> HIDE DEF d, A, rows
  <2>6. ASSUME NEW f \in A PROVE \E i \in DOMAIN s : s[i] = f
    <3>1. PICK k \in DOMAIN d : d[k] = f
      BY <2>5 DEF Lists
    <3>2. k \in 1 .. Len(d)
      BY <2>5 DEF Lists
    <3> QED BY <2>4, <3>1, <3>2
  <2>7. Enumerates(s, A)
    BY <2>4, <2>6 DEF Enumerates, ToSet
  <2>8. s \in [DOMAIN rows -> A]
    BY <2>4
  <2> QED BY <2>4, <2>7, <2>8 DEF A, rows
<1> QED BY <1>1, AlwaysCallInv, PTL
=============================================================================
