---------------------------- MODULE QueryLanguage ----------------------------
(***************************************************************************)
(* querylanguage/ql.cc and the visits of parser/ast.cc that call it:       *)
(* statements about the records of tables.                                 *)
(*                                                                         *)
(* A table is a record file as RecordStore has it: records under record    *)
(* ids, scanned in their order, a new one under the lowest that is free.   *)
(* A column is a record of its name, its type and whether it is not null;  *)
(* a value has a type and a number that stands for what is stored of it.   *)
(* 0 stands for the zeros that are stored for NULL: the number 0 or the    *)
(* empty string.                                                           *)
(*                                                                         *)
(* A statement is one or more calls of QL_Manager, a call one or more      *)
(* writes of a record.  The program may die before each.  An UPDATE of the *)
(* grammar has no conditions; those of QL_Manager::Update are called too.  *)
(***************************************************************************)
EXTENDS Integers, Sequences, SequencesExt, FiniteSetsExt

CONSTANTS Schema,      \* table -> its columns
          MaxRid,      \* records a table may have: a file is never full here
          Statements,  \* statements about records
          Queries,     \* SELECT statements
          Misread,     \* what bytes of one type may be read as in a column of another
          None         \* no record, no relation name, no statement, no data

Tables == DOMAIN Schema
Rids   == 1 .. MaxRid

Value  == [type : STRING, v : Nat]

ASSUME QueryAssumption ==
  /\ MaxRid \in Nat
  /\ \A t \in Tables : /\ Schema[t] \in Seq([name : STRING, type : STRING, notNull : BOOLEAN])
                      /\ \A i, j \in DOMAIN Schema[t] :
                           Schema[t][i].name = Schema[t][j].name => i = j
  /\ None \notin Value /\ None \notin Seq(Value)
  /\ Misread \subseteq Nat /\ Misread # {}

\* Conditions of QL_Manager::Delete and Update, which name columns of the table
\* or of no table; Update is given no NULL on the right (ql.cc:633 does not look).
Conditions(call) ==
  LET OwnColumn == [rel : {call.table, None}, name : STRING]
  IN  {c \in [lhs : OwnColumn, op : {"EQ", "NE", "LT", "GE", "GT", "LE"}, rhsIsAttr : BOOLEAN,
              rhs : OwnColumn, value : Value \cup {None}] :
         call.kind = "update" => c.rhsIsAttr \/ c.value # None}

AllCalls == UNION {{s[k] : k \in DOMAIN s} : s \in Statements}

ASSUME StatementAssumption ==
  /\ Statements \subseteq Seq(AllCalls)
  /\ \A call \in AllCalls :
       /\ call.table \in Tables
       /\ \/ call.kind = "insert" /\ call.values \in Seq(Value \cup {None})
          \/ /\ call.kind \in {"delete", "update"}
             /\ call.conds \in Seq(Conditions(call))
             /\ call.kind = "update" => call.set.value \in Value

\* Columns of SELECT: the relation is one of the query's, or none is named and one
\* of them has the column.  A condition that names the relation of the left column
\* names that of the right one, which is compared (ql.cc:115).
Named(rels, col) ==
  \E i \in DOMAIN rels : /\ col.rel \in {rels[i], None}
                         /\ \E j \in DOMAIN Schema[rels[i]] : Schema[rels[i]][j].name = col.name

SelectConditions(rels) ==
  {c \in [lhs : [rel : Tables \cup {None}, name : STRING],
          op : {"EQ", "NE", "LT", "GE", "GT", "LE"}, rhsIsAttr : BOOLEAN,
          rhs : [rel : Tables \cup {None}, name : STRING], value : Value \cup {None}] :
     /\ Named(rels, c.lhs)
     /\ c.rhsIsAttr => Named(rels, c.rhs) /\ (c.lhs.rel # None => c.rhs.rel # None)}

ASSUME QueriesAssumption ==
  \A q \in Queries : /\ q.rels \in Seq(Tables) /\ q.conds \in Seq(SelectConditions(q.rels))
                     /\ ~q.all => \A k \in DOMAIN q.cols : Named(q.rels, q.cols[k])

VARIABLES recs,    \* table -> record id -> record or None
          calls,   \* calls the statement has left, the one under way first
          todo,    \* record ids the call under way has left to write, lowest first
          phase,   \* "idle" or, in a call of Delete or Update, "writing"
          rc,      \* what the last call answered: 0 or -1
          start    \* history: recs when the call under way or the last one began

vars == <<recs, calls, todo, phase, rc, start>>

Init == /\ recs = [t \in Tables |-> [r \in Rids |-> None]]
        /\ calls = << >> /\ todo = {} /\ phase = "idle" /\ rc = 0
        /\ start = recs

RidsOf(t) == {r \in Rids : recs[t][r] # None}

\* A scan with NO_OP from the first record to RM_EOF.
Scan(t) ==
  LET upto[r \in 0 .. MaxRid] ==
        IF r = 0 THEN << >>
        ELSE IF recs[t][r] = None THEN upto[r - 1] ELSE Append(upto[r - 1], r)
  IN  upto[MaxRid]

-----------------------------------------------------------------------------
(* Conditions: a left column [rel, name], an operator and a right side,     *)
(* which is a column or a value.                                            *)

\* GetCheckFunction.
CheckFunction(op, x, y) ==
  \/ op = "EQ" /\ x = y
  \/ op = "NE" /\ x # y
  \/ op = "LT" /\ x < y
  \/ op = "GE" /\ x >= y
  \/ op = "GT" /\ x > y
  \/ op = "LE" /\ x <= y

ColumnsNamed(t, name) == {j \in DOMAIN Schema[t] : Schema[t][j].name = name}
Has(t, name)          == ColumnsNamed(t, name) # {}
Column(t, name)       == Min(ColumnsNamed(t, name))
TypeIn(t, name)       == Schema[t][Column(t, name)].type
ValueIn(t, r, name)   == recs[t][r][Column(t, name)].v

\* A verdict, "holds", "fails" or "refused" (-1), for two sides of these types.
Compared(op, x, tx, y, ty) ==
  IF tx # ty THEN "refused" ELSE IF CheckFunction(op, x, y) THEN "holds" ELSE "fails"

\* Where NULL is on the right, for IS NULL and IS NOT NULL.
ComparedToNull(op, x, tx) ==
  IF tx # "STRING" THEN "refused"
  ELSE IF (op = "EQ" /\ x = 0) \/ (op = "NE" /\ x > 0) THEN "holds" ELSE "fails"

\* Mutant of Verdict: the last condition decides.
VerdictOfLast(judged) == IF judged = << >> THEN "holds" ELSE Last(judged)

\* The conditions are tried in turn until one does not hold.
Verdict(judged) == LET others == {k \in DOMAIN judged : judged[k] # "holds"}
                   IN  IF others = {} THEN "holds" ELSE judged[Min(others)]

-----------------------------------------------------------------------------
(* SELECT.                                                                  *)

\* Each combination with each of the records, which run faster.
Extended(combos, rids) ==
  [k \in 1 .. (Len(combos) * Len(rids)) |->
    Append(combos[((k - 1) \div Len(rids)) + 1], rids[((k - 1) % Len(rids)) + 1])]

\* Dfs: the combinations of records, the last relation running fastest.
Dfs(rels) ==
  LET upto[n \in 0 .. Len(rels)] ==
        IF n = 0 THEN << << >> >> ELSE Extended(upto[n - 1], Scan(rels[n]))
  IN  upto[Len(rels)]

\* Mutant of RelationOf: the last relation that has such a column.
LastRelationOf(rels, col, qualified) ==
  IF qualified THEN Min({i \in DOMAIN rels : rels[i] = col.rel})
  ELSE Max({i \in DOMAIN rels : Has(rels[i], col.name)})

\* The relation a column is looked for in: the one named, or the first that has it.
RelationOf(rels, col, qualified) ==
  IF qualified THEN Min({i \in DOMAIN rels : rels[i] = col.rel})
  ELSE Min({i \in DOMAIN rels : Has(rels[i], col.name)})

\* How the right column is looked for is decided by the left one.
JudgedRow(rels, combo, c) ==
  LET l  == RelationOf(rels, c.lhs, c.lhs.rel # None)
      r  == RelationOf(rels, c.rhs, c.lhs.rel # None)
      x  == ValueIn(rels[l], combo[l], c.lhs.name)
      tx == TypeIn(rels[l], c.lhs.name)
  IN  IF c.rhsIsAttr
      THEN Compared(c.op, x, tx, ValueIn(rels[r], combo[r], c.rhs.name), TypeIn(rels[r], c.rhs.name))
      ELSE IF c.value = None THEN ComparedToNull(c.op, x, tx)
      ELSE Compared(c.op, x, tx, c.value.v, c.value.type)

\* What is printed of a combination: all of it, or the columns selected.
Shown(q, combo) ==
  IF q.all THEN FlattenSeq([i \in DOMAIN combo |-> recs[q.rels[i]][combo[i]]])
  ELSE [k \in DOMAIN q.cols |->
         LET i == RelationOf(q.rels, q.cols[k], q.cols[k].rel # None)
         IN  recs[q.rels[i]][combo[i]][Column(q.rels[i], q.cols[k].name)]]

\* A combination, where a is what was answered and printed so far.
Tried(q, a, combo) ==
  LET v == Verdict([k \in DOMAIN q.conds |-> JudgedRow(q.rels, combo, q.conds[k])])
  IN  IF a.rc # 0 THEN a
      ELSE IF v = "refused" THEN [a EXCEPT !.rc = -1]
      ELSE IF v = "holds" THEN [a EXCEPT !.rows = Append(@, Shown(q, combo))]
      ELSE a

\* What SELECT prints before it ends, or is refused at some combination.
Select(q) ==
  LET combos == Dfs(q.rels)
      upto[n \in 0 .. Len(combos)] ==
        IF n = 0 THEN [rc |-> 0, rows |-> << >>] ELSE Tried(q, upto[n - 1], combos[n])
  IN  upto[Len(combos)]

-----------------------------------------------------------------------------
(* Insert.                                                                  *)

\* Mutant of Insertable: too few values are taken.
InsertableWithFewer(t, values) ==
  /\ Len(values) <= Len(Schema[t])
  /\ \A i \in DOMAIN values : values[i] = None => ~Schema[t][i].notNull

\* The values are counted, and NULL is refused where a column is not null.
Insertable(t, values) ==
  /\ Len(values) = Len(Schema[t])
  /\ \A i \in DOMAIN values : values[i] = None => ~Schema[t][i].notNull

\* The record made of them: zeros for NULL, the bytes of a value otherwise, whatever
\* its type, and of the memory behind them.  Of a column of another type they are
\* read as some number or string.
RecordOf(t, values, read) ==
  [i \in DOMAIN values |->
    [type |-> Schema[t][i].type,
     v    |-> IF values[i] = None THEN 0
              ELSE IF values[i].type = Schema[t][i].type THEN values[i].v ELSE read[i]]]

-----------------------------------------------------------------------------
(* Delete and Update: the records the conditions select are found first.    *)

\* A column that is not there is refused; relation names are not looked at.  Only
\* Delete looks for NULL on the right: Update is given none.
JudgedRecord(t, r, c) ==
  LET x  == ValueIn(t, r, c.lhs.name)
      tx == TypeIn(t, c.lhs.name)
  IN  IF ~Has(t, c.lhs.name) \/ (c.rhsIsAttr /\ ~Has(t, c.rhs.name)) THEN "refused"
      ELSE IF c.rhsIsAttr THEN Compared(c.op, x, tx, ValueIn(t, r, c.rhs.name), TypeIn(t, c.rhs.name))
      ELSE IF c.value = None THEN ComparedToNull(c.op, x, tx)
      ELSE Compared(c.op, x, tx, c.value.v, c.value.type)

VerdictOn(t, conds, r) == Verdict([k \in DOMAIN conds |-> JudgedRecord(t, r, conds[k])])

ScanRefused(t, conds) == \E r \in RidsOf(t) : VerdictOn(t, conds, r) = "refused"

Selected(t, conds) == {r \in RidsOf(t) : VerdictOn(t, conds, r) = "holds"}

-----------------------------------------------------------------------------
(* Actions.                                                                 *)

\* The visit of a statement calls QL_Manager for each list of values (Insert),
\* once (Delete), or for each assignment (Update), whatever the calls answer.
Visit(s) == /\ phase = "idle" /\ calls = << >>
            /\ calls' = s
            /\ UNCHANGED <<recs, todo, phase, rc, start>>

Call == Head(calls)

Answer(code) == /\ rc' = code
                /\ calls' = Tail(calls) /\ todo' = {} /\ phase' = "idle"

Insert ==
  /\ phase = "idle" /\ calls # << >> /\ Call.kind = "insert"
  /\ start' = recs
  /\ IF Insertable(Call.table, Call.values)
     THEN /\ RidsOf(Call.table) # Rids
          /\ \E read \in [DOMAIN Call.values -> Misread] :
               recs' = [recs EXCEPT ![Call.table][Min(Rids \ RidsOf(Call.table))] =
                          RecordOf(Call.table, Call.values, read)]
          /\ Answer(0)
     ELSE UNCHANGED recs /\ Answer(-1)

\* Delete and Update: the scan.
Find ==
  /\ phase = "idle" /\ calls # << >> /\ Call.kind \in {"delete", "update"}
  /\ start' = recs
  /\ UNCHANGED recs
  /\ IF ScanRefused(Call.table, Call.conds) THEN Answer(-1)
     ELSE /\ todo' = Selected(Call.table, Call.conds)
          /\ phase' = "writing"
          /\ UNCHANGED <<calls, rc>>

\* Mutant of DeleteOne: the last record moves into the place.
DeleteOneCompacting ==
  LET t    == Call.table
      last == Max(RidsOf(t))
  IN  /\ phase = "writing" /\ todo # {} /\ Call.kind = "delete"
      /\ recs' = [recs EXCEPT ![t] = [[@ EXCEPT ![Min(todo)] = recs[t][last]] EXCEPT ![last] = None]]
      /\ todo' = todo \ {Min(todo)}
      /\ UNCHANGED <<calls, phase, rc, start>>

\* DeleteRecord of the next record.
DeleteOne ==
  /\ phase = "writing" /\ todo # {} /\ Call.kind = "delete"
  /\ recs' = [recs EXCEPT ![Call.table][Min(todo)] = None]
  /\ todo' = todo \ {Min(todo)}
  /\ UNCHANGED <<calls, phase, rc, start>>

Assignable == /\ Has(Call.table, Call.set.name)
              /\ Call.set.value.type = TypeIn(Call.table, Call.set.name)

\* Mutant of UpdateOne: the type is looked at when the record has been written.
UpdateOneFirst ==
  /\ phase = "writing" /\ todo # {} /\ Call.kind = "update" /\ Has(Call.table, Call.set.name)
  /\ recs' = [recs EXCEPT ![Call.table][Min(todo)][Column(Call.table, Call.set.name)] =
                 Call.set.value]
  /\ UNCHANGED start
  /\ IF Assignable THEN todo' = todo \ {Min(todo)} /\ UNCHANGED <<calls, phase, rc>> ELSE Answer(-1)

\* UpdateRecord of the next record, as the scan found it but for the column.
UpdateOne ==
  /\ phase = "writing" /\ todo # {} /\ Call.kind = "update"
  /\ UNCHANGED start
  /\ IF Assignable
     THEN /\ recs' = [recs EXCEPT ![Call.table][Min(todo)][Column(Call.table, Call.set.name)] =
                        Call.set.value]
          /\ todo' = todo \ {Min(todo)}
          /\ UNCHANGED <<calls, phase, rc>>
     ELSE UNCHANGED recs /\ Answer(-1)

Return == phase = "writing" /\ todo = {} /\ Answer(0) /\ UNCHANGED <<recs, start>>

\* The program dies, and is started again with what was written.
Restart == /\ calls' = << >> /\ todo' = {} /\ phase' = "idle" /\ rc' = 0
           /\ start' = recs
           /\ UNCHANGED recs

Next == \/ \E s \in Statements : Visit(s)
        \/ Insert \/ Find \/ DeleteOne \/ UpdateOne \/ Return
        \/ Restart

Spec == Init /\ [][Next]_vars

-----------------------------------------------------------------------------
\* The meaning of a condition, said of the records alone: the value of a column
\* in a combination, and whether the condition holds.  None where it has none.
Meant(rels, combo, col) ==
  LET i == CHOOSE k \in DOMAIN rels :
             /\ IF col.rel = None THEN Has(rels[k], col.name) ELSE rels[k] = col.rel
             /\ \A m \in 1 .. (k - 1) :
                  IF col.rel = None THEN ~Has(rels[m], col.name) ELSE rels[m] # col.rel
      j == CHOOSE k \in DOMAIN Schema[rels[i]] : Schema[rels[i]][k].name = col.name
  IN  combo[i][j]

Satisfies(rels, combo, c) ==
  LET x == Meant(rels, combo, c.lhs)
      y == IF c.rhsIsAttr THEN Meant(rels, combo, c.rhs)
           ELSE IF c.value = None THEN [type |-> "STRING", v |-> 0] ELSE c.value
  IN  /\ x.type = y.type
      /\ c.rhsIsAttr \/ c.value # None \/ c.op \in {"EQ", "NE"}
      /\ c.op = "EQ" => x.v = y.v
      /\ c.op = "NE" => x.v # y.v
      /\ c.op = "LT" => x.v < y.v
      /\ c.op = "GE" => ~(x.v < y.v)
      /\ c.op = "GT" => y.v < x.v
      /\ c.op = "LE" => ~(y.v < x.v)

\* Its conditions name the relations of both columns or of neither.
Resolved(q) ==
  \A k \in DOMAIN q.conds :
    q.conds[k].rhsIsAttr => (q.conds[k].lhs.rel = None <=> q.conds[k].rhs.rel = None)

\* In the order of their record ids, the first relation first.
Before(f, g) == \E k \in DOMAIN f : f[k] < g[k] /\ \A m \in 1 .. (k - 1) : f[m] = g[m]

Content(rels, f) == [i \in DOMAIN f |-> recs[rels[i]][f[i]]]

Combinations(rels) ==
  {f \in [DOMAIN rels -> Rids] : \A i \in DOMAIN f : recs[rels[i]][f[i]] # None}

Answers(q) ==
  {f \in Combinations(q.rels) :
     \A k \in DOMAIN q.conds : Satisfies(q.rels, Content(q.rels, f), q.conds[k])}

Row(q, f) == IF q.all THEN FlattenSeq(Content(q.rels, f))
             ELSE [k \in DOMAIN q.cols |-> Meant(q.rels, Content(q.rels, f), q.cols[k])]

\* s has the combinations S, each once and in order.
Enumerates(s, S) ==
  ToSet(s) = S /\ \A i, j \in DOMAIN s : i < j => Before(s[i], s[j])

\* What a call that answers 0 makes of the records R: the records x it is about,
\* and what becomes of each.
Hit(call, x) ==
  x # None /\ \A k \in DOMAIN call.conds : Satisfies(<<call.table>>, <<x>>, call.conds[k])

Made(call, x) ==
  IF call.kind = "delete" THEN None
  ELSE [i \in DOMAIN x |-> IF Schema[call.table][i].name = call.set.name THEN call.set.value ELSE x[i]]

Effect(call, R) ==
  [R EXCEPT ![call.table] =
     [r \in Rids |-> LET x == R[call.table][r] IN IF Hit(call, x) THEN Made(call, x) ELSE x]]

-----------------------------------------------------------------------------
(* Records have a value of its type for each column of their table, and a   *)
(* call that is writing has records of its table to write.                  *)
Fits(t, x) == DOMAIN x = DOMAIN Schema[t] /\ \A i \in DOMAIN x : x[i].type = Schema[t][i].type
Contents == {R \in [Tables -> [Rids -> Seq(Value) \cup {None}]] :
               \A t \in Tables, r \in Rids : R[t][r] = None \/ Fits(t, R[t][r])}

TypeOK ==
  /\ recs \in Contents /\ start \in Contents
  /\ calls \in Seq(AllCalls)
  /\ phase \in {"idle", "writing"} /\ rc \in {0, -1}
  /\ phase = "idle" => todo = {}
  /\ phase = "writing" => /\ calls # << >> /\ Call.kind \in {"delete", "update"}
                          /\ todo \subseteq RidsOf(Call.table)

\* As a restart leaves every content: what SELECT prints depends on nothing else.
JustStarted == calls = << >> /\ phase = "idle" /\ rc = 0 /\ start = recs

(* Select (ql.cc:21-306, 707-738): whatever the order of relations and      *)
(* conditions, the rows printed are those of the product that satisfy the   *)
(* conditions, each once and in order, and nothing is printed before a      *)
(* condition turns out to compare values of different types.  Of queries    *)
(* that are Resolved: how the right column is looked for is decided by the  *)
(* left one (ql.cc:98-116), and the relation named on the right only would  *)
(* be ignored.                                                              *)
SelectPrintsAnswers ==
  JustStarted =>
    \A q \in Queries : Resolved(q) =>
      LET rows == Select(q).rows
      IN  \E s \in [DOMAIN rows -> Answers(q)] :
            Enumerates(s, Answers(q)) /\ rows = [i \in DOMAIN s |-> Row(q, s[i])]

(* Insert, Delete and Update: a call that answers -1 has changed nothing,   *)
(* although Update looks at what it assigns only between the writes.        *)
RefusedCallChangesNothing == rc = -1 /\ phase = "idle" => recs = start

(* Delete (ql.cc:383-538) and Update (540-705): when a call is about to      *)
(* answer 0, what was there at its start has become what the statement says *)
(* and nothing else has changed, although the records were chosen before    *)
(* the first was written.                                                   *)
CallHasItsEffect ==
  phase = "writing" /\ todo = {} => recs = Effect(Call, start)

(* A call that was cut short by a crash can be made again: from every state *)
(* between its writes it leads to what it would have led to.                *)
RepeatedCallCompletes ==
  phase = "writing" /\ (Call.kind = "update" => Assignable) =>
     Effect(Call, recs) = Effect(Call, start)
=============================================================================
