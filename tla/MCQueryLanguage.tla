--------------------------- MODULE MCQueryLanguage ---------------------------
(* Two tables with a column name in common, two records each: conditions    *)
(* that hold, fail and are refused, the latter behind one that fails, and   *)
(* statements of several calls, one of which is refused, and values of      *)
(* another type than their column's, read as 0 or 1.  Update is given no    *)
(* NULL on the right, which it does not look for.                           *)
EXTENDS QueryLanguage

Num(n) == [type |-> "INT", v |-> n]
Text(n) == [type |-> "STRING", v |-> n]
MCSchema ==
  [t |-> <<[name |-> "a", type |-> "INT", notNull |-> TRUE],
           [name |-> "b", type |-> "STRING", notNull |-> FALSE]>>,
   u |-> <<[name |-> "a", type |-> "INT", notNull |-> FALSE]>>]

InsertInto(table, values) == [kind |-> "insert", table |-> table, values |-> values]
DeleteFrom(table, conds)  == [kind |-> "delete", table |-> table, conds |-> conds]
UpdateOf(table, name, value, conds) ==
  [kind |-> "update", table |-> table, set |-> [name |-> name, value |-> value], conds |-> conds]

Is(rel, name, op, value) ==
  [lhs |-> [rel |-> rel, name |-> name], op |-> op, rhsIsAttr |-> FALSE, value |-> value,
   rhs |-> [rel |-> None, name |-> ""]]
IsColumn(lrel, lname, op, rrel, rname) ==
  [lhs |-> [rel |-> lrel, name |-> lname], op |-> op, rhsIsAttr |-> TRUE, value |-> None,
   rhs |-> [rel |-> rrel, name |-> rname]]

Inserts ==
  {<<InsertInto("t", <<Num(0), None>>)>>, <<InsertInto("t", <<Num(1), Text(1)>>)>>,
   <<InsertInto("u", <<Num(1)>>)>>, <<InsertInto("u", <<None>>)>>,
   <<InsertInto("t", <<Text(1), Num(1)>>)>>, <<InsertInto("u", <<Text(1)>>)>>, <<InsertInto("t", <<Num(1)>>)>>,
   <<InsertInto("t", <<None, Text(1)>>), InsertInto("t", <<Num(1), None>>)>>,
   <<InsertInto("u", <<Num(0), Num(1)>>), InsertInto("u", <<Num(1)>>)>>}

Wheres ==
  {<<Is(None, "a", "EQ", Num(0))>>, <<Is(None, "b", "NE", Text(1))>>, << >>,
   <<Is(None, "a", "GE", Num(1)), Is(None, "b", "LT", Text(1))>>,
   <<Is(None, "a", "GT", Num(0)), Is(None, "b", "EQ", Num(1))>>,
   <<Is(None, "a", "LE", Num(0)), Is(None, "c", "EQ", Num(1))>>,
   <<IsColumn(None, "a", "EQ", None, "a")>>, <<IsColumn(None, "a", "EQ", None, "b")>>}

Deletes == {<<DeleteFrom("t", w)>> : w \in Wheres \cup {<<Is(None, "b", "EQ", None)>>,
              <<Is(None, "b", "NE", None)>>, <<Is(None, "a", "EQ", None)>>}}
           \cup {<<DeleteFrom("u", <<Is(None, "a", "EQ", Num(1))>>)>>}

Updates == {<<UpdateOf("t", "a", Num(1), w)>> : w \in Wheres}
           \cup {<<UpdateOf("t", "b", Text(1), << >>), UpdateOf("t", "a", Text(1), << >>)>>,
                 <<UpdateOf("t", "c", Num(1), << >>), UpdateOf("t", "a", Num(0), << >>)>>}

MCStatements == Inserts \cup Deletes \cup Updates

\* Columns are named with their relation on both sides or on neither, as the
\* right one is looked for the way the left one is; the relations have them.
OfT == {Is(None, "b", "EQ", None), Is("t", "b", "NE", None), Is("t", "a", "LT", Num(1)),
        Is(None, "b", "EQ", Text(1)), Is("t", "a", "EQ", Text(1)), IsColumn(None, "a", "EQ", None, "b")}
OfU == {Is("u", "a", "GE", Num(1)), Is("u", "a", "EQ", None)}
OfAny  == {Is(None, "a", "EQ", Num(0)), IsColumn(None, "a", "LE", None, "a")}
OfBoth == {IsColumn("u", "a", "EQ", "t", "a"), IsColumn("t", "a", "GT", "u", "a"),
           IsColumn(None, "b", "NE", None, "b")}

UpToTwo(conds) == {<< >>} \cup {<<c>> : c \in conds} \cup {<<c, d>> : c \in conds, d \in conds}
Selects(rels, conds, cols) ==
  {[rels |-> r, conds |-> w, all |-> c = << >>, cols |-> c] :
     r \in rels, w \in UpToTwo(conds), c \in cols \cup {<< >>}}

MCQueries ==
  Selects({<<"u">>}, OfU \cup OfAny, {})
  \cup Selects({<<"t">>, <<"t", "t">>}, OfT \cup OfAny, {<<[rel |-> None, name |-> "b"]>>})
  \cup Selects({<<"t", "u">>, <<"u", "t">>}, OfBoth \cup OfU \cup OfAny,
               {<<[rel |-> "t", name |-> "a"], [rel |-> None, name |-> "a"]>>})
=============================================================================
