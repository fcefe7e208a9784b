----------------------------- MODULE MCCatalogue -----------------------------
(* A table with a primary key, one whose key is refused because it may be   *)
(* null, and one that refers to the first, which is refused where the first *)
(* is not there or is the table itself.  Without a constraint, a table may  *)
(* be given a key or an index later (IndexedLost).                          *)
EXTENDS Catalogue, TLC
CONSTANTS d1, t, u

Primary(name, attrs) == [NoConstraint EXCEPT !.primary = TRUE, !.name = name, !.this = attrs]
Foreign(name, attrs, table, refs) ==
  [NoConstraint EXCEPT !.name = name, !.this = attrs, !.foreign = table, !.refs = refs]

MCDeclarations ==
  {[attrs |-> {0}, notNull |-> {0}, cons |-> <<Primary("PrimaryKey", <<0>>)>>],
   [attrs |-> {0}, notNull |-> {},  cons |-> <<Primary("PrimaryKey", <<0>>)>>],
   [attrs |-> {0}, notNull |-> {0}, cons |-> <<Foreign("f", <<0>>, t, <<0>>)>>]}

MCPlain    == {[attrs |-> {0, 1}, notNull |-> {0}, cons |-> << >>]}
MCKeyLists == {<<0>>, <<1>>}
=============================================================================
