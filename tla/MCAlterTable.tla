--------------------------- MODULE MCAlterTable ---------------------------
(* A small instance of AlterTable: tables of up to three columns and ALTERs of
   at most MaxParts clauses of different kinds. *)
EXTENDS AlterTable, FiniteSets, TLC

CONSTANTS col1, col2, col3, int, bigint, lit1, lit2, lit3, expr, volatile, seqexpr, MaxParts

(* A column [name, type, nullability, default] without special attributes. *)
Col(name, type, notnull, def) ==
    [name |-> name, type |-> type, notnull |-> notnull, def |-> def,
     on_update |-> FALSE, auto |-> FALSE, odd |-> FALSE]

KeyCol == Col(col1, int, TRUE, NoDefault)

AllExprs == {expr, volatile}

(* lit1 and lit2 differ in case, say. *)
SortKeys == (lit1 :> 1) @@ (lit2 :> 1) @@ (lit3 :> 2)

AllDefinitions ==
    {[columns |-> <<KeyCol, Col(col2, int, FALSE, lit1)>>, pk |-> {}],
     [columns |-> <<KeyCol, Col(col2, int, FALSE, seqexpr)>>, pk |-> {col1}],
     [columns |-> <<[KeyCol EXCEPT !.auto = TRUE], Col(col2, int, TRUE, NoDefault)>>,
      pk |-> {col1}]}

One(n, v) == [x \in {n} |-> v]

NoChange == [x \in {} |-> {}]

Drops == {{col2}, {col1}}

Changes ==
    {One(col2, new) : new \in {Col(col2, int, TRUE, NoDefault), Col(col3, bigint, FALSE, expr),
        Col(col2, int, FALSE, seqexpr), [Col(col2, int, FALSE, Null) EXCEPT !.odd = TRUE]}}
    \cup {One(col1, Col(col2, int, TRUE, lit1)),
          (col1 :> Col(col2, int, TRUE, NoDefault)) @@ (col2 :> Col(col1, int, FALSE, Null))}

Adds ==
    {<<new>> : new \in {Col(col3, int, TRUE, NoDefault), Col(col3, int, FALSE, expr),
        Col(col3, int, TRUE, volatile), Col(col3, int, TRUE, seqexpr), Col(col2, int, FALSE, Null),
        [Col(col3, int, FALSE, Null) EXCEPT !.on_update = TRUE]}}

SetDefaults ==
    {One(col2, def) : def \in {Null, lit2, lit3, seqexpr}} \cup {One(col1, NoDefault)}

Parts(s) ==
    Cardinality({i \in 1 .. 6 :
        <<s.drop # {}, s.change # NoChange, s.add # <<>>, s.setdef # NoChange,
          s.add_pk # {} \/ s.drop_pk, s.order>>[i]})

(* A key on col2 is added to a table without one; one on col3 replaces a key. *)
KeyAsChosen(s) == s.add_pk # {} => (s.drop_pk <=> s.add_pk = {col3})

AllAlters ==
    {s \in [drop : {{}} \cup Drops, change : {NoChange} \cup Changes,
            add : {<<>>} \cup Adds, setdef : {NoChange} \cup SetDefaults,
            add_pk : {{}, {col2}, {col3}}, drop_pk : BOOLEAN, order : BOOLEAN] :
        Parts(s) \in 1 .. MaxParts /\ KeyAsChosen(s)}
=============================================================================
