---------------------------- MODULE MCCrossEngine ----------------------------
(* CrossEngine for TLC: a DuckDB table d and external tables e, g and h. *)
EXTENDS CrossEngine

AllExternals == {"e", "g", "h"}

Rows == [n \in AllExternals |-> CASE n = "e" -> <<1, 2, 3, 4>>
                                  [] n = "g" -> <<1, 2, 3>>
                                  [] OTHER -> <<>>]

OwnRows == [Rows EXCEPT !["e"] = <<1, 2, 5, 4, 6>>]

Layouts == [n \in AllExternals |->
               IF n = "h" THEN "mixed" ELSE IF n = "g" THEN "trailing" ELSE "visible"]

Sel(tables, where) == [tables |-> tables, where |-> where]

Query(unit, limit, has, selects) ==
    [unit |-> unit, limit |-> limit, has |-> has, selects |-> selects]

(* A join with a condition on one table, the same with LIMIT, a scan without
   a condition, a UNION, a DuckDB table alone, and statements the server
   keeps for itself. *)
SimpleQueries ==
    {Query(FALSE, FALSE, {}, <<Sel(<<"d", "e">>, <<NoCond, {2, 3, 4, 5}>>)>>),
     Query(FALSE, TRUE, {}, <<Sel(<<"d", "e">>, <<NoCond, NoCond>>)>>),
     Query(FALSE, FALSE, {}, <<Sel(<<"d", "e", "g">>, <<{1}, NoCond, {1, 3}>>)>>),
     Query(TRUE, FALSE, {"side_effect"},
           <<Sel(<<"d">>, <<{2}>>), Sel(<<"e">>, <<{1, 2}>>)>>),
     Query(FALSE, FALSE, {}, <<Sel(<<"d">>, <<NoCond>>)>>),
     Query(FALSE, FALSE, {"side_effect"}, <<Sel(<<"d", "e">>, <<NoCond, NoCond>>)>>),
     Query(FALSE, FALSE, {}, <<Sel(<<"d", "h">>, <<NoCond, NoCond>>)>>),
     Query(FALSE, FALSE, {}, <<Sel(<<"e">>, <<NoCond>>)>>)}

(* They meet the hypotheses under which the results are proved exact. *)
ASSUME SimpleQueriesAreExact == \A q \in SimpleQueries : NamesOnce(q) /\ FiltersOwn(q)

(* The join with LIMIT. *)
LimitQueries == {q \in SimpleQueries : q.limit}

(* A UNION whose first branch has a condition on d; the second has none on e,
   which is named there once and has the same map bit. *)
UnionQueries ==
    {Query(TRUE, FALSE, {}, <<Sel(<<"d">>, <<{2, 3}>>), Sel(<<"e">>, <<NoCond>>)>>)}
=============================================================================
