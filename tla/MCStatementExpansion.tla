------------------------ MODULE MCStatementExpansion ------------------------
(***************************************************************************)
(* StatementExpansion on a table of up to two rows with no key, one key    *)
(* column or two, and on a query of that table and one of a join.          *)
(***************************************************************************)
EXTENDS StatementExpansion

MCTableColumns == {"k", "l", "v"}
Row(k, l, v) == [k |-> k, l |-> l, v |-> v]
MCTableRows == {Row(1, 1, 1), Row(1, 2, 1), Row(2, 1, Null), Row(1, 1, Null)}
MCKeys == {<<>>, <<"k">>, <<"l", "k">>}

\* Whole and partial keys, a column twice, and a column under another name.
Plain(columns) == [i \in DOMAIN columns |-> [of |-> columns[i], as |-> columns[i]]]
MCProjections ==
  {Plain(<<"k">>), Plain(<<"v">>), Plain(<<"k", "l">>), Plain(<<"v", "k">>), Plain(<<"k", "k">>),
   Plain(<<"v", "l", "k">>), <<[of |-> "k", as |-> "k"], [of |-> "l", as |-> "x"]>>}

\* One whose source is inferred, with a FROM and a Statement before that are none of its own, and
\* one with another table.
MCQueries ==
  {<<"SELECT", "c", "FROM", "u", ";", "SELECT", "EXTRACT", "(", "YEAR", "FROM", "c", ")", "FROM",
     "n", ".", "t", "ORDER", "BY", "c", ",", "d", ";">>,
   <<"SELECT", "c", "FROM", "t", "AS", "x", "LEFT", "JOIN", "u">>}
=============================================================================
