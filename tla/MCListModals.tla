---------------------------- MODULE MCListModals ----------------------------
(***************************************************************************)
(* ListModals with lists one entry longer than their box, two tables of    *)
(* one name, and Statements that differ in their blanks alone.             *)
(***************************************************************************)
EXTENDS ListModals

MCConnections == <<[text |-> <<"a">>], [text |-> <<"b">>], [text |-> <<"b", "a">>]>>
MCActive == <<"a">>
MCHelpRows == <<[text |-> <<"a">>, does |-> "nothing", command |-> ""],
                [text |-> <<"b">>, does |-> "message", command |-> ""],
                [text |-> <<"b", "a">>, does |-> "wizard", command |-> "select"],
                [text |-> <<"a", "b">>, does |-> "wizard", command |-> "drop"]>>
MCCommands == <<[text |-> "tables", target |-> FALSE, columns |-> FALSE],
                [text |-> "select", target |-> TRUE, columns |-> TRUE],
                [text |-> "drop", target |-> TRUE, columns |-> FALSE]>>
MCTables == <<[text |-> <<"a", "b">>, space |-> "a", name |-> "b"],
              [text |-> <<"b">>, space |-> "a", name |-> "c"],
              [text |-> <<"b", "b">>, space |-> "b", name |-> "b"]>>
MCColumns == [t \in {<<"a", "b">>, <<"b">>, <<"b", "b">>} |->
                IF t = <<"b">> THEN <<"k">> ELSE IF t = <<"b", "b">> THEN <<"k", "v", "w">> ELSE <<"u", "v", "w">>]
MCFormats == <<[text |-> <<"a">>], [text |-> <<"a", "b">>]>>
MCStatements == {<<"a">>, <<"a", " ", "b">>, <<"a", " ", " ", "b">>, <<"b", "a", "a", "b">>}
=============================================================================
