---------------------------- MODULE MCCommandPane ----------------------------
(***************************************************************************)
(* CommandPane with a prefix that keywords complete to the end of the      *)
(* Statement, and a Schema also to a name, so that a cycle has two entries *)
(* or one, depending on when it is started.                                *)
(***************************************************************************)
EXTENDS CommandPane, TLC

MCOffers ==
  BareCatalog :> ("u" :> <<<<";">>>>)
  @@ "schema" :> ("u" :> <<<<"v">>, <<";">>>>)
MCArriving == {<<"u", ";">>, <<Slash>>}
=============================================================================
