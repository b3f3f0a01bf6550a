--------------------------- MODULE MCNewConnection ---------------------------
(***************************************************************************)
(* NewConnection with two types: one with a required text, one with a port *)
(* and an optional SSH host.                                               *)
(***************************************************************************)
EXTENDS NewConnection, TLC

MCTypes == <<"sqlite", "postgres">>
MCTypeMatches == "" :> MCTypes @@ "post" :> <<"postgres">> @@ "zzz" :> <<>>
MCFieldsOf == "sqlite" :> <<"database">> @@ "postgres" :> <<"port", "ssh_host">>
MCDefaultOf == "database" :> "" @@ "port" :> "5432" @@ "ssh_host" :> ""
MCConn == [type |-> "sqlite", values |-> "database" :> "5432"]
MCParseOf == "" :> NoConn @@ "sqlite:db" :> MCConn
MCDerivedName == MCConn :> "two"

\* The appends are interchangeable.
Appends == Permutations(Saves)
=============================================================================
