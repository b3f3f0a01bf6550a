----------------------- MODULE StatementExpansionProofs -----------------------
(***************************************************************************)
(* What the composed UPDATEs and DELETEs are about, for every table, key,  *)
(* projection and choice of rows.                                          *)
(***************************************************************************)
EXTENDS StatementExpansion, FiniteSetTheorems, TLAPS

\* A table is a sequence of rows of its columns.
IsTable(t) == t \in Seq(ToSet(t)) /\ \A i \in DOMAIN t : DOMAIN t[i] = TableColumns
TableInv == key \in Keys /\ IsTable(table) /\ IsKeyOf(key, table)

\* The columns of the Result Set with a position are those with the name of a key column.
ResultInv ==
  query # None =>
    /\ IsFiniteSet(DOMAIN result.rows) /\ IsFiniteSet(DOMAIN result.columns)
    /\ \A c \in DOMAIN result.columns :
         result.columns[c].position > 0 <=> \E p \in DOMAIN key : key[p] = result.columns[c].name

IsComposed(statement, chosen) ==
  /\ statement # Refused
  /\ \/ statement.kind = "insert" /\ \E n \in Nat : DOMAIN statement.rows = 1 .. n
     \/ statement = ComposeUpdate(chosen)
     \/ statement = ComposeDeleteBulk(chosen)
     \/ \E r \in chosen : chosen = {r} /\ statement = ComposeDelete(r)

\* What is in the Command Pane was composed from the Result Set that is still there.
ComposedInv == composed # None => query # None /\ IsComposed(composed.statement, composed.for)

ExpansionInv == TableInv /\ ResultInv /\ ComposedInv

(*************************** what is composed *****************************)

LEMMA UpdateForm ==
  ASSUME NEW chosen, ComposeUpdate(chosen) # Refused
  PROVE  /\ KeyIndices # {}
         /\ ComposeUpdate(chosen).kind = "update"
         /\ ComposeUpdate(chosen).statements =
              {[set |-> UpdateAssignments(r), where |-> RowPredicates(r)] : r \in chosen}
<1>1. ~(~Composes \/ KeyIndices = {})
  BY DEF ComposeUpdate
<1> QED BY <1>1 DEF ComposeUpdate

LEMMA DeleteForm ==
  ASSUME NEW r, ComposeDelete(r) # Refused
  PROVE  /\ ComposeDelete(r).kind = "delete"
         /\ ComposeDelete(r).groups = {RowPredicates(r)}
<1>1. Composes
  BY DEF ComposeDelete
<1> QED BY <1>1 DEF ComposeDelete

LEMMA DeleteBulkForm ==
  ASSUME IsFiniteSet(KeyIndices), NEW chosen, ComposeDeleteBulk(chosen) # Refused
  PROVE  \/ /\ ComposeDeleteBulk(chosen).kind = "delete"
            /\ ComposeDeleteBulk(chosen).groups = {RowPredicates(r) : r \in chosen}
         \/ \E k : /\ KeyIndices = {k}
                   /\ ComposeDeleteBulk(chosen).kind = "delete_in"
                   /\ ComposeDeleteBulk(chosen).column = result.columns[k].name
                   /\ ComposeDeleteBulk(chosen).values = {result.rows[r][k] : r \in chosen}
<1>1. Composes
  BY DEF ComposeDeleteBulk
<1>2. CASE Cardinality(KeyIndices) = 1
  <2>1. PICK k : KeyIndices = {k}
    BY <1>2, FS_Singleton
  <2>2. (CHOOSE i \in KeyIndices : TRUE) = k
    BY <2>1
  <2>3. ComposeDeleteBulk(chosen) =
          [kind |-> "delete_in", column |-> result.columns[k].name,
           values |-> {result.rows[r][k] : r \in chosen}]
    BY <1>1, <1>2, <2>2 DEF ComposeDeleteBulk
  <2> QED BY <2>1, <2>3
<1>3. CASE Cardinality(KeyIndices) # 1
  <2>1. ComposeDeleteBulk(chosen) = [kind |-> "delete", groups |-> {RowPredicates(r) : r \in chosen}]
    BY <1>1, <1>3 DEF ComposeDeleteBulk
  <2> QED BY <2>1
<1> QED BY <1>2, <1>3
LEMMA KeyIndicesFinite == ASSUME ExpansionInv, query # None PROVE IsFiniteSet(KeyIndices)
BY FS_Subset DEF ExpansionInv, ResultInv, KeyIndices

\* What can be in the Command Pane, by its kind.
LEMMA ComposedForms ==
  ASSUME ExpansionInv, composed # None
  PROVE  \/ /\ composed.statement.kind = "insert"
            /\ \E n \in Nat : DOMAIN composed.statement.rows = 1 .. n
         \/ /\ composed.statement.kind = "update" /\ KeyIndices # {}
            /\ composed.statement.statements =
                 {[set |-> UpdateAssignments(r), where |-> RowPredicates(r)] : r \in composed.for}
         \/ /\ composed.statement.kind = "delete"
            /\ composed.statement.groups = {RowPredicates(r) : r \in composed.for}
         \/ /\ composed.statement.kind = "delete_in"
            /\ \E k : /\ KeyIndices = {k}
                      /\ composed.statement.column = result.columns[k].name
                      /\ composed.statement.values = {result.rows[r][k] : r \in composed.for}
<1> DEFINE st == composed.statement
           chosen == composed.for
<1>1. st # Refused /\ IsFiniteSet(KeyIndices)
  BY KeyIndicesFinite DEF ExpansionInv, ComposedInv, IsComposed
<1>2. \/ st.kind = "insert" /\ \E n \in Nat : DOMAIN st.rows = 1 .. n
      \/ st = ComposeUpdate(chosen)
      \/ st = ComposeDeleteBulk(chosen)
      \/ \E r \in chosen : chosen = {r} /\ st = ComposeDelete(r)
  BY DEF ExpansionInv, ComposedInv, IsComposed
<1> HIDE DEF st, chosen
<1>3. CASE st = ComposeUpdate(chosen)
  BY <1>1, <1>3, UpdateForm DEF st, chosen
<1>4. CASE st = ComposeDeleteBulk(chosen)
  BY <1>1, <1>4, DeleteBulkForm DEF st, chosen
<1>5. ASSUME NEW r \in chosen, chosen = {r}, st = ComposeDelete(r)
      PROVE  st.kind = "delete" /\ st.groups = {RowPredicates(x) : x \in chosen}
  BY <1>1, <1>5, DeleteForm
<1> QED BY <1>2, <1>3, <1>4, <1>5 DEF st, chosen

LEMMA ComposedStays ==
  ASSUME UNCHANGED result
  PROVE  \A statement, chosen : IsComposed(statement, chosen)' = IsComposed(statement, chosen)
BY DEF IsComposed, ComposeUpdate, ComposeDeleteBulk, ComposeDelete, Composes, KeyIndices,
       UpdateAssignments, RowPredicates, ColumnValues

(******************************* tables stay tables ***********************)

LEMMA TableIsFinite == ASSUME NEW t, IsTable(t) PROVE IsFiniteSet(DOMAIN t)
<1>1. DOMAIN t = 1 .. Len(t) /\ Len(t) \in Nat
  BY DEF IsTable
<1> QED BY <1>1, FS_Interval

\* A sequence of rows of a table, however they were put together.
LEMMA RowsMakeTables ==
  ASSUME NEW S, \A row \in S : DOMAIN row = TableColumns, NEW t \in Seq(S)
  PROVE  IsTable(t)
BY DEF IsTable, ToSet

LEMMA SortedIsSequence ==
  ASSUME NEW S, IsFiniteSet(S), NEW s \in Sorted(S)
  PROVE  \E n \in Nat : DOMAIN s = 1 .. n /\ \A k \in 1 .. n : s[k] \in S
<1>1. Cardinality(S) \in Nat
  BY FS_CardinalityType
<1> QED BY <1>1 DEF Sorted

LEMMA OtherClientTables ==
  ASSUME IsTable(table), OtherClient PROVE IsTable(table')
<1> USE ExpansionAssumptions
<1> DEFINE Rows == ToSet(table) \cup TableRows
<1>1. table \in Seq(Rows) /\ \A row \in Rows : DOMAIN row = TableColumns
  BY DEF IsTable, ToSet
<1>2. ASSUME NEW i \in DOMAIN table, NEW row \in TableRows, table' = [table EXCEPT ![i] = row]
      PROVE  table' \in Seq(Rows)
  BY <1>1, <1>2
<1>3. ASSUME NEW i \in DOMAIN table, table' = RemoveAt(table, i) PROVE table' \in Seq(Rows)
  <2> HIDE DEF Rows
  <2>1. SubSeq(table, 1, i - 1) \in Seq(Rows) /\ SubSeq(table, i + 1, Len(table)) \in Seq(Rows)
    BY <1>1
  <2> QED BY <1>3, <2>1 DEF RemoveAt
<1> QED BY <1>1, <1>2, <1>3, RowsMakeTables DEF OtherClient

LEMMA SubmitTables ==
  ASSUME ExpansionInv, composed # None, NEW t \in After(composed.statement)
  PROVE  IsTable(t)
<1> DEFINE st == composed.statement
<1> USE DEF ExpansionInv, TableInv
<1>1. CASE st.kind = "insert"
  <2>1. PICK n \in Nat : DOMAIN st.rows = 1 .. n
    BY <1>1, ComposedForms
  <2>2. /\ DOMAIN Adds(st) = 1 .. n
        /\ \A k \in 1 .. n : DOMAIN Adds(st)[k] = TableColumns
    BY <2>1 DEF Adds
  <2> DEFINE Rows == ToSet(table) \cup {Adds(st)[k] : k \in 1 .. n}
  <2>3. Adds(st) \in Seq(Rows)
    <3>1. Adds(st) = [k \in 1 .. n |-> Adds(st)[k]]
      BY <2>1 DEF Adds
    <3>2. \A k \in 1 .. n : Adds(st)[k] \in Rows
      OBVIOUS
    <3> HIDE DEF Rows
    <3>3. Adds(st) \in [1 .. n -> Rows]
      BY <3>1, <3>2
    <3> QED BY <3>3
  <2>4. table \in Seq(Rows) /\ \A row \in Rows : DOMAIN row = TableColumns
    BY <2>2 DEF IsTable, ToSet
  <2>5. t = table \o Adds(st)
    BY <1>1 DEF After
  <2> HIDE DEF Rows
  <2>6. t \in Seq(Rows)
    BY <2>3, <2>4, <2>5
  <2> QED BY <2>4, <2>6, RowsMakeTables
<1>2. CASE st.kind = "update"
  <2>1. /\ DOMAIN t = DOMAIN table
        /\ t = [i \in DOMAIN table |-> t[i]]
        /\ \A i \in DOMAIN table : t[i] = table[i] \/ t[i] \in Updated(st, table[i])
    BY <1>2 DEF After
  <2>2. \A i \in DOMAIN table : DOMAIN t[i] = TableColumns
    BY <2>1 DEF Updated, IsTable
  <2>3. t \in Seq(ToSet(t))
    BY <2>1 DEF IsTable, ToSet
  <2> QED BY <2>1, <2>2, <2>3 DEF IsTable
<1>3. CASE st.kind \notin {"insert", "update"}
  <2>1. PICK left \in Sorted(DOMAIN table \ Hits(st)) : t = [i \in DOMAIN left |-> table[left[i]]]
    BY <1>3 DEF After
  <2>2. IsFiniteSet(DOMAIN table \ Hits(st))
    BY TableIsFinite, FS_Subset
  <2>3. PICK n \in Nat : DOMAIN left = 1 .. n /\ \A k \in 1 .. n : left[k] \in DOMAIN table
    BY <2>2, SortedIsSequence
  <2>4. t \in [1 .. n -> ToSet(table)] /\ \A row \in ToSet(table) : DOMAIN row = TableColumns
    BY <2>1, <2>3 DEF IsTable, ToSet
  <2>5. t \in Seq(ToSet(table))
    BY <2>4
  <2> QED BY <2>4, <2>5, RowsMakeTables
<1> QED BY <1>1, <1>2, <1>3

(********************************* the invariant **************************)

LEMMA InitExpansion == Init => ExpansionInv
<1> SUFFICES ASSUME Init PROVE ExpansionInv
  OBVIOUS
<1>1. PICK n \in 1 .. MaxTableRows : table \in [1 .. n -> TableRows]
  BY DEF Init
<1>2. table \in Seq(TableRows)
  BY <1>1, ExpansionAssumptions
<1> QED BY <1>2, ExpansionAssumptions, RowsMakeTables
        DEF Init, ExpansionInv, TableInv, ResultInv, ComposedInv

LEMMA SelectExpansion ==
  ASSUME ExpansionInv, NEW q \in Queries, NEW p \in Projections, Select(q, p)
  PROVE  ExpansionInv'
<1>1. TableInv' /\ ComposedInv'
  BY DEF ExpansionInv, Select, TableInv, ComposedInv, IsTable, ToSet
<1>2. ResultInv'
  <2>1. DOMAIN result'.rows = DOMAIN table
    BY DEF Select, ResultSet
  <2>2. \A c \in DOMAIN result'.columns :
          result'.columns[c].position = Position(result'.columns[c].name)
    BY DEF Select, ResultSet
  <2>3. \A name : Position(name) > 0 <=> \E i \in DOMAIN key : key[i] = name
    <3>1. DOMAIN key = 1 .. Len(key) /\ Len(key) \in Nat
      BY ExpansionAssumptions DEF ExpansionInv, TableInv
    <3> QED BY <3>1 DEF Position
  <2>4. IsFiniteSet(DOMAIN result'.columns)
    BY ExpansionAssumptions DEF Select, ResultSet
  <2> QED BY <2>1, <2>2, <2>3, <2>4, TableIsFinite DEF ExpansionInv, TableInv, ResultInv, Select
<1> QED BY <1>1, <1>2 DEF ExpansionInv

LEMMA ComposeExpansion == ASSUME ExpansionInv, ComposeKey PROVE ExpansionInv'
<1>1. query # None
  BY DEF ComposeKey
<1>2. PICK chosen \in (SUBSET DOMAIN result.rows) \ {{}} :
        \/ \E sorted \in Sorted(chosen) : Compose(ComposeInsert(sorted), chosen)
        \/ Compose(ComposeUpdate(chosen), chosen)
        \/ Compose(ComposeDeleteBulk(chosen), chosen)
        \/ \E r \in chosen : chosen = {r} /\ Compose(ComposeDelete(r), chosen)
  BY DEF ComposeKey
<1>3. PICK statement : Compose(statement, chosen) /\ IsComposed(statement, chosen)
  <2>1. ASSUME NEW sorted \in Sorted(chosen), Compose(ComposeInsert(sorted), chosen)
        PROVE  IsComposed(ComposeInsert(sorted), chosen)
    <3>1. IsFiniteSet(chosen)
      BY <1>1, FS_Subset DEF ExpansionInv, ResultInv
    <3>2. ComposeInsert(sorted) # Refused
      BY <2>1 DEF Compose
    <3> QED BY <3>1, <3>2, SortedIsSequence DEF IsComposed, ComposeInsert
  <2> QED BY <1>2, <2>1 DEF IsComposed, Compose
<1>4. composed' = [for |-> chosen, statement |-> statement] /\ UNCHANGED <<key, table, query, result>>
  BY <1>3 DEF Compose
<1>5. composed'.statement = statement /\ composed'.for = chosen /\ IsComposed(statement, chosen)'
  BY <1>3, <1>4, ComposedStays
<1> QED BY <1>1, <1>4, <1>5
        DEF ExpansionInv, TableInv, ResultInv, ComposedInv, IsTable, ToSet

LEMMA NextExpansion == ExpansionInv /\ [Next]_evars => ExpansionInv'
<1> SUFFICES ASSUME ExpansionInv, [Next]_evars PROVE ExpansionInv'
  OBVIOUS
<1> USE DEF ExpansionInv, TableInv, ResultInv, ComposedInv
<1>2. CASE OtherClient
  BY <1>2, OtherClientTables, ComposedStays DEF OtherClient
<1>3. CASE Submit
  BY <1>3, SubmitTables DEF Submit, IsTable, ToSet
<1>4. CASE Leave \/ UNCHANGED evars
  BY <1>4, ComposedStays DEF Leave, evars, IsTable, ToSet
<1> QED BY <1>2, <1>3, <1>4, SelectExpansion, ComposeExpansion DEF Next

LEMMA ExpansionInvariant == ESpec => []ExpansionInv
BY InitExpansion, NextExpansion, PTL DEF ESpec

(************************** what is hit ***********************************)

LEMMA HitsByKey ==
  ASSUME ExpansionInv, composed # None, composed.statement.kind # "insert", KeyIsSelected
  PROVE  Hits(composed.statement) = UNION {SameKey(r) : r \in composed.for}
<1> DEFINE st == composed.statement
           Matches(r, i) == \A c \in KeyIndices : table[i][result.columns[c].name] = result.rows[r][c]
<1>1. /\ query # None /\ IsComposed(st, composed.for)
      /\ \A i \in DOMAIN table : DOMAIN table[i] = TableColumns
      /\ key # <<>> /\ key \in Seq(TableColumns) /\ IsKeyOf(key, table)
  BY ExpansionAssumptions DEF ExpansionInv, TableInv, IsTable, ComposedInv, KeyIsSelected
<1>2. \A c \in DOMAIN result.columns :
        c \in KeyIndices <=> \E p \in DOMAIN key : key[p] = result.columns[c].name
  BY <1>1 DEF ExpansionInv, ResultInv, KeyIndices
<1>3. KeyIndices # {}
  BY <1>1, <1>2 DEF KeyIsSelected, ColumnsNamed
<1>4. \A r : SameKey(r) = {i \in DOMAIN table : Matches(r, i)}
  BY <1>2 DEF SameKey, KeyIndices
<1>5. \A c \in KeyIndices : \A i \in DOMAIN table :
        /\ result.columns[c].name \in DOMAIN table[i]
        /\ table[i][result.columns[c].name] # Null
  BY <1>1, <1>2 DEF IsKeyOf, KeyIndices
<1>6. \A r : RowPredicates(r) =
              {[column |-> result.columns[c].name, value |-> result.rows[r][c]] : c \in KeyIndices}
  BY <1>3 DEF RowPredicates, ColumnValues
<1>7. \A r : \A i \in DOMAIN table :
        (\A p \in RowPredicates(r) : PredicateHolds(p, table[i])) <=> Matches(r, i)
  <2>1. \A r : \A i \in DOMAIN table : \A c \in KeyIndices :
          PredicateHolds([column |-> result.columns[c].name, value |-> result.rows[r][c]], table[i])
            <=> table[i][result.columns[c].name] = result.rows[r][c]
    BY <1>5 DEF PredicateHolds
  <2> TAKE r
  <2> TAKE i \in DOMAIN table
  <2>2. Matches(r, i) <=> \A c \in KeyIndices :
          PredicateHolds([column |-> result.columns[c].name, value |-> result.rows[r][c]], table[i])
    BY <2>1
  <2> HIDE DEF Matches
  <2> QED BY <1>6, <2>2, Zenon
<1>8. SUFFICES Hits(st) = {i \in DOMAIN table : \E r \in composed.for : Matches(r, i)}
  BY <1>4
<1> HIDE DEF Matches
<1>9. CASE /\ st.kind = "update"
           /\ st.statements = {[set |-> UpdateAssignments(r), where |-> RowPredicates(r)]
                                 : r \in composed.for}
  <2>1. \A i \in DOMAIN table :
          (\E s \in st.statements : \A p \in s.where : PredicateHolds(p, table[i]))
            <=> \E r \in composed.for : \A p \in RowPredicates(r) : PredicateHolds(p, table[i])
    <3> TAKE i \in DOMAIN table
    <3>1. \A r : [set |-> UpdateAssignments(r), where |-> RowPredicates(r)].where = RowPredicates(r)
      OBVIOUS
    <3> QED BY <1>9, <3>1, Zenon
  <2> QED BY <1>7, <1>9, <2>1 DEF Hits
<1>10. CASE st.kind = "delete" /\ st.groups = {RowPredicates(r) : r \in composed.for}
  BY <1>7, <1>10 DEF Hits
<1>11. ASSUME NEW k, KeyIndices = {k}, st.kind = "delete_in", st.column = result.columns[k].name,
              st.values = {result.rows[r][k] : r \in composed.for}
       PROVE  Hits(st) = {i \in DOMAIN table : \E r \in composed.for : Matches(r, i)}
  <2>1. \A r, i : Matches(r, i) <=> table[i][result.columns[k].name] = result.rows[r][k]
    BY <1>11 DEF Matches
  <2> QED BY <1>5, <1>11, <2>1 DEF Hits
<1> QED BY <1>9, <1>10, <1>11, ComposedForms

\* With the whole key in the Result Set, an UPDATE or a DELETE is about the rows that have the
\* keys of the rows it was composed for and about no other, whatever happened to the table
\* since: composite keys are compared whole, not column by column.
THEOREM ExpansionHitsChosenRows == ESpec => []WholeKeyHitsChosenRows
<1>1. ExpansionInv => WholeKeyHitsChosenRows
  BY HitsByKey DEF WholeKeyHitsChosenRows
<1> QED BY <1>1, ExpansionInvariant, PTL

LEMMA HitsAsShown ==
  ASSUME ExpansionInv, composed # None, composed.statement.kind \in {"delete", "delete_in"},
         \A c \in DOMAIN result.columns : result.columns[c].name \in TableColumns,
         NEW r \in composed.for, NEW i \in DOMAIN table,
         \A c \in DOMAIN result.columns : table[i][result.columns[c].name] = result.rows[r][c]
  PROVE  i \in Hits(composed.statement)
<1> DEFINE st == composed.statement
<1>1. /\ query # None /\ IsComposed(st, composed.for)
      /\ DOMAIN table[i] = TableColumns
      /\ key \in Seq(TableColumns) /\ IsKeyOf(key, table)
  BY ExpansionAssumptions DEF ExpansionInv, TableInv, IsTable, ComposedInv
<1>2. \A p \in RowPredicates(r) : PredicateHolds(p, table[i])
  BY <1>1 DEF RowPredicates, ColumnValues, PredicateHolds, KeyIndices
<1>3. CASE st.kind = "delete" /\ st.groups = {RowPredicates(x) : x \in composed.for}
  BY <1>2, <1>3 DEF Hits
<1>4. ASSUME NEW k, KeyIndices = {k}, st.kind = "delete_in", st.column = result.columns[k].name,
             st.values = {result.rows[x][k] : x \in composed.for}
      PROVE  i \in Hits(st)
  <2>1. \E p \in DOMAIN key : key[p] = result.columns[k].name
    BY <1>1, <1>4 DEF ExpansionInv, ResultInv, KeyIndices
  <2>2. table[i][result.columns[k].name] # Null
    BY <1>1, <2>1 DEF IsKeyOf
  <2>3. k \in DOMAIN result.columns
    BY <1>4 DEF KeyIndices
  <2> QED BY <1>1, <1>4, <2>2, <2>3 DEF Hits
<1> QED BY <1>3, <1>4, ComposedForms

\* A DELETE reaches every row that is still as it was shown when it was marked: a missing value
\* is asked for with IS NULL, and a key column has none.
THEOREM ExpansionReachesShownRows == ESpec => []DeletesReachShownRows
<1>1. ExpansionInv => DeletesReachShownRows
  BY HitsAsShown DEF DeletesReachShownRows
<1> QED BY <1>1, ExpansionInvariant, PTL

=============================================================================
