------------------------- MODULE StatementExpansion -------------------------
(***************************************************************************)
(* The Statement Expander: what table a Result Set is taken to come from,  *)
(* and the INSERT, UPDATE and DELETE that are composed from its rows       *)
(* (internal/app/results_pane_compose.go, over db/composer.go and the      *)
(* columns of db/result.go), and what becomes of a table when they are     *)
(* submitted as they were composed, which may be long after the Result Set *)
(* was read.                                                               *)
(*                                                                         *)
(* A query is its tokens, as sqlLex leaves them.  A row of a table is a    *)
(* function of its columns; a Result Set has a source, columns with their  *)
(* names and key positions, and rows of values.  What the database does    *)
(* (Hits, Adds, the other client) is SQL's meaning of it.  Which rows are  *)
(* chosen is in ResultsPane.                                               *)
(***************************************************************************)
EXTENDS Integers, Sequences, FiniteSets, SequencesExt

CONSTANTS
  TableColumns,  \* the columns of a table
  TableRows,     \* rows it may have: functions of its columns
  Keys,          \* primary keys a table may have: sequences of columns, in their positions
  Projections,   \* what is selected from it: sequences of [of |-> column, as |-> its name]
  Queries,       \* the Statements that read it, as tokens
  Null, Unknown, None,
  MaxTableRows   \* bound: rows of a table

ASSUME ExpansionAssumptions ==
  /\ \A row \in TableRows : DOMAIN row = TableColumns
  /\ Keys \subseteq Seq(TableColumns) /\ MaxTableRows \in Nat \ {0}
  /\ \A p \in Projections : IsFiniteSet(DOMAIN p)
  /\ None \notin Queries

VARIABLES
  key,     \* the primary key of the table
  table,   \* what is in it, a sequence of rows
  query,   \* the Statement the Result Set is from, or None
  result,  \* LatestResult, or None
  composed \* what is in the Command Pane: [for, statement], or None

evars == <<key, table, query, result, composed>>

(*************************** the source of the rows ***********************)

Symbols == {".", ",", "(", ")", ";"}
EndOfFrom == {"WHERE", "GROUP", "HAVING", "ORDER", "LIMIT", "OFFSET", "RETURNING",
              "UNION", "EXCEPT", "INTERSECT", "WINDOW"}

\* The last Statement of the text, without the semicolons that end it.
CurrentTokens(tokens) ==
  LET content == {i \in DOMAIN tokens : tokens[i] # ";"}
      end == IF content = {} THEN 0 ELSE CHOOSE i \in content : \A j \in content : j <= i
      start == CHOOSE i \in 0 .. end : /\ i = 0 \/ tokens[i] = ";"
                                       /\ \A j \in i + 1 .. end : tokens[j] # ";"
  IN SubSeq(tokens, start + 1, end)

\* How deep in parentheses the text is after tokens[to], counted from tokens[from].
DepthAfter(tokens, from, to) ==
  FoldLeft(LAMBDA d, t : IF t = "(" THEN d + 1 ELSE IF t = ")" /\ d > 0 THEN d - 1 ELSE d,
           0, SubSeq(tokens, from, to))

\* The names joined by dots from tokens[start] on.
DottedFrom(tokens, start) ==
  LET at(k) == start + 2 * k
      partOf(k) == /\ at(k) \in DOMAIN tokens /\ tokens[at(k)] \notin Symbols
                   /\ k > 0 => tokens[at(k) - 1] = "."
      n == CHOOSE k \in 0 .. Len(tokens) : ~partOf(k) /\ \A j \in 0 .. k - 1 : partOf(j)
  IN [k \in 1 .. n |-> tokens[at(k - 1)]]

HasAdditionalTables(tokens, start) ==
  LET outside == {i \in start .. Len(tokens) : DepthAfter(tokens, start, i) = 0}
      more == {i \in outside : tokens[i] \in {",", "JOIN"}}
      stops == {i \in outside : tokens[i] \in EndOfFrom}
  IN \E i \in more : \A j \in stops : i < j

\* inferQuerySourceTable: the name, with at most a catalog and a namespace before it.
InferredSource(text) ==
  LET tokens == CurrentTokens(text)
      froms == {i \in DOMAIN tokens : tokens[i] = "FROM" /\ DepthAfter(tokens, 1, i) = 0}
      from == CHOOSE i \in froms : \A j \in froms : i <= j
      parts == DottedFrom(tokens, from + 1)
  IN IF froms = {} \/ parts = <<>> \/ HasAdditionalTables(tokens, from + 2 * Len(parts))
     THEN Unknown
     ELSE SubSeq(parts, IF Len(parts) > 3 THEN Len(parts) - 2 ELSE 1, Len(parts))

(********************************* Result Sets ****************************)

\* A column of the result is a key column when it has the name of one, whatever it holds.
Position(name) ==
  IF \E p \in DOMAIN key : key[p] = name
  THEN CHOOSE p \in DOMAIN key : key[p] = name ELSE 0

ResultSet(source, projection) ==
  [source |-> source,
   columns |-> [i \in DOMAIN projection |->
                  [name |-> projection[i].as, position |-> Position(projection[i].as)]],
   rows |-> [r \in DOMAIN table |-> [i \in DOMAIN projection |-> table[r][projection[i].of]]]]

KeyIndices == {i \in DOMAIN result.columns : result.columns[i].position > 0}

(****************************** composed Statements ***********************)

ColumnValues(r, indices) ==
  {[column |-> result.columns[i].name, value |-> result.rows[r][i]] : i \in indices}

RowPredicates(r) ==
  ColumnValues(r, IF KeyIndices # {} THEN KeyIndices ELSE DOMAIN result.columns)

\* The columns that are no key columns, or all when there are no others.
UpdateAssignments(r) ==
  LET others == DOMAIN result.columns \ KeyIndices
  IN ColumnValues(r, IF others # {} THEN others ELSE DOMAIN result.columns)

Refused == [kind |-> "refused"]
Composes == result.source # Unknown /\ result.columns # <<>>

\* The elements of a set of numbers in order: one sequence.
Sorted(numbers) ==
  {s \in [1 .. Cardinality(numbers) -> numbers] : \A i, j \in DOMAIN s : i < j => s[i] < s[j]}

ComposeInsert(sorted) ==
  IF ~Composes THEN Refused
  ELSE [kind |-> "insert", columns |-> [i \in DOMAIN result.columns |-> result.columns[i].name],
        rows |-> [k \in DOMAIN sorted |-> result.rows[sorted[k]]]]

\* One UPDATE for each row, and none at all without a key column.
ComposeUpdate(chosen) ==
  IF ~Composes \/ KeyIndices = {} THEN Refused
  ELSE [kind |-> "update",
        statements |-> {[set |-> UpdateAssignments(r), where |-> RowPredicates(r)]
                          : r \in chosen}]

ComposeDelete(r) ==
  IF ~Composes THEN Refused ELSE [kind |-> "delete", groups |-> {RowPredicates(r)}]

\* (variant: the first key column is taken for the key)
ComposeDeleteBulkByFirst(chosen) ==
  IF ~Composes THEN Refused
  ELSE IF KeyIndices # {}
  THEN LET k == CHOOSE i \in KeyIndices : \A j \in KeyIndices : i <= j
       IN [kind |-> "delete_in", column |-> result.columns[k].name,
           values |-> {result.rows[r][k] : r \in chosen}]
  ELSE [kind |-> "delete", groups |-> {RowPredicates(r) : r \in chosen}]

\* Marked rows: by the values of their one key column, or each by its predicates.
ComposeDeleteBulk(chosen) ==
  IF ~Composes THEN Refused
  ELSE IF Cardinality(KeyIndices) = 1
  THEN LET k == CHOOSE i \in KeyIndices : TRUE
       IN [kind |-> "delete_in", column |-> result.columns[k].name,
           values |-> {result.rows[r][k] : r \in chosen}]
  ELSE [kind |-> "delete", groups |-> {RowPredicates(r) : r \in chosen}]

\* (variant: a missing value is compared with)
PredicateHoldsEqual(p, row) ==
  p.column \in DOMAIN row /\ row[p.column] = p.value /\ p.value # Null

\* predicateLines: IS NULL for a missing value.  The database refuses a column it does not know.
PredicateHolds(p, row) ==
  p.column \in DOMAIN row /\ row[p.column] = p.value

\* The rows of the table that a Statement is about; a comparison with Null holds for none.
Hits(statement) ==
  {i \in DOMAIN table :
     LET row == table[i]
     IN CASE statement.kind = "update" ->
               \E s \in statement.statements : \A p \in s.where : PredicateHolds(p, row)
          [] statement.kind = "delete" ->
               \E g \in statement.groups : \A p \in g : PredicateHolds(p, row)
          [] statement.kind = "delete_in" ->
               /\ statement.column \in DOMAIN row /\ row[statement.column] # Null
               /\ row[statement.column] \in statement.values
          [] OTHER -> FALSE}

\* The rows an INSERT adds; a column it does not name is missing.
Adds(statement) ==
  [k \in DOMAIN statement.rows |->
     [c \in TableColumns |->
        IF \E i \in DOMAIN statement.columns : statement.columns[i] = c
        THEN statement.rows[k][CHOOSE i \in DOMAIN statement.columns : statement.columns[i] = c]
        ELSE Null]]

(********************************* actions ********************************)

\* No two rows share their key, and none has a part of it missing.
IsKeyOf(k, rows) ==
  k # <<>> =>
    \A i, j \in DOMAIN rows :
      /\ \A p \in DOMAIN k : rows[i][k[p]] # Null
      /\ (\A p \in DOMAIN k : rows[i][k[p]] = rows[j][k[p]]) => i = j

Init ==
  /\ key \in Keys
  /\ table \in {t \in UNION {[1 .. n -> TableRows] : n \in 1 .. MaxTableRows} : IsKeyOf(key, t)}
  /\ query = None /\ result = None /\ composed = None

\* A Result Set of a query whose source is not known composes nothing.
Select(q, projection) ==
  /\ result = None /\ composed = None
  /\ query' = q
  /\ result' = ResultSet(InferredSource(q), projection)
  /\ UNCHANGED <<key, table, composed>>

\* The table changes behind the Result Set.  Bound: a row at a time, and, as nothing that is composed
\* depends on the table, once it is.
OtherClient ==
  /\ composed # None
  /\ \/ \E i \in DOMAIN table, row \in TableRows : table' = [table EXCEPT ![i] = row]
     \/ \E i \in DOMAIN table : table' = RemoveAt(table, i)
  /\ IsKeyOf(key, table')
  /\ UNCHANGED <<key, query, result, composed>>

\* yy, cc, dd, for the row under the cursor or those that are marked: what is refused leaves the
\* Command Pane as it was.
Compose(statement, chosen) ==
  /\ statement # Refused
  /\ composed' = [for |-> chosen, statement |-> statement]
  /\ UNCHANGED <<key, table, query, result>>

ComposeKey ==
  /\ query # None /\ composed = None
  /\ \E chosen \in (SUBSET DOMAIN result.rows) \ {{}} :
       \/ \E sorted \in Sorted(chosen) : Compose(ComposeInsert(sorted), chosen)
       \/ Compose(ComposeUpdate(chosen), chosen)
       \/ Compose(ComposeDeleteBulk(chosen), chosen)
       \/ \E r \in chosen : chosen = {r} /\ Compose(ComposeDelete(r), chosen)

\* The values an UPDATE sets; the last one that is about the row counts.
Updated(statement, row) ==
  {[c \in TableColumns |->
      IF \E a \in s.set : a.column = c THEN (CHOOSE a \in s.set : a.column = c).value ELSE row[c]]
     : s \in {u \in statement.statements : \A p \in u.where : PredicateHolds(p, row)}}

\* What a Statement makes of the table.
After(statement) ==
  LET hit == Hits(statement)
  IN CASE statement.kind = "insert" -> {table \o Adds(statement)}
       [] statement.kind = "update" ->
            {t \in [DOMAIN table -> UNION {Updated(statement, table[i]) : i \in hit} \cup ToSet(table)] :
               \A i \in DOMAIN table : IF i \in hit THEN t[i] \in Updated(statement, table[i])
                                       ELSE t[i] = table[i]}
       [] OTHER -> {[i \in DOMAIN left |-> table[left[i]]] : left \in Sorted(DOMAIN table \ hit)}

\* Submitted as it is.  The Result Set gives way to the result of the Statement, which the
\* database may refuse.
Submit ==
  /\ composed # None
  /\ \/ /\ table' \in After(composed.statement)
        /\ IsKeyOf(key, table') /\ Len(table') <= MaxTableRows
     \/ UNCHANGED table
  /\ query' = None /\ result' = None /\ composed' = None
  /\ UNCHANGED key

\* The Command Pane is cleared, or another Statement replaces the Result Set.
Leave == composed' = None /\ query' = None /\ result' = None /\ UNCHANGED <<key, table>>

Next ==
  \/ \E q \in Queries, p \in Projections : Select(q, p)
  \/ OtherClient
  \/ ComposeKey
  \/ Submit
  \/ Leave

ESpec == Init /\ [][Next]_evars

(********************************* properties *****************************)

ColumnsNamed(name) == {i \in DOMAIN result.columns : result.columns[i].name = name}
KeyIsSelected == key # <<>> /\ \A p \in DOMAIN key : ColumnsNamed(key[p]) # {}

\* The rows of the table with the key of the r-th row of the Result Set.
SameKey(r) ==
  {i \in DOMAIN table :
     \A p \in DOMAIN key, c \in DOMAIN result.columns :
       result.columns[c].name = key[p] => table[i][key[p]] = result.rows[r][c]}

\* With the whole key in the Result Set, an UPDATE or a DELETE is about the rows that have the
\* keys of the rows it was composed for and about no other, one by one or in bulk, whatever
\* happened to the table since (resultsPaneRowPredicates, composeResultsPaneDeleteBulkSQL).
WholeKeyHitsChosenRows ==
  composed # None /\ composed.statement.kind # "insert" /\ KeyIsSelected =>
    Hits(composed.statement) = UNION {SameKey(r) : r \in composed.for}

\* A DELETE reaches every row that is still as it was shown when it was marked, whether or not
\* the table has a key, the key is selected, or a value is missing (predicateLines, DeleteGroups).
DeletesReachShownRows ==
  composed # None /\ composed.statement.kind \in {"delete", "delete_in"}
  /\ (\A c \in DOMAIN result.columns : result.columns[c].name \in TableColumns) =>
    \A r \in composed.for, i \in DOMAIN table :
      (\A c \in DOMAIN result.columns : table[i][result.columns[c].name] = result.rows[r][c])
        => i \in Hits(composed.statement)
=============================================================================
