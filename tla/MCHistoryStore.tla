--------------------------- MODULE MCHistoryStore ---------------------------
(***************************************************************************)
(* HistoryStore for TLC: two handles, a cap of two Statements, and the     *)
(* algorithm for what a Save writes that IsMostRecent describes.           *)
(***************************************************************************)
EXTENDS HistoryStore, SequencesExt

\* No file yet, or one with duplicates and too many entries.
FilesFound ==
  LET s == SetToSeq(Statements) IN {<<>>, <<s[1], s[1]>> \o s}

\* The positions of q whose Statement does not come again.
LatestOccurrences(q) == {i \in DOMAIN q : \A j \in DOMAIN q : j > i => q[j] # q[i]}

\* The MaxEntries most recent different Statements of q, oldest first, by sorting.
MostRecent(q) ==
  LET latest == LatestOccurrences(q)
      kept == {i \in latest : Cardinality({j \in latest : j > i}) < MaxEntries}
      order == SetToSortSeq(kept, <)
  IN  [k \in 1 .. Len(order) |-> q[order[k]]]

\* IsMostRecent allows one file and no other.
ASSUME MostRecentIsUnique ==
  \A q \in SeqOf(Statements, 4), r \in SeqOf(Statements, 3) :
    IsMostRecent(r, q) <=> r = MostRecent(q)
=============================================================================
