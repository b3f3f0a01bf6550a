-------------------------- MODULE CommandPaneProofs --------------------------
(***************************************************************************)
(* What keys, cycles and History navigation do to the text of the user,    *)
(* for any words, completions, texts, heights and bounds.                  *)
(***************************************************************************)
EXTENDS CommandPane, FiniteSetTheorems, TLAPS

(****************************** the invariant *****************************)

\* The record of the editor, and what its menu and its navigation say of each other: a position
\* in History excludes a menu and a cycle; a cycle goes through what some catalog completes its
\* word to; the menu that is shown is what one completes the word before the cursor to.
Editor(t, a, o, s, n, e, c, i, d) ==
  [text |-> t, at |-> a, opened |-> o, suppressed |-> s, nav |-> n, selected |-> e,
   cached |-> c, index |-> i, draft |-> d]
Shaped(p) ==
  /\ \E t, a, o, s, n, e, c, i, d : p = Editor(t, a, o, s, n, e, c, i, d)
  /\ p.index \in Int /\ p.selected \in Int

CatalogInv == catalog \in Catalogs
Lists(b) == {Offered(c, b) : c \in Catalogs}
MenuInv(p) ==
  /\ p.index >= -1
  /\ p.index >= 0 => p.nav = NoNav /\ ~p.opened
  /\ p.nav # NoNav =>
       /\ p.nav.list \in Lists(p.nav.orig) /\ p.nav.list # NoWords
       /\ p.cached \in Lists(p.nav.orig)
       /\ -1 <= p.selected /\ p.selected < Len(p.nav.list)
  /\ p.nav = NoNav =>
       /\ p.selected = 0
       /\ p.opened /\ p.suppressed # Buffer(p) => p.cached \in Lists(Buffer(p))

\* Where the text o of the user is, as long as nothing else than a key wrote the editor; l is
\* what there is to recall.
TextKept(p, o, l) ==
  IF p.index >= 0
    THEN o = p.draft /\ p.index < Len(l) /\ p.text = l[p.index + 1]
  ELSE IF p.nav # NoNav
    THEN /\ o = p.nav.orig.text
         /\ p.text = IF p.selected < 0 THEN o
                     ELSE Completed(p.nav.orig, p.nav.list[p.selected + 1]).text
  ELSE o = p.text

HistoryInv == \E S : history \in Seq(S)

PaneInv ==
  /\ Shaped(pane) /\ MenuInv(pane) /\ HistoryInv
  /\ ~overwritten => TextKept(pane, own, Recall)

(****************************** the operators *****************************)

LEMMA ACycleIsSomething == \A orig, list : [orig |-> orig, list |-> list] # NoNav
BY DEF NoNav

LEMMA ListsAreSequences ==
  ASSUME NEW b, NEW l \in Lists(b)
  PROVE  Len(l) \in Nat /\ (l # NoWords => Len(l) > 0)
<1>1. ASSUME NEW S, NEW s \in Seq(S) PROVE Len(s) \in Nat /\ (s # <<>> => Len(s) > 0)
  OBVIOUS
<1>2. PICK c \in Catalogs : l = Offered(c, b)
  BY DEF Lists
<1>3. l = NoWords \/ \E w \in DOMAIN Offers[c] : l = Offers[c][w]
  BY <1>2 DEF Offered
<1>4. \E S : l \in Seq(S)
  <2>1. CASE l = NoWords
    <3>1. <<>> \in Seq({})
      OBVIOUS
    <3> QED BY <2>1, <3>1 DEF NoWords
  <2>2. CASE \E w \in DOMAIN Offers[c] : l = Offers[c][w]
    BY <2>2, CommandPaneAssumptions DEF Catalogs
  <2> QED BY <1>3, <2>1, <2>2
<1> QED BY <1>1, <1>4 DEF NoWords

\* There are finitely many Statements to recall.
LEMMA RecallIsASequence ==
  ASSUME HistoryInv
  PROVE  Len(Recall) \in Nat /\ (Recall # <<>> => Len(Recall) > 0)
<1>1. PICK S : history \in Seq(S)
  BY DEF HistoryInv
<1>2. DOMAIN history = 1 .. Len(history) /\ Len(history) \in Nat
  BY <1>1
<1>3. IsFiniteSet(Latest)
  <2>1. IsFiniteSet(1 .. Len(history))
    BY <1>2, FS_Interval
  <2> QED BY <1>2, <2>1, FS_Subset DEF Latest
<1>4. Cardinality(Latest) \in Nat
  BY <1>3, FS_CardinalityType
<1> DEFINE n == Cardinality(Latest)
           value(k) == history[CHOOSE i \in Latest : Cardinality({j \in Latest : j >= i}) = k]
<1>5. Recall = [k \in 1 .. n |-> value(k)]
  BY DEF Recall
<1> HIDE DEF n, value
<1>6. Recall \in Seq({value(k) : k \in 1 .. n})
  BY <1>4, <1>5 DEF n
<1> QED BY <1>6

LEMMA Numbers == -1 \in Int /\ 0 \in Int
OBVIOUS

Open == TRUE
Closed == FALSE
LEMMA ClosedIsNotOpen == Open /\ ~Closed
BY DEF Open, Closed

LEMMA EditorFields ==
  ASSUME NEW t, NEW a, NEW o, NEW u, NEW n, NEW e \in Int, NEW c, NEW j \in Int, NEW f,
         NEW r, r = Editor(t, a, o, u, n, e, c, j, f)
  PROVE  /\ Shaped(r)
         /\ r.text = t /\ r.at = a /\ r.opened = o /\ r.suppressed = u /\ r.nav = n
         /\ r.selected = e /\ r.cached = c /\ r.index = j /\ r.draft = f
<1>1. /\ r.text = t /\ r.at = a /\ r.opened = o /\ r.suppressed = u /\ r.nav = n
      /\ r.selected = e /\ r.cached = c /\ r.index = j /\ r.draft = f
  BY DEF Editor
<1> QED BY <1>1 DEF Shaped

\* Each operator on the editor, field by field.
LEMMA HoldingForm ==
  ASSUME NEW p, Shaped(p), NEW b
  PROVE  Holding(p, b) =
           Editor(b.text, b.at, p.opened, p.suppressed, p.nav, p.selected, p.cached, p.index, p.draft)
<1>1. PICK t, a, o, u, n, e, c, j, f : p = Editor(t, a, o, u, n, e, c, j, f)
  BY DEF Shaped
<1>2. p.text = t /\ p.at = a /\ p.opened = o /\ p.suppressed = u /\ p.nav = n
  BY <1>1 DEF Editor
<1>3. p.selected = e /\ p.cached = c /\ p.index = j /\ p.draft = f
  BY <1>1 DEF Editor
<1>4. PICK q1 : q1 = [p EXCEPT !.text = b.text]
  OBVIOUS
<1>5. q1 = Editor(b.text, a, o, u, n, e, c, j, f)
  BY <1>1, <1>4 DEF Editor
<1>6. PICK q2 : q2 = [q1 EXCEPT !.at = b.at]
  OBVIOUS
<1>7. q2 = Editor(b.text, b.at, o, u, n, e, c, j, f)
  BY <1>5, <1>6 DEF Editor
<1>8. Holding(p, b) = q2
  BY <1>4, <1>6 DEF Holding
<1> QED BY <1>2, <1>3, <1>7, <1>8

LEMMA RefreshedForm ==
  ASSUME NEW p, Shaped(p), NEW l, l = Suggestions(p)
  PROVE  Refreshed(p) =
           Editor(p.text, p.at, p.opened, p.suppressed, p.nav, Clamped(p.selected, Len(l)), l, p.index, p.draft)
<1>1. PICK t, a, o, u, n, e, c, j, f : p = Editor(t, a, o, u, n, e, c, j, f)
  BY DEF Shaped
<1>2. p.text = t /\ p.at = a /\ p.opened = o /\ p.suppressed = u /\ p.nav = n
  BY <1>1 DEF Editor
<1>3. p.selected = e /\ p.cached = c /\ p.index = j /\ p.draft = f
  BY <1>1 DEF Editor
<1>4. PICK q1 : q1 = [p EXCEPT !.cached = l]
  OBVIOUS
<1>5. q1 = Editor(t, a, o, u, n, e, l, j, f)
  BY <1>1, <1>4 DEF Editor
<1>6. PICK q2 : q2 = [q1 EXCEPT !.selected = Clamped(p.selected, Len(l))]
  OBVIOUS
<1>7. q2 = Editor(t, a, o, u, n, Clamped(p.selected, Len(l)), l, j, f)
  BY <1>5, <1>6 DEF Editor
<1>8. Refreshed(p) = q2
  BY <1>4, <1>6 DEF Refreshed
<1> QED BY <1>2, <1>3, <1>7, <1>8

LEMMA EditorSetForm ==
  ASSUME NEW p, Shaped(p), NEW w
  PROVE  EditorSet(p, w) =
           Editor(w, Len(w), Closed, None, NoNav, 0, NoWords, p.index, p.draft)
<1>1. PICK t, a, o, u, n, e, c, j, f : p = Editor(t, a, o, u, n, e, c, j, f)
  BY DEF Shaped
<1>2. p.text = t /\ p.at = a /\ p.opened = o /\ p.suppressed = u /\ p.nav = n
  BY <1>1 DEF Editor
<1>3. p.selected = e /\ p.cached = c /\ p.index = j /\ p.draft = f
  BY <1>1 DEF Editor
<1>4. PICK q1 : q1 = [p EXCEPT !.text = w]
  OBVIOUS
<1>5. q1 = Editor(w, a, o, u, n, e, c, j, f)
  BY <1>1, <1>4 DEF Editor
<1>6. PICK q2 : q2 = [q1 EXCEPT !.at = Len(w)]
  OBVIOUS
<1>7. q2 = Editor(w, Len(w), o, u, n, e, c, j, f)
  BY <1>5, <1>6 DEF Editor
<1>8. PICK q3 : q3 = [q2 EXCEPT !.selected = 0]
  OBVIOUS
<1>9. q3 = Editor(w, Len(w), o, u, n, 0, c, j, f)
  BY <1>7, <1>8 DEF Editor
<1>10. PICK q4 : q4 = [q3 EXCEPT !.cached = NoWords]
  OBVIOUS
<1>11. q4 = Editor(w, Len(w), o, u, n, 0, NoWords, j, f)
  BY <1>9, <1>10 DEF Editor
<1>12. PICK q5 : q5 = [q4 EXCEPT !.opened = FALSE]
  OBVIOUS
<1>13. q5 = Editor(w, Len(w), Closed, u, n, 0, NoWords, j, f)
  BY <1>11, <1>12 DEF Editor, Closed
<1>14. PICK q6 : q6 = [q5 EXCEPT !.suppressed = None]
  OBVIOUS
<1>15. q6 = Editor(w, Len(w), Closed, None, n, 0, NoWords, j, f)
  BY <1>13, <1>14 DEF Editor
<1>16. PICK q7 : q7 = [q6 EXCEPT !.nav = NoNav]
  OBVIOUS
<1>17. q7 = Editor(w, Len(w), Closed, None, NoNav, 0, NoWords, j, f)
  BY <1>15, <1>16 DEF Editor
<1>18. EditorSet(p, w) = q7
  BY <1>4, <1>6, <1>8, <1>10, <1>12, <1>14, <1>16 DEF EditorSet, Holding, AtEnd
<1> QED BY <1>2, <1>3, <1>17, <1>18

LEMMA NavClearedForm ==
  ASSUME NEW p, Shaped(p)
  PROVE  NavCleared(p) =
           Editor(p.text, p.at, p.opened, p.suppressed, NoNav,
                  IF p.nav = NoNav THEN p.selected ELSE 0, p.cached, p.index, p.draft)
<1>1. CASE p.nav = NoNav
  BY <1>1 DEF Shaped, Editor, NavCleared
<1>2. CASE p.nav # NoNav
  BY <1>2 DEF Shaped, Editor, NavCleared
<1> QED BY <1>1, <1>2

LEMMA NavStartedForm ==
  ASSUME NEW p, Shaped(p), p.nav = NoNav
  PROVE  NavStarted(p) =
           Editor(p.text, p.at, p.opened, p.suppressed,
                  [orig |-> Buffer(p), list |-> Suggestions(p)], p.selected, p.cached, p.index,
                  p.draft)
<1>1. PICK t, a, o, u, n, e, c, j, f : p = Editor(t, a, o, u, n, e, c, j, f)
  BY DEF Shaped
<1> QED BY <1>1 DEF Editor, NavStarted

LEMMA ClosedForm ==
  ASSUME NEW p, Shaped(p)
  PROVE  [p EXCEPT !.opened = FALSE] =
           Editor(p.text, p.at, Closed, p.suppressed, p.nav, p.selected, p.cached, p.index, p.draft)
<1>1. PICK t, a, o, u, n, e, c, j, f : p = Editor(t, a, o, u, n, e, c, j, f)
  BY DEF Shaped
<1>2. p.text = t /\ p.at = a /\ p.opened = o /\ p.suppressed = u /\ p.nav = n
  BY <1>1 DEF Editor
<1>3. p.selected = e /\ p.cached = c /\ p.index = j /\ p.draft = f
  BY <1>1 DEF Editor
<1>4. PICK q1 : q1 = [p EXCEPT !.opened = FALSE]
  OBVIOUS
<1>5. q1 = Editor(t, a, Closed, u, n, e, c, j, f)
  BY <1>1, <1>4 DEF Editor, Closed
<1>6. [p EXCEPT !.opened = FALSE] = q1
  BY <1>4
<1> QED BY <1>2, <1>3, <1>5, <1>6

LEMMA EditedForm ==
  ASSUME NEW p, Shaped(p)
  PROVE  [p EXCEPT !.opened = TRUE, !.index = -1, !.draft = NoWords] =
           Editor(p.text, p.at, Open, p.suppressed, p.nav, p.selected, p.cached, -1, NoWords)
<1>1. PICK t, a, o, u, n, e, c, j, f : p = Editor(t, a, o, u, n, e, c, j, f)
  BY DEF Shaped
<1>2. p.text = t /\ p.at = a /\ p.opened = o /\ p.suppressed = u /\ p.nav = n
  BY <1>1 DEF Editor
<1>3. p.selected = e /\ p.cached = c /\ p.index = j /\ p.draft = f
  BY <1>1 DEF Editor
<1>4. PICK q1 : q1 = [p EXCEPT !.opened = TRUE]
  OBVIOUS
<1>5. q1 = Editor(t, a, Open, u, n, e, c, j, f)
  BY <1>1, <1>4 DEF Editor, Open
<1>6. PICK q2 : q2 = [q1 EXCEPT !.index = -1]
  OBVIOUS
<1>7. q2 = Editor(t, a, Open, u, n, e, c, -1, f)
  BY <1>5, <1>6 DEF Editor
<1>8. PICK q3 : q3 = [q2 EXCEPT !.draft = NoWords]
  OBVIOUS
<1>9. q3 = Editor(t, a, Open, u, n, e, c, -1, NoWords)
  BY <1>7, <1>8 DEF Editor
<1>10. [p EXCEPT !.opened = TRUE, !.index = -1, !.draft = NoWords] = q3
  BY <1>4, <1>6, <1>8
<1> QED BY <1>2, <1>3, <1>9, <1>10

LEMMA SelectedForm ==
  ASSUME NEW p, Shaped(p), NEW k
  PROVE  [p EXCEPT !.selected = k] =
           Editor(p.text, p.at, p.opened, p.suppressed, p.nav, k, p.cached, p.index, p.draft)
<1>1. PICK t, a, o, u, n, e, c, j, f : p = Editor(t, a, o, u, n, e, c, j, f)
  BY DEF Shaped
<1>2. p.text = t /\ p.at = a /\ p.opened = o /\ p.suppressed = u /\ p.nav = n
  BY <1>1 DEF Editor
<1>3. p.selected = e /\ p.cached = c /\ p.index = j /\ p.draft = f
  BY <1>1 DEF Editor
<1>4. PICK q1 : q1 = [p EXCEPT !.selected = k]
  OBVIOUS
<1>5. q1 = Editor(t, a, o, u, n, k, c, j, f)
  BY <1>1, <1>4 DEF Editor
<1>6. [p EXCEPT !.selected = k] = q1
  BY <1>4
<1> QED BY <1>2, <1>3, <1>5, <1>6

LEMMA AcceptedForm ==
  ASSUME NEW p, Shaped(p)
  PROVE  [p EXCEPT !.selected = 0, !.opened = FALSE] =
           Editor(p.text, p.at, Closed, p.suppressed, p.nav, 0, p.cached, p.index, p.draft)
<1>1. PICK t, a, o, u, n, e, c, j, f : p = Editor(t, a, o, u, n, e, c, j, f)
  BY DEF Shaped
<1>2. p.text = t /\ p.at = a /\ p.opened = o /\ p.suppressed = u /\ p.nav = n
  BY <1>1 DEF Editor
<1>3. p.selected = e /\ p.cached = c /\ p.index = j /\ p.draft = f
  BY <1>1 DEF Editor
<1>4. PICK q1 : q1 = [p EXCEPT !.selected = 0]
  OBVIOUS
<1>5. q1 = Editor(t, a, o, u, n, 0, c, j, f)
  BY <1>1, <1>4 DEF Editor
<1>6. PICK q2 : q2 = [q1 EXCEPT !.opened = FALSE]
  OBVIOUS
<1>7. q2 = Editor(t, a, Closed, u, n, 0, c, j, f)
  BY <1>5, <1>6 DEF Editor, Closed
<1>8. [p EXCEPT !.selected = 0, !.opened = FALSE] = q2
  BY <1>4, <1>6
<1> QED BY <1>2, <1>3, <1>7, <1>8

LEMMA DismissedForm ==
  ASSUME NEW p, Shaped(p), NEW s
  PROVE  [p EXCEPT !.suppressed = s, !.selected = 0, !.cached = NoWords, !.opened = FALSE] =
           Editor(p.text, p.at, Closed, s, p.nav, 0, NoWords, p.index, p.draft)
<1>1. PICK t, a, o, u, n, e, c, j, f : p = Editor(t, a, o, u, n, e, c, j, f)
  BY DEF Shaped
<1>2. p.text = t /\ p.at = a /\ p.opened = o /\ p.suppressed = u /\ p.nav = n
  BY <1>1 DEF Editor
<1>3. p.selected = e /\ p.cached = c /\ p.index = j /\ p.draft = f
  BY <1>1 DEF Editor
<1>4. PICK q1 : q1 = [p EXCEPT !.suppressed = s]
  OBVIOUS
<1>5. q1 = Editor(t, a, o, s, n, e, c, j, f)
  BY <1>1, <1>4 DEF Editor
<1>6. PICK q2 : q2 = [q1 EXCEPT !.selected = 0]
  OBVIOUS
<1>7. q2 = Editor(t, a, o, s, n, 0, c, j, f)
  BY <1>5, <1>6 DEF Editor
<1>8. PICK q3 : q3 = [q2 EXCEPT !.cached = NoWords]
  OBVIOUS
<1>9. q3 = Editor(t, a, o, s, n, 0, NoWords, j, f)
  BY <1>7, <1>8 DEF Editor
<1>10. PICK q4 : q4 = [q3 EXCEPT !.opened = FALSE]
  OBVIOUS
<1>11. q4 = Editor(t, a, Closed, s, n, 0, NoWords, j, f)
  BY <1>9, <1>10 DEF Editor, Closed
<1>12. [p EXCEPT !.suppressed = s, !.selected = 0, !.cached = NoWords, !.opened = FALSE] = q4
  BY <1>4, <1>6, <1>8, <1>10
<1> QED BY <1>2, <1>3, <1>11, <1>12

LEMMA IndexForm ==
  ASSUME NEW p, Shaped(p), NEW i
  PROVE  [p EXCEPT !.index = i] =
           Editor(p.text, p.at, p.opened, p.suppressed, p.nav, p.selected, p.cached, i, p.draft)
<1>1. PICK t, a, o, u, n, e, c, j, f : p = Editor(t, a, o, u, n, e, c, j, f)
  BY DEF Shaped
<1>2. p.text = t /\ p.at = a /\ p.opened = o /\ p.suppressed = u /\ p.nav = n
  BY <1>1 DEF Editor
<1>3. p.selected = e /\ p.cached = c /\ p.index = j /\ p.draft = f
  BY <1>1 DEF Editor
<1>4. PICK q1 : q1 = [p EXCEPT !.index = i]
  OBVIOUS
<1>5. q1 = Editor(t, a, o, u, n, e, c, i, f)
  BY <1>1, <1>4 DEF Editor
<1>6. [p EXCEPT !.index = i] = q1
  BY <1>4
<1> QED BY <1>2, <1>3, <1>5, <1>6

LEMMA DraftedForm ==
  ASSUME NEW p, Shaped(p), NEW d, NEW i
  PROVE  [p EXCEPT !.draft = d, !.index = i] =
           Editor(p.text, p.at, p.opened, p.suppressed, p.nav, p.selected, p.cached, i, d)
<1>1. PICK t, a, o, u, n, e, c, j, f : p = Editor(t, a, o, u, n, e, c, j, f)
  BY DEF Shaped
<1>2. p.text = t /\ p.at = a /\ p.opened = o /\ p.suppressed = u /\ p.nav = n
  BY <1>1 DEF Editor
<1>3. p.selected = e /\ p.cached = c /\ p.index = j /\ p.draft = f
  BY <1>1 DEF Editor
<1>4. PICK q1 : q1 = [p EXCEPT !.draft = d]
  OBVIOUS
<1>5. q1 = Editor(t, a, o, u, n, e, c, j, d)
  BY <1>1, <1>4 DEF Editor
<1>6. PICK q2 : q2 = [q1 EXCEPT !.index = i]
  OBVIOUS
<1>7. q2 = Editor(t, a, o, u, n, e, c, i, d)
  BY <1>5, <1>6 DEF Editor
<1>8. [p EXCEPT !.draft = d, !.index = i] = q2
  BY <1>4, <1>6
<1> QED BY <1>2, <1>3, <1>7, <1>8

LEMMA LeftForm ==
  ASSUME NEW p, Shaped(p)
  PROVE  [p EXCEPT !.index = -1, !.draft = NoWords] =
           Editor(p.text, p.at, p.opened, p.suppressed, p.nav, p.selected, p.cached, -1, NoWords)
<1>1. PICK t, a, o, u, n, e, c, j, f : p = Editor(t, a, o, u, n, e, c, j, f)
  BY DEF Shaped
<1>2. p.text = t /\ p.at = a /\ p.opened = o /\ p.suppressed = u /\ p.nav = n
  BY <1>1 DEF Editor
<1>3. p.selected = e /\ p.cached = c /\ p.index = j /\ p.draft = f
  BY <1>1 DEF Editor
<1>4. PICK q1 : q1 = [p EXCEPT !.index = -1]
  OBVIOUS
<1>5. q1 = Editor(t, a, o, u, n, e, c, -1, f)
  BY <1>1, <1>4 DEF Editor
<1>6. PICK q2 : q2 = [q1 EXCEPT !.draft = NoWords]
  OBVIOUS
<1>7. q2 = Editor(t, a, o, u, n, e, c, -1, NoWords)
  BY <1>5, <1>6 DEF Editor
<1>8. [p EXCEPT !.index = -1, !.draft = NoWords] = q2
  BY <1>4, <1>6
<1> QED BY <1>2, <1>3, <1>7, <1>8

LEMMA FreshForm ==
  /\ Shaped(Fresh) /\ MenuInv(Fresh)
  /\ Fresh.index = -1 /\ Fresh.nav = NoNav /\ Fresh.text = NoWords /\ ~Completes(Fresh)
<1>1. Fresh = Editor(NoWords, 0, Closed, None, NoNav, 0, NoWords, -1, NoWords)
  BY DEF Fresh, Editor, Closed
<1>2. /\ Shaped(Fresh)
      /\ Fresh.index = -1 /\ Fresh.nav = NoNav /\ Fresh.text = NoWords /\ Fresh.opened = Closed
      /\ Fresh.selected = 0
  BY <1>1, Numbers, EditorFields
<1>3. MenuInv(Fresh) /\ ~Completes(Fresh)
  BY <1>2, ClosedIsNotOpen DEF MenuInv, Completes
<1> QED BY <1>2, <1>3

LEMMA BuffersAreRecords ==
  ASSUME NEW p
  PROVE  Buffer(p).text = p.text /\ Buffer(p).at = p.at
BY DEF Buffer

\* The menu is the list of the cycle, or what a catalog completes the word before the cursor to,
\* or empty.
LEMMA SuggestionsAreOffered ==
  ASSUME NEW p
  PROVE  /\ p.nav = NoNav /\ p.opened /\ p.suppressed # Buffer(p) =>
              Suggestions(p) = Offered(catalog, Buffer(p))
         /\ p.nav = NoNav /\ Suggestions(p) # NoWords => p.opened /\ p.suppressed # Buffer(p)
         /\ p.nav # NoNav => Suggestions(p) = p.nav.list
BY DEF Suggestions, SuggestionsFrom

LEMMA SuggestionsAreSequences ==
  ASSUME CatalogInv, NEW p, p.nav # NoNav => p.nav.list \in Lists(p.nav.orig)
  PROVE  /\ Len(Suggestions(p)) \in Nat
         /\ Suggestions(p) # NoWords => Len(Suggestions(p)) > 0
<1>1. CASE Suggestions(p) = NoWords
  BY <1>1 DEF NoWords
<1>2. CASE Suggestions(p) # NoWords
  <2>1. Suggestions(p) \in Lists(Buffer(p)) \/ Suggestions(p) \in Lists(p.nav.orig)
    BY <1>2, SuggestionsAreOffered DEF Lists, CatalogInv
  <2> QED BY <1>2, <2>1, ListsAreSequences
<1> QED BY <1>1, <1>2

LEMMA ClampedInList ==
  ASSUME NEW i \in Int, NEW n \in Nat
  PROVE  /\ Clamped(i, n) \in Int
         /\ i >= -1 => Clamped(i, n) >= -1 /\ (n > 0 => Clamped(i, n) < n)
         /\ i = 0 => Clamped(i, n) = 0
         /\ n > 0 /\ i < n => Clamped(i, n) = i
BY DEF Clamped

(**************************** the menu and keys ***************************)

\* What MenuInv says, the menu on the screen aside.
NavigationInv(p) ==
  /\ p.index >= -1
  /\ p.index >= 0 => p.nav = NoNav /\ ~p.opened
  /\ p.nav # NoNav =>
       /\ p.nav.list \in Lists(p.nav.orig) /\ p.nav.list # NoWords
       /\ -1 <= p.selected /\ p.selected < Len(p.nav.list)
  /\ p.nav = NoNav => p.selected = 0

\* Computing the menu anew leaves the text, the position and the cycle as they are.
LEMMA RefreshedKeeps ==
  ASSUME CatalogInv, NEW p, Shaped(p), NavigationInv(p), NEW r, r = Refreshed(p)
  PROVE  /\ Shaped(r) /\ MenuInv(r)
         /\ r.text = p.text /\ r.index = p.index /\ r.draft = p.draft /\ r.nav = p.nav
         /\ p.nav # NoNav => r.selected = p.selected
         /\ r.cached = Suggestions(r)
<1> DEFINE list == Suggestions(p)
           k == Clamped(p.selected, Len(list))
<1>1. r = Editor(p.text, p.at, p.opened, p.suppressed, p.nav, k, list, p.index, p.draft)
  BY RefreshedForm
<1>3. Len(list) \in Nat /\ (list # NoWords => Len(list) > 0)
  BY SuggestionsAreSequences DEF NavigationInv
<1>4. k \in Int
  BY <1>3, ClampedInList DEF Shaped
<1>5. p.index \in Int
  BY DEF Shaped
<1> HIDE DEF list, k
<1>2. /\ Shaped(r)
      /\ r.text = p.text /\ r.at = p.at /\ r.opened = p.opened /\ r.nav = p.nav
      /\ r.selected = k /\ r.cached = list /\ r.index = p.index /\ r.draft = p.draft
      /\ r.suppressed = p.suppressed
  BY <1>1, <1>4, <1>5, Numbers, EditorFields
<1>9. Buffer(r) = Buffer(p)
  BY <1>2 DEF Buffer
<1>10. r.cached = Suggestions(r)
  BY <1>2, <1>9 DEF Suggestions, SuggestionsFrom, list
<1>6. ASSUME p.nav # NoNav
      PROVE  /\ list \in Lists(p.nav.orig) /\ list # NoWords /\ list = p.nav.list
             /\ r.selected = p.selected /\ -1 <= r.selected /\ r.selected < Len(list)
  <2>1. list = p.nav.list /\ list \in Lists(p.nav.orig) /\ list # NoWords
    BY <1>6, SuggestionsAreOffered DEF NavigationInv, list
  <2>2. p.selected \in Int /\ -1 <= p.selected /\ p.selected < Len(list)
    BY <1>6, <2>1 DEF NavigationInv, Shaped
  <2>3. k = p.selected
    BY <1>3, <2>1, <2>2, ClampedInList DEF k
  <2> QED BY <1>2, <2>1, <2>2, <2>3
<1>7. ASSUME p.nav = NoNav
      PROVE  /\ r.selected = 0
             /\ r.opened /\ r.suppressed # Buffer(r) => r.cached \in Lists(Buffer(r))
  <2>1. p.selected \in Int /\ p.selected = 0
    BY <1>7 DEF NavigationInv, Shaped
  <2>2. p.opened /\ p.suppressed # Buffer(p) => list \in Lists(Buffer(p))
    BY <1>7, SuggestionsAreOffered DEF list, Lists, CatalogInv
  <2>3. k = 0
    BY <1>3, <2>1, ClampedInList DEF k
  <2> QED BY <1>2, <1>9, <2>2, <2>3
<1>8. MenuInv(r)
  BY <1>2, <1>6, <1>7 DEF MenuInv, NavigationInv
<1> QED BY <1>2, <1>6, <1>8, <1>10

LEMMA MenuIsNavigation ==
  ASSUME NEW p, MenuInv(p)
  PROVE  NavigationInv(p)
BY DEF MenuInv, NavigationInv

\* The editor takes a key: an edit leaves History and the cycle, a move keeps both.
LEMMA KeyedKeeps ==
  ASSUME CatalogInv, NEW p, Shaped(p), MenuInv(p), NEW b, NEW r, r = Keyed(p, b)
  PROVE  /\ Shaped(r) /\ MenuInv(r) /\ r.text = b.text /\ r.cached = Suggestions(r)
         /\ b.text # p.text => r.index = -1 /\ r.nav = NoNav
         /\ b.text = p.text =>
              /\ r.index = p.index /\ r.draft = p.draft /\ r.nav = p.nav
              /\ p.nav # NoNav => r.selected = p.selected
<1>0. p.index \in Int /\ p.selected \in Int
  BY DEF Shaped
<1>1. PICK q : q = Holding(p, b)
  OBVIOUS
<1>2. q = Editor(b.text, b.at, p.opened, p.suppressed, p.nav, p.selected, p.cached, p.index, p.draft)
  BY <1>1, HoldingForm
<1>3. /\ Shaped(q) /\ q.text = b.text /\ q.opened = p.opened /\ q.nav = p.nav
      /\ q.selected = p.selected /\ q.index = p.index /\ q.draft = p.draft
  BY <1>0, <1>2, Numbers, EditorFields
<1>4. CASE b.text # p.text
  <2>1. PICK c : c = NavCleared(q)
    OBVIOUS
  <2>2. PICK k : k = IF q.nav = NoNav THEN q.selected ELSE 0
    OBVIOUS
  <2>3. k \in Int /\ k = 0
    BY <1>3, <2>2 DEF Shaped, MenuInv
  <2>4. c = Editor(q.text, q.at, q.opened, q.suppressed, NoNav, k, q.cached, q.index, q.draft)
    BY <1>3, <2>1, <2>2, NavClearedForm
  <2>5. Shaped(c) /\ c.text = b.text /\ c.nav = NoNav /\ c.selected = k
    BY <1>0, <1>3, <2>3, <2>4, Numbers, EditorFields
  <2>6. PICK e : e = [c EXCEPT !.opened = TRUE, !.index = -1, !.draft = NoWords]
    OBVIOUS
  <2>7. e = Editor(c.text, c.at, Open, c.suppressed, c.nav, c.selected, c.cached, -1, NoWords)
    BY <2>5, <2>6, EditedForm
  <2>8. /\ Shaped(e) /\ e.text = b.text /\ e.opened = Open /\ e.nav = NoNav /\ e.selected = k
        /\ e.index = -1
    BY <2>3, <2>5, <2>7, Numbers, EditorFields
  <2>9. NavigationInv(e)
    BY <2>3, <2>8, ClosedIsNotOpen DEF NavigationInv
  <2>10. r = Refreshed(e)
    BY <1>1, <1>4, <2>1, <2>6 DEF Keyed
  <2> QED BY <1>4, <2>8, <2>9, <2>10, RefreshedKeeps
<1>5. CASE b.text = p.text
  <2>1. PICK e : e = [q EXCEPT !.opened = FALSE]
    OBVIOUS
  <2>2. e = Editor(q.text, q.at, Closed, q.suppressed, q.nav, q.selected, q.cached, q.index, q.draft)
    BY <1>3, <2>1, ClosedForm
  <2>3. /\ Shaped(e) /\ e.text = b.text /\ e.opened = Closed /\ e.nav = p.nav /\ e.index = p.index
        /\ e.selected = p.selected /\ e.draft = p.draft
    BY <1>0, <1>3, <2>2, Numbers, EditorFields
  <2>4. NavigationInv(e)
    BY <2>3, ClosedIsNotOpen DEF NavigationInv, MenuInv
  <2>5. r = Refreshed(e)
    BY <1>1, <1>5, <2>1 DEF Keyed
  <2> QED BY <1>5, <2>3, <2>4, <2>5, RefreshedKeeps
<1> QED BY <1>4, <1>5

\* Closing the menu changes nothing else.
LEMMA ClosedKeeps ==
  ASSUME NEW p, Shaped(p), MenuInv(p), NEW r,
         r = Editor(p.text, p.at, Closed, p.suppressed, p.nav, p.selected, p.cached, p.index,
                    p.draft)
  PROVE  /\ Shaped(r) /\ MenuInv(r) /\ ~r.opened
         /\ r.text = p.text /\ r.at = p.at /\ r.index = p.index /\ r.draft = p.draft
         /\ r.nav = p.nav /\ r.selected = p.selected /\ r.cached = p.cached
<1>2. p.index \in Int /\ p.selected \in Int
  BY DEF Shaped
<1>3. /\ Shaped(r) /\ r.opened = Closed
      /\ r.text = p.text /\ r.at = p.at /\ r.index = p.index /\ r.draft = p.draft
      /\ r.nav = p.nav /\ r.selected = p.selected /\ r.cached = p.cached
  BY <1>2, EditorFields
<1>4. ~r.opened
  BY <1>3, ClosedIsNotOpen
<1>5. MenuInv(r)
  BY <1>3, <1>4 DEF MenuInv
<1> QED BY <1>3, <1>4, <1>5

\* A position in History shows no menu.
LEMMA MenuMeansNoPosition ==
  ASSUME CatalogInv, NEW p, Shaped(p), MenuInv(p), Suggestions(p) # NoWords
  PROVE  /\ p.index = -1
         /\ p.nav = NoNav => /\ p.opened /\ p.suppressed # Buffer(p)
                             /\ Suggestions(p) \in Lists(Buffer(p))
         /\ p.nav # NoNav => Suggestions(p) = p.nav.list
BY SuggestionsAreOffered DEF MenuInv, Shaped, Lists, CatalogInv

LEMMA NoMenuMeansNoCycle ==
  ASSUME NEW p, MenuInv(p), Suggestions(p) = NoWords
  PROVE  p.nav = NoNav
BY SuggestionsAreOffered DEF MenuInv

LEMMA AcceptedKeeps ==
  ASSUME CatalogInv, NEW p, Shaped(p), MenuInv(p), Suggestions(p) # NoWords,
         NEW r, r = Accepted(p)
  PROVE  Shaped(r) /\ MenuInv(r) /\ r.index = -1 /\ r.nav = NoNav /\ ~Completes(r)
<1>1. p.index = -1 /\ p.selected \in Int
  BY MenuMeansNoPosition DEF Shaped
<1>2. CASE p.nav # NoNav
  <2>1. PICK c : c = NavCleared(p)
    OBVIOUS
  <2>2. c = Editor(p.text, p.at, p.opened, p.suppressed, NoNav, 0, p.cached, p.index, p.draft)
    BY <1>2, <2>1, NavClearedForm
  <2>3. Shaped(c) /\ c.nav = NoNav /\ c.index = -1 /\ c.selected = 0
    BY <1>1, <2>2, Numbers, EditorFields
  <2>4. r = [c EXCEPT !.opened = FALSE]
    BY <1>2, <2>1 DEF Accepted
  <2>5. r = Editor(c.text, c.at, Closed, c.suppressed, c.nav, c.selected, c.cached, c.index, c.draft)
    BY <2>3, <2>4, ClosedForm
  <2>6. Shaped(r) /\ r.nav = NoNav /\ r.index = -1 /\ r.selected = 0 /\ r.opened = Closed
    BY <2>3, <2>5, Numbers, EditorFields
  <2>7. MenuInv(r) /\ ~Completes(r)
    BY <2>6, ClosedIsNotOpen DEF MenuInv, Completes
  <2> QED BY <2>6, <2>7
<1>3. CASE p.nav = NoNav
  <2>1. PICK b : r = [Holding(p, b) EXCEPT !.selected = 0, !.opened = FALSE]
    BY <1>3 DEF Accepted
  <2>2. PICK h : h = Holding(p, b)
    OBVIOUS
  <2>3. h = Editor(b.text, b.at, p.opened, p.suppressed, p.nav, p.selected, p.cached, p.index,
                   p.draft)
    BY <2>2, HoldingForm
  <2>4. Shaped(h) /\ h.nav = NoNav /\ h.index = -1
    BY <1>1, <1>3, <2>3, Numbers, EditorFields
  <2>5. r = Editor(h.text, h.at, Closed, h.suppressed, h.nav, 0, h.cached, h.index, h.draft)
    BY <2>1, <2>2, <2>4, AcceptedForm
  <2>6. Shaped(r) /\ r.nav = NoNav /\ r.index = -1 /\ r.selected = 0 /\ r.opened = Closed
    BY <2>4, <2>5, Numbers, EditorFields
  <2>7. MenuInv(r) /\ ~Completes(r)
    BY <2>6, ClosedIsNotOpen DEF MenuInv, Completes
  <2> QED BY <2>6, <2>7
<1> QED BY <1>2, <1>3

\* A step of the cycle: the text it started from is in the restore slot, and the buffer holds
\* one completion of it, or it.
LEMMA CycleStarts ==
  ASSUME CatalogInv, NEW p, Shaped(p), MenuInv(p), Suggestions(p) # NoWords,
         NEW q, q = NavStarted(p)
  PROVE  /\ Shaped(q) /\ MenuInv(q) /\ q.nav # NoNav /\ q.index = -1
         /\ q.cached = p.cached /\ q.nav.list = Suggestions(p)
         /\ q.selected \in -1 .. Len(q.nav.list) - 1 /\ Len(q.nav.list) \in Nat
         /\ q.nav.orig.text = IF p.nav = NoNav THEN p.text ELSE p.nav.orig.text
<1>1. p.index = -1 /\ p.selected \in Int
  BY MenuMeansNoPosition DEF Shaped
<1>2. CASE p.nav # NoNav
  <2>1. q = p
    BY <1>2 DEF NavStarted
  <2>2. Len(p.nav.list) \in Nat
    BY <1>2, ListsAreSequences DEF MenuInv
  <2>3. p.selected \in -1 .. Len(p.nav.list) - 1
    BY <1>1, <1>2, <2>2 DEF MenuInv
  <2> QED BY <1>1, <1>2, <2>1, <2>2, <2>3, SuggestionsAreOffered
<1>3. CASE p.nav = NoNav
  <2>1. PICK v : v = [orig |-> Buffer(p), list |-> Suggestions(p)]
    OBVIOUS
  <2>2. v # NoNav /\ v.orig = Buffer(p) /\ v.list = Suggestions(p)
    BY <2>1, ACycleIsSomething
  <2>3. q = Editor(p.text, p.at, p.opened, p.suppressed, v, p.selected, p.cached, p.index, p.draft)
    BY <1>3, <2>1, NavStartedForm
  <2>4. /\ Shaped(q) /\ q.nav = v /\ q.index = -1 /\ q.selected = p.selected
        /\ q.cached = p.cached
    BY <1>1, <2>3, Numbers, EditorFields
  <2>5. p.opened /\ p.suppressed # Buffer(p) /\ v.list \in Lists(Buffer(p)) /\ v.list # NoWords
    BY <1>3, <2>2, MenuMeansNoPosition
  <2>6. p.cached \in Lists(Buffer(p)) /\ p.selected = 0
    BY <1>3, <2>5 DEF MenuInv
  <2>7. Len(v.list) \in Nat /\ Len(v.list) > 0
    BY <2>5, ListsAreSequences
  <2>9. MenuInv(q)
    BY <1>1, <2>2, <2>4, <2>5, <2>6, <2>7 DEF MenuInv
  <2>10. q.selected \in -1 .. Len(q.nav.list) - 1
    BY <1>1, <2>4, <2>6, <2>7
  <2>11. q.nav.orig.text = p.text
    BY <2>2, <2>4, BuffersAreRecords
  <2> QED BY <1>3, <2>2, <2>4, <2>7, <2>9, <2>10, <2>11
<1> QED BY <1>2, <1>3

LEMMA CycleMoves ==
  ASSUME NEW q, Shaped(q), MenuInv(q), q.nav # NoNav, q.index = -1,
         NEW i \in Int, -1 <= i, i < Len(q.nav.list), NEW b, NEW r,
         r = Holding([q EXCEPT !.selected = i], b)
  PROVE  /\ Shaped(r) /\ MenuInv(r) /\ r.nav = q.nav /\ r.selected = i /\ r.index = -1
         /\ r.text = b.text /\ r.cached = q.cached
<1>1. PICK c : c = [q EXCEPT !.selected = i]
  OBVIOUS
<1>2. c = Editor(q.text, q.at, q.opened, q.suppressed, q.nav, i, q.cached, q.index, q.draft)
  BY <1>1, SelectedForm
<1>3. /\ Shaped(c) /\ c.nav = q.nav /\ c.selected = i /\ c.index = -1 /\ c.cached = q.cached
  BY <1>2, Numbers, EditorFields
<1>4. r = Editor(b.text, b.at, c.opened, c.suppressed, c.nav, c.selected, c.cached, c.index, c.draft)
  BY <1>1, <1>3, HoldingForm
<1>5. /\ Shaped(r) /\ r.nav = q.nav /\ r.selected = i /\ r.index = -1 /\ r.text = b.text
      /\ r.cached = q.cached
  BY <1>3, <1>4, Numbers, EditorFields
<1>6. MenuInv(r)
  BY <1>5 DEF MenuInv
<1> QED BY <1>5, <1>6

LEMMA SlotsOfACycle ==
  ASSUME NEW n \in Nat, NEW i \in -1 .. n - 1
  PROVE  NextOf(i, n) \in -1 .. n - 1 /\ PrevOf(i, n) \in -1 .. n - 1
<1>1. NextOf(i, n) \in -1 .. n - 1
  BY DEF NextOf
<1>2. PrevOf(i, n) \in -1 .. n - 1
  BY DEF PrevOf
<1> QED BY <1>1, <1>2

LEMMA CycledKeeps ==
  ASSUME CatalogInv, NEW p, Shaped(p), MenuInv(p), Suggestions(p) # NoWords,
         NEW r, r = Cycled(p, NextOf) \/ r = Cycled(p, PrevOf)
  PROVE  /\ Shaped(r) /\ MenuInv(r) /\ r.nav # NoNav /\ r.index = -1
         /\ r.cached = p.cached /\ r.nav.list = Suggestions(p)
         /\ r.nav.orig.text = IF p.nav = NoNav THEN p.text ELSE p.nav.orig.text
         /\ r.text = IF r.selected < 0 THEN r.nav.orig.text
                     ELSE Completed(r.nav.orig, r.nav.list[r.selected + 1]).text
<1>1. PICK q : q = NavStarted(p)
  OBVIOUS
<1>2. /\ Shaped(q) /\ MenuInv(q) /\ q.nav # NoNav /\ q.index = -1
      /\ q.selected \in -1 .. Len(q.nav.list) - 1 /\ Len(q.nav.list) \in Nat
      /\ q.nav.orig.text = IF p.nav = NoNav THEN p.text ELSE p.nav.orig.text
      /\ q.cached = p.cached /\ q.nav.list = Suggestions(p)
  BY <1>1, CycleStarts
<1> DEFINE Held(i) == IF i < 0 THEN q.nav.orig ELSE Completed(q.nav.orig, q.nav.list[i + 1])
<1>3. PICK i : /\ i \in Int /\ -1 <= i /\ i < Len(q.nav.list)
               /\ r = Holding([q EXCEPT !.selected = i], Held(i))
  <2>1. CASE r = Cycled(p, NextOf)
    <3>1. r = Holding([q EXCEPT !.selected = NextOf(q.selected, Len(q.nav.list))],
                      Held(NextOf(q.selected, Len(q.nav.list))))
      BY <1>1, <2>1 DEF Cycled
    <3>2. /\ NextOf(q.selected, Len(q.nav.list)) \in Int
          /\ -1 <= NextOf(q.selected, Len(q.nav.list))
          /\ NextOf(q.selected, Len(q.nav.list)) < Len(q.nav.list)
      <4>1. NextOf(q.selected, Len(q.nav.list)) \in -1 .. Len(q.nav.list) - 1
        BY <1>2, SlotsOfACycle
      <4> QED BY <1>2, <4>1
    <3> HIDE DEF Held
    <3> QED BY <3>1, <3>2
  <2>2. CASE r = Cycled(p, PrevOf)
    <3>1. r = Holding([q EXCEPT !.selected = PrevOf(q.selected, Len(q.nav.list))],
                      Held(PrevOf(q.selected, Len(q.nav.list))))
      BY <1>1, <2>2 DEF Cycled
    <3>2. /\ PrevOf(q.selected, Len(q.nav.list)) \in Int
          /\ -1 <= PrevOf(q.selected, Len(q.nav.list))
          /\ PrevOf(q.selected, Len(q.nav.list)) < Len(q.nav.list)
      <4>1. PrevOf(q.selected, Len(q.nav.list)) \in -1 .. Len(q.nav.list) - 1
        BY <1>2, SlotsOfACycle
      <4> QED BY <1>2, <4>1
    <3> HIDE DEF Held
    <3> QED BY <3>1, <3>2
  <2> QED BY <2>1, <2>2
<1>4. PICK b : b = Held(i)
  OBVIOUS
<1>5. /\ Shaped(r) /\ MenuInv(r) /\ r.nav = q.nav /\ r.selected = i /\ r.index = -1
      /\ r.text = b.text /\ r.cached = q.cached
  BY <1>2, <1>3, <1>4, CycleMoves
<1>6. r.text = IF r.selected < 0 THEN r.nav.orig.text
               ELSE Completed(r.nav.orig, r.nav.list[r.selected + 1]).text
  BY <1>4, <1>5
<1> QED BY <1>2, <1>5, <1>6

\* A text that is put into the editor ends the cycle and keeps the position in History.
LEMMA EditorSetKeeps ==
  ASSUME NEW p, Shaped(p), p.index >= -1, NEW t, NEW r, r = EditorSet(p, t)
  PROVE  /\ Shaped(r) /\ MenuInv(r) /\ r.nav = NoNav /\ r.text = t
         /\ r.index = p.index /\ r.draft = p.draft /\ ~Completes(r)
<1>1. r = Editor(t, Len(t), Closed, None, NoNav, 0, NoWords, p.index, p.draft)
  BY EditorSetForm
<1>2. p.index \in Int
  BY DEF Shaped
<1>3. PICK x : x = r
  OBVIOUS
<1>4. /\ Shaped(r) /\ r.nav = NoNav /\ r.text = t /\ r.index = p.index /\ r.draft = p.draft
      /\ r.selected = 0 /\ r.opened = Closed
  BY <1>1, <1>2, Numbers, EditorFields
<1>5. MenuInv(r) /\ ~Completes(r)
  BY <1>4, ClosedIsNotOpen DEF MenuInv, Completes
<1> QED BY <1>4, <1>5

LEMMA DismissedKeeps ==
  ASSUME NEW p, Shaped(p), MenuInv(p), NEW r, r = Dismissed(p)
  PROVE  /\ Shaped(r) /\ MenuInv(r) /\ r.nav = NoNav /\ r.index = p.index /\ r.draft = p.draft
         /\ r.text = IF p.nav = NoNav THEN p.text ELSE p.nav.orig.text
         /\ ~Completes(r)
<1>1. p.index \in Int /\ p.selected \in Int
  BY DEF Shaped
<1>2. PICK q : q = IF p.nav = NoNav THEN p ELSE Holding(NavCleared(p), p.nav.orig)
  OBVIOUS
<1>3. /\ Shaped(q) /\ q.nav = NoNav /\ q.index = p.index /\ q.draft = p.draft
      /\ q.text = IF p.nav = NoNav THEN p.text ELSE p.nav.orig.text
  <2>1. CASE p.nav = NoNav
    BY <1>2, <2>1
  <2>2. CASE p.nav # NoNav
    <3>1. PICK c : c = NavCleared(p)
      OBVIOUS
    <3>2. c = Editor(p.text, p.at, p.opened, p.suppressed, NoNav, 0, p.cached, p.index, p.draft)
      BY <2>2, <3>1, NavClearedForm
    <3>3. Shaped(c) /\ c.nav = NoNav /\ c.index = p.index /\ c.draft = p.draft /\ c.selected = 0
      BY <1>1, <3>2, Numbers, EditorFields
    <3>4. q = Holding(c, p.nav.orig)
      BY <1>2, <2>2, <3>1
    <3>5. q = Editor(p.nav.orig.text, p.nav.orig.at, c.opened, c.suppressed, c.nav, c.selected,
                     c.cached, c.index, c.draft)
      BY <3>3, <3>4, HoldingForm
    <3>6. /\ Shaped(q) /\ q.nav = NoNav /\ q.index = p.index /\ q.draft = p.draft
          /\ q.text = p.nav.orig.text
      BY <1>1, <3>3, <3>5, Numbers, EditorFields
    <3> QED BY <2>2, <3>6
  <2> QED BY <2>1, <2>2
<1>4. PICK s : r = [q EXCEPT !.suppressed = s, !.selected = 0, !.cached = NoWords,
                             !.opened = FALSE]
  BY <1>2 DEF Dismissed
<1>5. r = Editor(q.text, q.at, Closed, s, q.nav, 0, NoWords, q.index, q.draft)
  BY <1>3, <1>4, DismissedForm
<1>6. q.index \in Int
  BY <1>1, <1>3
<1>7. /\ Shaped(r) /\ r.nav = q.nav /\ r.text = q.text /\ r.index = q.index /\ r.draft = q.draft
      /\ r.selected = 0 /\ r.opened = Closed
  BY <1>5, <1>6, Numbers, EditorFields
<1>8. MenuInv(r) /\ ~Completes(r)
  BY <1>3, <1>7, ClosedIsNotOpen DEF MenuInv, Completes
<1> QED BY <1>3, <1>7, <1>8

(*************************** History navigation ***************************)

\* The buffer goes into the draft when History is entered, and comes back when it is left.
LEMMA OlderKeeps ==
  ASSUME NEW p, Shaped(p), MenuInv(p), p.nav = NoNav, HistoryInv, NEW o,
         NEW r, r = Older(p)
  PROVE  /\ Shaped(r) /\ MenuInv(r)
         /\ TextKept(p, o, Recall) => TextKept(r, o, Recall)
         /\ r = p \/ ~Completes(r)
<1>1. p.index \in Int /\ p.index >= -1
  BY DEF Shaped, MenuInv
<1>2. PICK l : l = Recall
  OBVIOUS
<1>3. Len(l) \in Nat /\ (l # <<>> => Len(l) > 0)
  BY <1>2, RecallIsASequence
<1>4. CASE p.index = -1 /\ l # <<>>
  <2>1. PICK q : q = [p EXCEPT !.draft = p.text, !.index = 0]
    OBVIOUS
  <2>2. q = Editor(p.text, p.at, p.opened, p.suppressed, p.nav, p.selected, p.cached, 0, p.text)
    BY <2>1, DraftedForm
  <2>3. p.selected \in Int
    BY DEF Shaped
  <2>4. Shaped(q) /\ q.index = 0 /\ q.draft = p.text
    BY <2>2, <2>3, Numbers, EditorFields
  <2>5. r = EditorSet(q, l[1])
    BY <1>2, <1>4, <2>1 DEF Older
  <2>6. /\ Shaped(r) /\ MenuInv(r) /\ r.nav = NoNav /\ r.text = l[1] /\ r.index = 0
        /\ r.draft = p.text /\ ~Completes(r)
    BY <2>4, <2>5, EditorSetKeeps
  <2>7. TextKept(p, o, l) => o = p.text
    BY <1>4 DEF TextKept
  <2>8. TextKept(p, o, l) => TextKept(r, o, l)
    BY <1>3, <1>4, <2>6, <2>7 DEF TextKept
  <2> QED BY <1>2, <2>6, <2>8
<1>5. CASE p.index # -1 /\ p.index < Len(l) - 1
  <2>1. PICK q : q = [p EXCEPT !.index = p.index + 1]
    OBVIOUS
  <2>2. q = Editor(p.text, p.at, p.opened, p.suppressed, p.nav, p.selected, p.cached, p.index + 1,
                   p.draft)
    BY <2>1, IndexForm
  <2>3. p.selected \in Int /\ p.index + 1 \in Int
    BY <1>1 DEF Shaped
  <2>4. Shaped(q) /\ q.index = p.index + 1 /\ q.draft = p.draft
    BY <2>2, <2>3, Numbers, EditorFields
  <2>5. r = EditorSet(q, l[p.index + 2])
    BY <1>2, <1>5, <2>1 DEF Older
  <2>6. /\ Shaped(r) /\ MenuInv(r) /\ r.nav = NoNav /\ r.text = l[p.index + 2]
        /\ r.index = p.index + 1 /\ r.draft = p.draft /\ ~Completes(r)
    BY <1>1, <2>4, <2>5, EditorSetKeeps
  <2>7. TextKept(p, o, l) => o = p.draft
    BY <1>1, <1>5 DEF TextKept
  <2>8. p.index + 2 = r.index + 1 /\ r.index >= 0 /\ r.index < Len(l)
    BY <1>1, <1>3, <1>5, <2>6
  <2>9. TextKept(p, o, l) => TextKept(r, o, l)
    BY <2>6, <2>7, <2>8 DEF TextKept
  <2> QED BY <1>2, <2>6, <2>9
<1>6. CASE ~(p.index = -1 /\ l # <<>>) /\ ~(p.index # -1 /\ p.index < Len(l) - 1)
  <2>1. r = p
    BY <1>2, <1>6 DEF Older
  <2> QED BY <2>1
<1> QED BY <1>4, <1>5, <1>6

LEMMA NewerKeeps ==
  ASSUME NEW p, Shaped(p), MenuInv(p), p.nav = NoNav, HistoryInv, NEW o,
         NEW r, r = Newer(p)
  PROVE  /\ Shaped(r) /\ MenuInv(r)
         /\ TextKept(p, o, Recall) => TextKept(r, o, Recall)
         /\ r = p \/ ~Completes(r)
<1>1. p.index \in Int /\ p.index >= -1 /\ p.selected \in Int
  BY DEF Shaped, MenuInv
<1>2. PICK l : l = Recall
  OBVIOUS
<1>3. Len(l) \in Nat
  BY <1>2, RecallIsASequence
<1>4. CASE p.index = -1
  <2>1. r = p
    BY <1>4 DEF Newer
  <2> QED BY <2>1
<1>5. CASE p.index > 0
  <2>1. PICK q : q = [p EXCEPT !.index = p.index - 1]
    OBVIOUS
  <2>2. q = Editor(p.text, p.at, p.opened, p.suppressed, p.nav, p.selected, p.cached, p.index - 1,
                   p.draft)
    BY <2>1, IndexForm
  <2>3. p.index - 1 \in Int /\ p.index - 1 >= 0 /\ p.index # -1
    BY <1>1, <1>5
  <2>4. /\ Shaped(q) /\ q.index = p.index - 1 /\ q.draft = p.draft /\ q.nav = NoNav
        /\ q.opened = p.opened /\ q.selected = p.selected
    BY <1>1, <2>2, <2>3, EditorFields
  <2>5. r = IF q.index < Len(l) THEN EditorSet(q, l[q.index + 1]) ELSE q
    BY <1>2, <1>5, <2>1, <2>3 DEF Newer
  <2>6. CASE q.index < Len(l)
    <3>1. /\ Shaped(r) /\ MenuInv(r) /\ r.nav = NoNav /\ r.text = l[q.index + 1]
          /\ r.index = q.index /\ r.draft = p.draft /\ ~Completes(r)
      BY <2>3, <2>4, <2>5, <2>6, EditorSetKeeps
    <3>2. TextKept(p, o, l) => TextKept(r, o, l)
      BY <1>1, <1>5, <2>3, <2>4, <2>6, <3>1 DEF TextKept
    <3> QED BY <1>2, <3>1, <3>2
  <2>7. CASE ~(q.index < Len(l))
    <3>1. r = q
      BY <2>5, <2>7
    <3>2. ~p.opened /\ p.selected = 0
      BY <1>1, <1>5 DEF MenuInv
    <3>3. MenuInv(q) /\ ~Completes(q)
      BY <2>3, <2>4, <3>2 DEF MenuInv, Completes
    <3>4. ~TextKept(p, o, l)
      BY <1>1, <1>3, <1>5, <2>4, <2>7 DEF TextKept
    <3> QED BY <1>2, <2>4, <3>1, <3>3, <3>4
  <2> QED BY <2>6, <2>7
<1>6. CASE p.index = 0
  <2>1. PICK q : q = [p EXCEPT !.index = -1, !.draft = NoWords]
    OBVIOUS
  <2>2. q = Editor(p.text, p.at, p.opened, p.suppressed, p.nav, p.selected, p.cached, -1, NoWords)
    BY <2>1, LeftForm
  <2>3. Shaped(q) /\ q.index = -1
    BY <1>1, <2>2, Numbers, EditorFields
  <2>4. r = EditorSet(q, p.draft)
    BY <1>6, <2>1 DEF Newer
  <2>5. /\ Shaped(r) /\ MenuInv(r) /\ r.nav = NoNav /\ r.text = p.draft /\ r.index = -1
        /\ ~Completes(r)
    BY <2>3, <2>4, EditorSetKeeps
  <2>6. TextKept(p, o, l) => TextKept(r, o, l)
    BY <1>6, <2>5 DEF TextKept
  <2> QED BY <1>2, <2>5, <2>6
<1> QED BY <1>1, <1>4, <1>5, <1>6

(******************************** the steps *******************************)

LEMMA HistoryUntouched ==
  ASSUME HistoryInv, history' = history
  PROVE  HistoryInv' /\ Recall' = Recall
BY DEF HistoryInv, Recall, Latest

\* What the user writes is the text, when it leaves History and the cycle.
LEMMA Written ==
  ASSUME Shaped(pane'), MenuInv(pane'), HistoryInv', pane'.index = -1, pane'.nav = NoNav,
         own' = pane'.text
  PROVE  PaneInv'
<1>1. TextKept(pane', own', Recall')
  BY DEF TextKept
<1> QED BY <1>1 DEF PaneInv

\* What arrives from elsewhere is the text, or the user was navigating.
LEMMA ArrivedKeeps ==
  ASSUME Shaped(pane'), MenuInv(pane'), HistoryInv', Arrived
  PROVE  PaneInv'
<1>1. ASSUME ~overwritten' PROVE TextKept(pane', own', Recall')
  <2>1. ~Navigates(pane')
    BY <1>1 DEF Arrived
  <2>2. own' = pane'.text
    BY <2>1 DEF Arrived
  <2>3. ~(pane'.index >= 0) /\ pane'.nav = NoNav
    BY <2>1 DEF Navigates
  <2> QED BY <2>2, <2>3 DEF TextKept
<1> QED BY <1>1 DEF PaneInv

\* The user wrote nothing, and the text is kept where it may be.
LEMMA Unwrote ==
  ASSUME PaneInv, history' = history, Unwritten, Shaped(pane'), MenuInv(pane'),
         TextKept(pane, own, Recall) => TextKept(pane', own, Recall)
  PROVE  PaneInv'
<1>1. HistoryInv' /\ Recall' = Recall
  BY HistoryUntouched DEF PaneInv
<1> QED BY <1>1 DEF PaneInv, Unwritten

LEMMA PaneUntouched ==
  ASSUME PaneInv, history' = history, Unwritten, pane' = pane
  PROVE  PaneInv'
BY Unwrote DEF PaneInv

LEMMA EditorKeyKeeps ==
  ASSUME CatalogInv, PaneInv, NEW b, EditorKey(b)
  PROVE  PaneInv'
<1>1. pane' = Keyed(pane, b) /\ history' = history
  BY DEF EditorKey, outside
<1>2. Shaped(pane) /\ MenuInv(pane) /\ HistoryInv
  BY DEF PaneInv
<1>3. /\ Shaped(pane') /\ MenuInv(pane') /\ pane'.text = b.text
      /\ b.text # pane.text => pane'.index = -1 /\ pane'.nav = NoNav
      /\ b.text = pane.text =>
           /\ pane'.index = pane.index /\ pane'.draft = pane.draft /\ pane'.nav = pane.nav
           /\ pane.nav # NoNav => pane'.selected = pane.selected
  BY <1>1, <1>2, KeyedKeeps
<1>4. CASE b.text # pane.text
  <2>1. own' = b.text
    BY <1>4 DEF EditorKey, Wrote
  <2>2. HistoryInv'
    BY <1>1, <1>2, HistoryUntouched
  <2> QED BY <1>3, <1>4, <2>1, <2>2, Written
<1>5. CASE b.text = pane.text
  <2>1. Unwritten
    BY <1>5 DEF EditorKey
  <2>2. TextKept(pane, own, Recall) => TextKept(pane', own, Recall)
    BY <1>3, <1>5 DEF TextKept
  <2> QED BY <1>1, <1>3, <2>1, <2>2, Unwrote
<1> QED BY <1>4, <1>5

LEMMA AcceptKeeps ==
  ASSUME CatalogInv, PaneInv, CanAccept, Accept
  PROVE  PaneInv'
<1>1. pane' = Accepted(pane) /\ own' = pane'.text /\ history' = history
  BY DEF Accept, Wrote, MenuKey, outside
<1>2. Shaped(pane') /\ MenuInv(pane') /\ pane'.index = -1 /\ pane'.nav = NoNav
  BY <1>1, AcceptedKeeps DEF PaneInv, CanAccept
<1>3. HistoryInv'
  BY <1>1, HistoryUntouched DEF PaneInv
<1> QED BY <1>1, <1>2, <1>3, Written

\* A step of the cycle, down or up.
LEMMA CycleStep ==
  ASSUME CatalogInv, PaneInv, CanAccept, Unwritten, history' = history,
         pane' = Cycled(pane, NextOf) \/ pane' = Cycled(pane, PrevOf)
  PROVE  PaneInv'
<1>1. Shaped(pane) /\ MenuInv(pane) /\ Suggestions(pane) # NoWords
  BY DEF PaneInv, CanAccept
<1>2. /\ Shaped(pane') /\ MenuInv(pane') /\ pane'.nav # NoNav /\ pane'.index = -1
      /\ pane'.nav.orig.text = IF pane.nav = NoNav THEN pane.text ELSE pane.nav.orig.text
      /\ pane'.text = IF pane'.selected < 0 THEN pane'.nav.orig.text
                      ELSE Completed(pane'.nav.orig, pane'.nav.list[pane'.selected + 1]).text
  BY <1>1, CycledKeeps
<1>3. pane.index = -1
  BY <1>1, MenuMeansNoPosition
<1>4. TextKept(pane, own, Recall) =>
        own = IF pane.nav = NoNav THEN pane.text ELSE pane.nav.orig.text
  BY <1>3 DEF TextKept
<1>5. TextKept(pane, own, Recall) => TextKept(pane', own, Recall)
  BY <1>2, <1>4 DEF TextKept
<1> QED BY <1>2, <1>5, Unwrote

LEMMA HistoryStep ==
  ASSUME PaneInv, ~CanAccept, Unwritten, history' = history,
         pane' = Older(pane) \/ pane' = Newer(pane)
  PROVE  PaneInv'
<1>1. Shaped(pane) /\ MenuInv(pane) /\ HistoryInv /\ pane.nav = NoNav
  BY NoMenuMeansNoCycle DEF PaneInv, CanAccept
<1>2. CASE pane' = Older(pane)
  BY <1>1, <1>2, OlderKeeps, Unwrote
<1>3. CASE pane' = Newer(pane)
  BY <1>1, <1>3, NewerKeeps, Unwrote
<1> QED BY <1>2, <1>3

LEMMA FollowingKeeps ==
  ASSUME CatalogInv, PaneInv, Following \/ Preceding
  PROVE  PaneInv'
<1>1. Unwritten /\ history' = history
  BY DEF Following, Preceding, MenuKey, outside
<1>2. CASE CanAccept
  <2>1. pane' = Cycled(pane, NextOf) \/ pane' = Cycled(pane, PrevOf)
    BY <1>2 DEF Following, Preceding
  <2> QED BY <1>1, <1>2, <2>1, CycleStep
<1>3. CASE ~CanAccept
  <2>1. pane' = Older(pane) \/ pane' = Newer(pane)
    BY <1>3 DEF Following, Preceding
  <2> QED BY <1>1, <1>3, <2>1, HistoryStep
<1> QED BY <1>2, <1>3

LEMMA LineKeeps ==
  ASSUME CatalogInv, PaneInv, Up \/ Down
  PROVE  PaneInv'
<1>1. CASE \E n : ToLine(n)
  BY <1>1, EditorKeyKeeps DEF ToLine
<1>2. CASE /\ ~CanAccept /\ Unwritten /\ MenuKey
           /\ pane' = Older(pane) \/ pane' = Newer(pane)
  <2>1. history' = history
    BY <1>2 DEF MenuKey, outside
  <2> QED BY <1>2, <2>1, HistoryStep
<1>3. (\E n : ToLine(n)) \/ /\ ~CanAccept /\ Unwritten /\ MenuKey
                            /\ pane' = Older(pane) \/ pane' = Newer(pane)
  <2>1. CASE Up
    BY <2>1 DEF Up
  <2>2. CASE Down
    BY <2>2 DEF Down
  <2> QED BY <2>1, <2>2
<1> QED BY <1>1, <1>2, <1>3

\* The menu is closed, nothing else.
LEMMA MenuCloses ==
  ASSUME PaneInv, Unwritten, history' = history, pane' = [pane EXCEPT !.opened = FALSE]
  PROVE  PaneInv'
<1>1. Shaped(pane) /\ MenuInv(pane)
  BY DEF PaneInv
<1>2. pane' = Editor(pane.text, pane.at, Closed, pane.suppressed, pane.nav, pane.selected,
                     pane.cached, pane.index, pane.draft)
  BY <1>1, ClosedForm
<1>3. PICK r : r = pane'
  OBVIOUS
<1>4. /\ Shaped(r) /\ MenuInv(r)
      /\ r.text = pane.text /\ r.index = pane.index /\ r.draft = pane.draft
      /\ r.nav = pane.nav /\ r.selected = pane.selected
  BY <1>1, <1>2, <1>3, ClosedKeeps
<1>5. TextKept(pane, own, Recall) => TextKept(r, own, Recall)
  BY <1>4 DEF TextKept
<1> QED BY <1>3, <1>4, <1>5, Unwrote

LEMMA EscapeKeeps ==
  ASSUME PaneInv, Escape
  PROVE  PaneInv'
<1>1. pane' = Dismissed(pane) /\ Unwritten /\ history' = history
  BY DEF Escape, MenuKey, outside
<1>2. Shaped(pane) /\ MenuInv(pane)
  BY DEF PaneInv
<1>3. /\ Shaped(pane') /\ MenuInv(pane') /\ pane'.nav = NoNav /\ pane'.index = pane.index
      /\ pane'.draft = pane.draft
      /\ pane'.text = IF pane.nav = NoNav THEN pane.text ELSE pane.nav.orig.text
  BY <1>1, <1>2, DismissedKeeps
<1>4. TextKept(pane, own, Recall) => TextKept(pane', own, Recall)
  BY <1>2, <1>3 DEF TextKept, MenuInv
<1> QED BY <1>1, <1>3, <1>4, Unwrote

LEMMA ClearKeeps ==
  ASSUME PaneInv, ClearInput
  PROVE  PaneInv'
<1>1. pane' = Fresh /\ own' = NoWords /\ history' = history
  BY DEF ClearInput, Cleared, Wrote, MenuKey, outside
<1>2. HistoryInv'
  BY <1>1, HistoryUntouched DEF PaneInv
<1> QED BY <1>1, <1>2, FreshForm, Written

LEMMA ArrivesCleared ==
  ASSUME HistoryInv', Arrived, pane' = Fresh
  PROVE  PaneInv'
BY FreshForm, ArrivedKeeps

LEMMA ArrivesSet ==
  ASSUME PaneInv, history' = history, NEW t, Arrived, pane' = EditorSet(pane, t)
  PROVE  PaneInv'
<1>1. Shaped(pane') /\ MenuInv(pane')
  BY EditorSetKeeps DEF PaneInv, MenuInv
<1>2. HistoryInv'
  BY HistoryUntouched DEF PaneInv
<1> QED BY <1>1, <1>2, ArrivedKeeps

LEMMA ExecutedKeeps ==
  ASSUME PaneInv, StatementExecuted
  PROVE  PaneInv'
<1>1. CASE UNCHANGED <<catalog, history, pane, view, ghosts>>
  BY <1>1, PaneUntouched DEF ghosts, Unwritten
<1>2. CASE history' = Append(history, running) /\ Write(Cleared(pane))
  <2>1. PICK S : history \in Seq(S)
    BY DEF PaneInv, HistoryInv
  <2>2. history' \in Seq(S \cup {running})
    <3>1. history \in Seq(S \cup {running})
      BY <2>1
    <3> QED BY <1>2, <3>1
  <2>3. HistoryInv'
    BY <2>2 DEF HistoryInv
  <2> QED BY <1>2, <2>3, ArrivesCleared DEF Write, Cleared
<1> QED BY <1>1, <1>2 DEF StatementExecuted

LEMMA SlashKeeps ==
  ASSUME PaneInv, SlashExecuted
  PROVE  PaneInv'
<1>1. history' = history
  BY DEF SlashExecuted
<1>2. CASE Write(Cleared(pane))
  BY <1>1, <1>2, HistoryUntouched, ArrivesCleared DEF Write, Cleared, PaneInv
<1>3. CASE \E t \in Arriving : Write(EditorSet(pane, t))
  BY <1>1, <1>3, ArrivesSet DEF Write
<1> QED BY <1>2, <1>3 DEF SlashExecuted

LEMMA TextKeeps ==
  ASSUME PaneInv, TextArrives
  PROVE  PaneInv'
<1>1. history' = history
  BY DEF TextArrives, outside
<1> QED BY <1>1, ArrivesSet DEF TextArrives, Write

\* The editor takes a message that is no key.
LEMMA UpdatedForm ==
  ASSUME CatalogInv, PaneInv, NEW b, Updated(b)
  PROVE  /\ Shaped(pane') /\ MenuInv(pane') /\ history' = history
         /\ pane'.text = b.text /\ pane'.index = pane.index /\ pane'.draft = pane.draft
         /\ pane'.nav = pane.nav /\ (pane.nav # NoNav => pane'.selected = pane.selected)
         /\ pane'.cached = Suggestions(pane')
<1>1. Shaped(pane) /\ MenuInv(pane) /\ pane.index \in Int /\ pane.selected \in Int
  BY DEF PaneInv, Shaped
<1>2. PICK q : q = Holding(pane, b)
  OBVIOUS
<1>3. q = Editor(b.text, b.at, pane.opened, pane.suppressed, pane.nav, pane.selected, pane.cached,
                 pane.index, pane.draft)
  BY <1>1, <1>2, HoldingForm
<1>4. /\ Shaped(q) /\ q.text = b.text /\ q.opened = pane.opened /\ q.nav = pane.nav
      /\ q.selected = pane.selected /\ q.index = pane.index /\ q.draft = pane.draft
  BY <1>1, <1>3, EditorFields
<1>5. NavigationInv(q)
  BY <1>1, <1>4 DEF NavigationInv, MenuInv
<1>6. pane' = Refreshed(q) /\ history' = history
  BY <1>2 DEF Updated, outside
<1> QED BY <1>4, <1>5, <1>6, RefreshedKeeps

LEMMA PasteKeeps ==
  ASSUME CatalogInv, PaneInv, Paste
  PROVE  PaneInv'
<1>1. PICK b : Updated(b) /\ Arrived
  BY DEF Paste
<1>2. Shaped(pane') /\ MenuInv(pane') /\ history' = history
  BY <1>1, UpdatedForm
<1>3. HistoryInv'
  BY <1>2, HistoryUntouched DEF PaneInv
<1> QED BY <1>1, <1>2, <1>3, ArrivedKeeps

LEMMA BlinkKeeps ==
  ASSUME CatalogInv, PaneInv, Blink
  PROVE  PaneInv'
<1>1. /\ Shaped(pane') /\ MenuInv(pane') /\ history' = history
      /\ pane'.text = pane.text /\ pane'.index = pane.index /\ pane'.draft = pane.draft
      /\ pane'.nav = pane.nav /\ (pane.nav # NoNav => pane'.selected = pane.selected)
  BY UpdatedForm, BuffersAreRecords DEF Blink
<1>2. TextKept(pane, own, Recall) => TextKept(pane', own, Recall)
  BY <1>1 DEF TextKept
<1> QED BY <1>1, <1>2, Unwrote DEF Blink

LEMMA AdoptedKeeps ==
  ASSUME PaneInv, SessionAdopted
  PROVE  PaneInv'
<1>1. HistoryInv'
  <2>1. history' = <<>> \/ \E t \in Range(history) : history' = <<t>>
    BY DEF SessionAdopted
  <2>2. CASE history' = <<>>
    <3>1. history' \in Seq({})
      BY <2>2
    <3> QED BY <3>1 DEF HistoryInv
  <2>3. CASE \E t \in Range(history) : history' = <<t>>
    <3>1. PICK t : history' = <<t>>
      BY <2>3
    <3>2. history' \in Seq({t})
      BY <3>1
    <3> QED BY <3>2 DEF HistoryInv
  <2> QED BY <2>1, <2>2, <2>3
<1> QED BY <1>1, ArrivesCleared DEF SessionAdopted

\* The catalog is always one of those there are.
LEMMA CatalogInvInit == PInit => CatalogInv
BY CommandPaneAssumptions DEF PInit, CatalogInv, Catalogs

LEMMA CatalogInvNext == CatalogInv /\ [PNext]_pvars => CatalogInv'
<1> SUFFICES ASSUME CatalogInv, [PNext]_pvars PROVE catalog' \in Catalogs
  BY DEF CatalogInv
<1>1. ASSUME NEW b, EditorKey(b) \/ Updated(b) PROVE catalog' \in Catalogs
  BY <1>1 DEF EditorKey, Updated, outside, CatalogInv
<1>2. ASSUME MenuKey \/ UNCHANGED catalog PROVE catalog' \in Catalogs
  BY <1>2 DEF MenuKey, outside, CatalogInv
<1>3. ASSUME NEW c \in Catalogs, MadeFrom(c) PROVE catalog' \in Catalogs
  BY <1>3 DEF MadeFrom
<1>4. CASE Type \/ Erase \/ Move
  BY <1>1, <1>4 DEF Type, Erase, Move
<1>5. CASE Tab \/ Enter \/ Submit
  BY <1>1, <1>2, <1>5 DEF Tab, Enter, Accept, Submit
<1>6. CASE Following \/ Preceding \/ Escape \/ ClearInput \/ Refocus
  BY <1>2, <1>6 DEF Following, Preceding, Escape, ClearInput, Refocus
<1>7. CASE Up \/ Down
  BY <1>1, <1>2, <1>7 DEF Up, Down, ToLine
<1>8. CASE Scroll \/ TextArrives \/ Resize \/ UNCHANGED pvars
  BY <1>2, <1>8 DEF Scroll, TextArrives, Resize, pvars, outside
<1>9. CASE StatementExecuted \/ SlashExecuted \/ SchemaLoaded
  BY <1>2, <1>3, <1>9 DEF StatementExecuted, SlashExecuted, SchemaLoaded
<1>10. CASE SessionAdopted
  BY <1>3, <1>10, CommandPaneAssumptions DEF SessionAdopted, Catalogs
<1>11. CASE Paste \/ Blink
  BY <1>1, <1>11 DEF Paste, Blink
<1> QED BY <1>4, <1>5, <1>6, <1>7, <1>8, <1>9, <1>10, <1>11 DEF PNext

LEMMA PaneInvInit == PInit => PaneInv
<1> SUFFICES ASSUME PInit PROVE PaneInv
  OBVIOUS
<1>1. pane = Fresh /\ own = NoWords
  BY DEF PInit
<1>2. history \in Seq({})
  BY DEF PInit
<1>3. TextKept(pane, own, Recall)
  BY <1>1, FreshForm DEF TextKept
<1> QED BY <1>1, <1>2, <1>3, FreshForm DEF PaneInv, HistoryInv

LEMMA PaneInvNext == CatalogInv /\ PaneInv /\ [PNext]_pvars => PaneInv'
<1> SUFFICES ASSUME CatalogInv, PaneInv, [PNext]_pvars PROVE PaneInv'
  OBVIOUS
<1>1. CASE Type \/ Erase \/ Move
  BY <1>1, EditorKeyKeeps DEF Type, Erase, Move
<1>2. CASE Tab
  BY <1>2, EditorKeyKeeps, AcceptKeeps DEF Tab
<1>3. CASE Submit
  BY <1>3, PaneUntouched DEF Submit, ghosts, Unwritten
<1>4. CASE Enter
  <2>1. CASE Submit
    BY <2>1, PaneUntouched DEF Submit, ghosts, Unwritten
  <2> QED BY <1>4, <2>1, EditorKeyKeeps, AcceptKeeps DEF Enter
<1>5. CASE Following \/ Preceding
  BY <1>5, FollowingKeeps
<1>6. CASE Up \/ Down
  BY <1>6, LineKeeps
<1>7. CASE Scroll \/ Refocus
  <2>1. Unwritten /\ history' = history /\ pane' = [pane EXCEPT !.opened = FALSE]
    BY <1>7 DEF Scroll, Refocus, MenuKey, outside
  <2> QED BY <2>1, MenuCloses
<1>8. CASE Escape
  BY <1>8, EscapeKeeps
<1>9. CASE ClearInput
  BY <1>9, ClearKeeps
<1>10. CASE StatementExecuted
  BY <1>10, ExecutedKeeps
<1>11. CASE SlashExecuted
  BY <1>11, SlashKeeps
<1>12. CASE TextArrives
  BY <1>12, TextKeeps
<1>13. CASE Paste
  BY <1>13, PasteKeeps
<1>14. CASE Blink
  BY <1>14, BlinkKeeps
<1>15. CASE SchemaLoaded \/ Resize
  BY <1>15, PaneUntouched DEF SchemaLoaded, Resize, outside, ghosts, Unwritten
<1>16. CASE SessionAdopted
  BY <1>16, AdoptedKeeps
<1>17. CASE UNCHANGED pvars
  BY <1>17, PaneUntouched DEF pvars, outside, ghosts, Unwritten
<1> QED BY <1>1, <1>2, <1>3, <1>4, <1>5, <1>6, <1>7, <1>8, <1>9, <1>10, <1>11, <1>12, <1>13,
           <1>14, <1>15, <1>16, <1>17 DEF PNext

LEMMA PaneInvariant == PSpec => [](CatalogInv /\ PaneInv)
BY CatalogInvInit, CatalogInvNext, PaneInvInit, PaneInvNext, PTL DEF PSpec

(************************ the menu on the screen *************************)

\* As long as no catalog came since the menu was computed it is what Enter takes from.
Matches(p, c) == Completes(p) => p.cached = SuggestionsFrom(c, p)
MadeInv == ~stale => Matches(pane, catalog)

LEMMA NothingCompleted ==
  ASSUME ~Completes(pane')
  PROVE  MadeInv'
BY DEF MadeInv, Matches

LEMMA ComputedMatches ==
  ASSUME pane'.cached = Suggestions(pane'), catalog' = catalog
  PROVE  MadeInv'
BY DEF MadeInv, Matches, Suggestions

LEMMA SamePaneMatches ==
  ASSUME MadeInv, pane' = pane, catalog' = catalog, stale' = stale \/ MenuStays
  PROVE  MadeInv'
BY DEF MadeInv, Matches, MenuStays, MenuAfter

\* A catalog that is replaced changes nothing for a list that the cycle has frozen.
LEMMA ReplacedMatches ==
  ASSUME MadeInv, pane' = pane, NEW c, MadeFrom(c)
  PROVE  MadeInv'
<1> SUFFICES ASSUME ~stale', Completes(pane) PROVE pane.cached = SuggestionsFrom(c, pane)
  BY DEF MadeInv, Matches, MadeFrom
<1>1. ~stale /\ ~(c # catalog /\ pane.nav = NoNav)
  BY DEF MadeFrom, MenuAfter
<1>2. pane.cached = SuggestionsFrom(catalog, pane)
  BY <1>1 DEF MadeInv, Matches
<1> QED BY <1>1, <1>2 DEF SuggestionsFrom

LEMMA ClosedMatches ==
  ASSUME PaneInv, MadeInv, pane' = [pane EXCEPT !.opened = FALSE], catalog' = catalog, MenuStays
  PROVE  MadeInv'
<1>1. Shaped(pane) /\ MenuInv(pane)
  BY DEF PaneInv
<1>2. PICK r : r = pane'
  OBVIOUS
<1>3. r = Editor(pane.text, pane.at, Closed, pane.suppressed, pane.nav, pane.selected,
                 pane.cached, pane.index, pane.draft)
  BY <1>1, <1>2, ClosedForm
<1>4. ~r.opened /\ r.nav = pane.nav /\ r.cached = pane.cached
  BY <1>1, <1>3, ClosedKeeps
<1>5. CASE pane.nav = NoNav
  BY <1>2, <1>4, <1>5, NothingCompleted DEF Completes
<1>6. CASE pane.nav # NoNav
  <2>1. SuggestionsFrom(catalog, r) = SuggestionsFrom(catalog, pane)
    BY <1>4, <1>6 DEF SuggestionsFrom
  <2>2. ~stale' => ~stale
    BY <1>2, <1>4, <1>6 DEF MenuStays, MenuAfter, Completes
  <2>3. ~stale => pane.cached = SuggestionsFrom(catalog, pane)
    BY <1>6 DEF MadeInv, Matches, Completes
  <2>4. ~stale' => r.cached = SuggestionsFrom(catalog, r)
    BY <1>4, <2>1, <2>2, <2>3
  <2> QED BY <1>2, <2>4 DEF MadeInv, Matches
<1> QED BY <1>5, <1>6

\* The cycle freezes what was on the screen.
LEMMA CycledMatches ==
  ASSUME CatalogInv, PaneInv, MadeInv, CanAccept, catalog' = catalog, MenuStays,
         pane' = Cycled(pane, NextOf) \/ pane' = Cycled(pane, PrevOf)
  PROVE  MadeInv'
<1>1. PICK r : r = pane'
  OBVIOUS
<1>2. Shaped(pane) /\ MenuInv(pane) /\ Suggestions(pane) # NoWords
  BY DEF PaneInv, CanAccept
<1>3. r.nav # NoNav /\ r.cached = pane.cached /\ r.nav.list = Suggestions(pane)
  BY <1>1, <1>2, CycledKeeps
<1>4. Completes(pane)
  BY <1>2, MenuMeansNoPosition DEF Completes
<1>5. ~stale' => ~stale
  BY <1>1, <1>3 DEF MenuStays, MenuAfter, Completes
<1>6. ~stale' => r.cached = Suggestions(pane)
  BY <1>3, <1>4, <1>5 DEF MadeInv, Matches, Suggestions
<1>7. SuggestionsFrom(catalog, r) = r.nav.list
  BY <1>3 DEF SuggestionsFrom
<1> QED BY <1>1, <1>3, <1>6, <1>7 DEF MadeInv, Matches

LEMMA HistoryMatches ==
  ASSUME PaneInv, MadeInv, ~CanAccept, catalog' = catalog, MenuStays,
         pane' = Older(pane) \/ pane' = Newer(pane)
  PROVE  MadeInv'
<1>1. Shaped(pane) /\ MenuInv(pane) /\ HistoryInv /\ pane.nav = NoNav
  BY NoMenuMeansNoCycle DEF PaneInv, CanAccept
<1>2. pane' = pane \/ ~Completes(pane')
  BY <1>1, OlderKeeps, NewerKeeps
<1> QED BY <1>2, NothingCompleted, SamePaneMatches

LEMMA EditorKeyMatches ==
  ASSUME CatalogInv, PaneInv, NEW b, EditorKey(b)
  PROVE  MadeInv'
<1>1. pane' = Keyed(pane, b) /\ catalog' = catalog
  BY DEF EditorKey, outside
<1>2. pane'.cached = Suggestions(pane')
  BY <1>1, KeyedKeeps DEF PaneInv
<1> QED BY <1>1, <1>2, ComputedMatches

LEMMA AcceptMatches ==
  ASSUME CatalogInv, PaneInv, CanAccept, Accept
  PROVE  MadeInv'
BY AcceptedKeeps, NothingCompleted DEF Accept, PaneInv, CanAccept

LEMMA WrittenMatches ==
  ASSUME PaneInv, NEW t, pane' = EditorSet(pane, t)
  PROVE  MadeInv'
BY EditorSetKeeps, NothingCompleted DEF PaneInv, MenuInv

LEMMA MadeInvInit == PInit => MadeInv
BY FreshForm DEF PInit, MadeInv, Matches

LEMMA MadeInvNext == CatalogInv /\ PaneInv /\ MadeInv /\ [PNext]_pvars => MadeInv'
<1> SUFFICES ASSUME CatalogInv, PaneInv, MadeInv, [PNext]_pvars PROVE MadeInv'
  OBVIOUS
<1>1. CASE Type \/ Erase \/ Move
  BY <1>1, EditorKeyMatches DEF Type, Erase, Move
<1>2. CASE Tab
  BY <1>2, EditorKeyMatches, AcceptMatches DEF Tab
<1>3. ASSUME Submit PROVE MadeInv'
  BY <1>3, SamePaneMatches DEF Submit, ghosts
<1>4. CASE Enter
  BY <1>3, <1>4, EditorKeyMatches, AcceptMatches DEF Enter
<1>5. ASSUME ~CanAccept, MenuKey, pane' = Older(pane) \/ pane' = Newer(pane) PROVE MadeInv'
  BY <1>5, HistoryMatches DEF MenuKey, outside
<1>6. CASE Following \/ Preceding
  <2>1. CASE CanAccept
    BY <1>6, <2>1, CycledMatches DEF Following, Preceding, MenuKey, outside
  <2>2. CASE ~CanAccept
    BY <1>5, <1>6, <2>2 DEF Following, Preceding
  <2> QED BY <2>1, <2>2
<1>7. CASE Up
  BY <1>5, <1>7, EditorKeyMatches DEF Up, ToLine
<1>8. CASE Down
  BY <1>5, <1>8, EditorKeyMatches DEF Down, ToLine
<1>9. CASE Scroll \/ Refocus
  BY <1>9, ClosedMatches DEF Scroll, Refocus, MenuKey, outside
<1>10. CASE Escape
  BY <1>10, DismissedKeeps, NothingCompleted DEF Escape, PaneInv
<1>11. CASE ClearInput \/ SessionAdopted
  BY <1>11, FreshForm, NothingCompleted DEF ClearInput, Cleared, SessionAdopted
<1>12. CASE StatementExecuted
  <2>1. CASE pane' = Fresh
    BY <2>1, FreshForm, NothingCompleted
  <2>2. CASE UNCHANGED <<catalog, history, pane, view, ghosts>>
    BY <2>2, SamePaneMatches DEF ghosts
  <2> QED BY <1>12, <2>1, <2>2 DEF StatementExecuted, Write, Cleared
<1>13. CASE SlashExecuted
  BY <1>13, FreshForm, NothingCompleted, WrittenMatches DEF SlashExecuted, Write, Cleared
<1>14. CASE TextArrives
  BY <1>14, WrittenMatches DEF TextArrives, Write
<1>15. CASE Paste \/ Blink
  BY <1>15, UpdatedForm, ComputedMatches DEF Paste, Blink, Updated, outside
<1>16. CASE SchemaLoaded
  BY <1>16, ReplacedMatches DEF SchemaLoaded
<1>17. CASE Resize \/ UNCHANGED pvars
  BY <1>17, SamePaneMatches DEF Resize, pvars, outside, ghosts
<1> QED BY <1>1, <1>2, <1>3, <1>4, <1>6, <1>7, <1>8, <1>9, <1>10, <1>11, <1>12, <1>13, <1>14,
           <1>15, <1>16, <1>17 DEF PNext

LEMMA MadeInvariant == PSpec => []MadeInv
BY PaneInvariant, MadeInvInit, MadeInvNext, PTL DEF PSpec

(************************* the text and the screen ************************)

Text(t) == \E S : t \in Seq(S)
Placed(b) == Text(b.text) /\ b.at \in 0 .. Len(b.text)

\* What the editor holds, or may hold again, are texts with a cursor in them.
TextInv(p) ==
  /\ Placed(p) /\ Text(p.draft)
  /\ p.nav # NoNav => Placed(p.nav.orig)
OutsideInv ==
  /\ \A i \in DOMAIN history : Text(history[i])
  /\ running \in {None, Slash} \/ Text(running)

\* While what is typed is completed the transcript is not scrolled.
ScreenInv ==
  /\ height \in Nat \ {0} /\ transcript \in Nat
  /\ pane.opened => scroll = 0

SeenInv == CatalogInv /\ PaneInv /\ TextInv(pane) /\ OutsideInv /\ ScreenInv

LEMMA TextsAreSequences ==
  ASSUME NEW t, Text(t)
  PROVE  Len(t) \in Nat /\ DOMAIN t = 1 .. Len(t) /\ t = [i \in 1 .. Len(t) |-> t[i]]
BY DEF Text

LEMMA TextsOfSequences == \A S : \A t \in Seq(S) : Text(t)
BY DEF Text

LEMMA JoinedTexts ==
  ASSUME NEW s, NEW t, Text(s), Text(t)
  PROVE  Text(s \o t) /\ Len(s \o t) = Len(s) + Len(t)
<1>1. PICK S : s \in Seq(S)
  BY DEF Text
<1>2. PICK T : t \in Seq(T)
  BY DEF Text
<1>3. s \in Seq(S \cup T) /\ t \in Seq(S \cup T)
  BY <1>1, <1>2
<1>4. s \o t \in Seq(S \cup T) /\ Len(s \o t) = Len(s) + Len(t)
  BY <1>3
<1> QED BY <1>4 DEF Text

LEMMA PartsOfTexts ==
  ASSUME NEW t, Text(t), NEW m \in 1 .. Len(t) + 1, NEW n \in 0 .. Len(t)
  PROVE  /\ Text(SubSeq(t, m, n))
         /\ Len(SubSeq(t, m, n)) = IF m <= n THEN n - m + 1 ELSE 0
         /\ \A i \in 1 .. Len(SubSeq(t, m, n)) : SubSeq(t, m, n)[i] = t[m + i - 1]
<1>1. PICK S : t \in Seq(S)
  BY DEF Text
<1>2. Len(t) \in Nat
  BY <1>1
<1>3. \A i \in m .. n : t[i] \in S
  BY <1>1, <1>2
<1>4. /\ SubSeq(t, m, n) \in Seq(S)
      /\ Len(SubSeq(t, m, n)) = IF m <= n THEN n - m + 1 ELSE 0
  BY <1>1, <1>2, <1>3
<1>5. \A i \in 1 .. Len(SubSeq(t, m, n)) : SubSeq(t, m, n)[i] = t[m + i - 1]
  BY <1>1, <1>2, <1>4
<1> QED BY <1>4, <1>5 DEF Text

LEMMA InsertedIsPlaced ==
  ASSUME NEW b, Placed(b), NEW w, Text(w)
  PROVE  Placed(Inserted(b, w))
<1>1. Text(b.text) /\ b.at \in 0 .. Len(b.text) /\ Len(b.text) \in Nat /\ Len(w) \in Nat
  BY TextsAreSequences DEF Placed
<1>2. Text(Before(b)) /\ Len(Before(b)) = b.at
  BY <1>1, PartsOfTexts DEF Before
<1>3. Text(After(b)) /\ Len(After(b)) = Len(b.text) - b.at
  <2>1. b.at + 1 \in 1 .. Len(b.text) + 1 /\ Len(b.text) \in 0 .. Len(b.text)
    BY <1>1
  <2>2. /\ Text(SubSeq(b.text, b.at + 1, Len(b.text)))
        /\ Len(SubSeq(b.text, b.at + 1, Len(b.text)))
             = IF b.at + 1 <= Len(b.text) THEN Len(b.text) - (b.at + 1) + 1 ELSE 0
    BY <1>1, <2>1, PartsOfTexts
  <2> QED BY <1>1, <2>2 DEF After
<1>4. Text(Before(b) \o w) /\ Len(Before(b) \o w) = b.at + Len(w)
  BY <1>2, JoinedTexts
<1>5. /\ Text(Before(b) \o w \o After(b))
      /\ Len(Before(b) \o w \o After(b)) = Len(Before(b) \o w) + Len(After(b))
  BY <1>3, <1>4, JoinedTexts
<1>6. b.at + Len(w) \in 0 .. Len(Before(b) \o w \o After(b))
  BY <1>1, <1>3, <1>4, <1>5
<1> QED BY <1>5, <1>6 DEF Placed, Inserted

LEMMA ErasedIsPlaced ==
  ASSUME NEW b, Placed(b), b.at > 0
  PROVE  Placed(Erased(b))
<1>1. Text(b.text) /\ b.at \in 1 .. Len(b.text) /\ Len(b.text) \in Nat
  BY TextsAreSequences DEF Placed
<1>2. Text(SubSeq(b.text, 1, b.at - 1)) /\ Len(SubSeq(b.text, 1, b.at - 1)) = b.at - 1
  <2>1. 1 \in 1 .. Len(b.text) + 1 /\ b.at - 1 \in 0 .. Len(b.text)
    BY <1>1
  <2>2. /\ Text(SubSeq(b.text, 1, b.at - 1))
        /\ Len(SubSeq(b.text, 1, b.at - 1)) = IF 1 <= b.at - 1 THEN b.at - 1 - 1 + 1 ELSE 0
    BY <1>1, <2>1, PartsOfTexts
  <2> QED BY <1>1, <2>2
<1>3. /\ Text(SubSeq(b.text, b.at + 1, Len(b.text)))
      /\ Len(SubSeq(b.text, b.at + 1, Len(b.text))) \in Nat
  <2>1. b.at + 1 \in 1 .. Len(b.text) + 1 /\ Len(b.text) \in 0 .. Len(b.text)
    BY <1>1
  <2> QED BY <1>1, <2>1, PartsOfTexts, TextsAreSequences
<1>4. /\ Text(RemoveAt(b.text, b.at)) /\ Len(RemoveAt(b.text, b.at)) >= b.at - 1
      /\ Len(RemoveAt(b.text, b.at)) \in Nat
  <2>1. PICK r : r = SubSeq(b.text, 1, b.at - 1) \o SubSeq(b.text, b.at + 1, Len(b.text))
    OBVIOUS
  <2>2. /\ Text(r)
        /\ Len(r) = Len(SubSeq(b.text, 1, b.at - 1)) + Len(SubSeq(b.text, b.at + 1, Len(b.text)))
    BY <1>2, <1>3, <2>1, JoinedTexts
  <2>3. r = RemoveAt(b.text, b.at)
    BY <2>1 DEF RemoveAt
  <2> QED BY <1>1, <1>2, <1>3, <2>2, <2>3
<1>5. b.at - 1 \in 0 .. Len(RemoveAt(b.text, b.at))
  BY <1>1, <1>4
<1> QED BY <1>4, <1>5 DEF Placed, Erased

LEMMA AtEndIsPlaced ==
  ASSUME NEW t, Text(t)
  PROVE  Placed(AtEnd(t)) /\ Len(t) \in 0 .. Len(t)
BY TextsAreSequences DEF Placed, AtEnd

\* What is offered are texts, and there is a word before the cursor.
LEMMA OffersAreTexts ==
  ASSUME NEW b, NEW l \in Lists(b), l # NoWords
  PROVE  b.at > 0 /\ \A i \in 1 .. Len(l) : Text(l[i])
<1>1. PICK c \in Catalogs : l = Offered(c, b)
  BY DEF Lists
<1>2. b.at > 0 /\ \E w \in DOMAIN Offers[c] : l = Offers[c][w]
  BY <1>1 DEF Offered
<1>3. PICK w \in DOMAIN Offers[c] : l = Offers[c][w]
  BY <1>2
<1>4. l \in Seq(Range(l)) /\ \A i \in DOMAIN l : l[i] \in Seq(Range(l[i]))
  BY <1>3, CommandPaneAssumptions DEF Catalogs
<1>5. DOMAIN l = 1 .. Len(l)
  BY <1>4
<1> QED BY <1>2, <1>4, <1>5 DEF Text

LEMMA CompletedIsPlaced ==
  ASSUME NEW b, Placed(b), NEW l \in Lists(b), l # NoWords, NEW i \in 1 .. Len(l)
  PROVE  Placed(Completed(b, l[i]))
BY OffersAreTexts, ErasedIsPlaced, InsertedIsPlaced DEF Completed

LEMMA EmptyIsASequence == <<>> \in Seq({})
OBVIOUS

\* Only the menu is computed anew.
LEMMA RefreshedText ==
  ASSUME NEW p, Shaped(p), NEW r, r = Refreshed(p)
  PROVE  /\ r.text = p.text /\ r.at = p.at /\ r.opened = p.opened /\ r.nav = p.nav
         /\ r.draft = p.draft /\ r.index = p.index
<1>1. PICK l : l = Suggestions(p)
  OBVIOUS
<1>2. r = Editor(p.text, p.at, p.opened, p.suppressed, p.nav, Clamped(p.selected, Len(l)), l,
                 p.index, p.draft)
  BY <1>1, RefreshedForm
<1> QED BY <1>2 DEF Editor

\* Of any numbers there is one from which on there are k of them.
LEMMA RankIsTaken ==
  ASSUME NEW S, S \subseteq Int, IsFiniteSet(S), NEW k \in 1 .. Cardinality(S)
  PROVE  \E i \in S : Cardinality({j \in S : j >= i}) = k
<1> DEFINE From(i) == {j \in S : j >= i}
           n == Cardinality(S)
           rank == [i \in S |-> Cardinality(From(i))]
<1>1. n \in Nat
  BY FS_CardinalityType
<1>2. \A i \in S : From(i) \subseteq S /\ IsFiniteSet(From(i)) /\ i \in From(i)
  BY FS_Subset
<1>3. \A i \in S : Cardinality(From(i)) \in 1 .. n
  <2> TAKE i \in S
  <2>1. Cardinality(From(i)) \in Nat /\ Cardinality(From(i)) <= n
    BY <1>2, FS_CardinalityType, FS_Subset
  <2>2. Cardinality(From(i)) # 0
    BY <1>2, FS_EmptySet
  <2> QED BY <1>1, <2>1, <2>2
<1>4. ASSUME NEW i \in S, NEW j \in S, i < j
      PROVE  Cardinality(From(i)) # Cardinality(From(j))
  <2>1. From(j) \subseteq From(i) /\ i \notin From(j) /\ i \in From(i)
    <3>1. i \in Int /\ j \in Int /\ \A l \in S : l \in Int
      OBVIOUS
    <3>2. \A l \in S : l >= j => l >= i
      BY <1>4, <3>1
    <3>3. ~(i >= j)
      BY <1>4, <3>1
    <3>4. From(j) \subseteq From(i)
      BY <3>2
    <3>5. i \notin From(j)
      BY <3>3
    <3> QED BY <1>2, <3>4, <3>5
  <2>2. IsFiniteSet(From(i))
    BY <1>2
  <2> QED BY <2>1, <2>2, FS_Subset
<1>5. rank \in [S -> 1 .. n]
  BY <1>3
<1>6. \A i, j \in S : rank[i] = rank[j] => i = j
  <2> SUFFICES ASSUME NEW i \in S, NEW j \in S, i # j PROVE rank[i] # rank[j]
    OBVIOUS
  <2>1. i < j \/ j < i
    OBVIOUS
  <2>2. rank[i] = Cardinality(From(i)) /\ rank[j] = Cardinality(From(j))
    OBVIOUS
  <2> HIDE DEF rank, From
  <2> QED BY <1>4, <2>1, <2>2
<1>7. rank \in Injection(S, 1 .. n)
  BY <1>5, <1>6 DEF Injection, IsInjective
<1>8. IsFiniteSet(1 .. n) /\ Cardinality(1 .. n) = n
  BY <1>1, FS_Interval
<1>9. rank \in Surjection(S, 1 .. n)
  BY <1>7, <1>8, FS_Injection
<1>10. \E i \in S : rank[i] = k
  BY <1>9 DEF Surjection
<1> QED BY <1>10

\* What can be recalled are Statements of History.
LEMMA RecalledAreTexts ==
  ASSUME HistoryInv, \A i \in DOMAIN history : Text(history[i]), NEW k \in 1 .. Len(Recall)
  PROVE  Text(Recall[k])
<1>1. PICK S : history \in Seq(S)
  BY DEF HistoryInv
<1>2. DOMAIN history = 1 .. Len(history) /\ Len(history) \in Nat
  BY <1>1
<1>3. Latest \subseteq DOMAIN history /\ Latest \subseteq Int
  BY <1>2 DEF Latest
<1>4. IsFiniteSet(Latest) /\ Cardinality(Latest) \in Nat
  <2>1. IsFiniteSet(1 .. Len(history))
    BY <1>2, FS_Interval
  <2>2. IsFiniteSet(Latest)
    BY <1>2, <1>3, <2>1, FS_Subset
  <2> QED BY <2>2, FS_CardinalityType
<1> DEFINE n == Cardinality(Latest)
           value(j) == history[CHOOSE i \in Latest : Cardinality({l \in Latest : l >= i}) = j]
<1>5. Recall = [j \in 1 .. n |-> value(j)]
  BY DEF Recall
<1> HIDE DEF n, value
<1>6. Recall \in Seq({value(j) : j \in 1 .. n}) /\ Len(Recall) = n
  BY <1>4, <1>5 DEF n
<1>7. Recall[k] = value(k) /\ k \in 1 .. Cardinality(Latest)
  BY <1>5, <1>6 DEF n
<1>8. \E i \in Latest : Cardinality({l \in Latest : l >= i}) = k
  BY <1>3, <1>4, <1>7, RankIsTaken
<1>9. \E i \in Latest : value(k) = history[i]
  BY <1>8 DEF value
<1> QED BY <1>3, <1>7, <1>9

(******************* what keys and messages do to the text *****************)

\* What an operator on the editor hands on: texts, and an open menu only if it was open.
Kept(p, r) == TextInv(r) /\ (r.opened => p.opened)

LEMMA KeyedText ==
  ASSUME NEW p, Shaped(p), MenuInv(p), TextInv(p), NEW b, Placed(b), NEW r, r = Keyed(p, b)
  PROVE  TextInv(r) /\ (r.opened => b.text # p.text)
<1>1. p.index \in Int /\ p.selected \in Int /\ -1 \in Int /\ 0 \in Int
  BY DEF Shaped
<1>2. PICK q : q = Holding(p, b)
  OBVIOUS
<1>3. q = Editor(b.text, b.at, p.opened, p.suppressed, p.nav, p.selected, p.cached, p.index,
                 p.draft)
  BY <1>2, HoldingForm
<1>4. /\ Shaped(q) /\ q.text = b.text /\ q.at = b.at /\ q.nav = p.nav /\ q.draft = p.draft
      /\ q.selected = p.selected /\ q.index = p.index
  BY <1>1, <1>3, EditorFields
<1>5. CASE b.text # p.text
  <2>1. PICK c : c = NavCleared(q)
    OBVIOUS
  <2>2. PICK e : e = IF q.nav = NoNav THEN q.selected ELSE 0
    OBVIOUS
  <2>3. c = Editor(q.text, q.at, q.opened, q.suppressed, NoNav, e, q.cached, q.index, q.draft)
    BY <1>4, <2>1, <2>2, NavClearedForm
  <2>4. e \in Int
    BY <1>1, <1>4, <2>2
  <2>5. Shaped(c) /\ c.text = b.text /\ c.at = b.at /\ c.nav = NoNav /\ c.selected = e
    BY <1>1, <1>4, <2>3, <2>4, EditorFields
  <2>6. PICK d : d = [c EXCEPT !.opened = TRUE, !.index = -1, !.draft = NoWords]
    OBVIOUS
  <2>7. d = Editor(c.text, c.at, Open, c.suppressed, c.nav, c.selected, c.cached, -1, NoWords)
    BY <2>5, <2>6, EditedForm
  <2>8. Shaped(d) /\ d.text = b.text /\ d.at = b.at /\ d.nav = NoNav /\ d.draft = NoWords
        /\ d.selected = e /\ d.index = -1
    BY <1>1, <2>4, <2>5, <2>7, EditorFields
  <2>9. r = Refreshed(d)
    BY <1>2, <1>5, <2>1, <2>6 DEF Keyed
  <2>10. r.text = b.text /\ r.at = b.at /\ r.nav = NoNav /\ r.draft = NoWords
    BY <2>8, <2>9, RefreshedText
  <2>11. Text(NoWords)
    BY TextsOfSequences, EmptyIsASequence DEF NoWords
  <2> QED BY <1>5, <2>10, <2>11 DEF TextInv, Placed
<1>6. CASE b.text = p.text
  <2>1. PICK d : d = [q EXCEPT !.opened = FALSE]
    OBVIOUS
  <2>2. d = Editor(q.text, q.at, Closed, q.suppressed, q.nav, q.selected, q.cached, q.index, q.draft)
    BY <1>4, <2>1, ClosedForm
  <2>3. Shaped(d) /\ d.text = b.text /\ d.at = b.at /\ d.nav = p.nav /\ d.draft = p.draft
        /\ d.opened = Closed
    BY <1>1, <1>4, <2>2, EditorFields
  <2>4. r = Refreshed(d)
    BY <1>2, <1>6, <2>1 DEF Keyed
  <2>5. r.text = b.text /\ r.at = b.at /\ r.nav = p.nav /\ r.draft = p.draft /\ r.opened = Closed
    BY <2>3, <2>4, RefreshedText
  <2> QED BY <2>5 DEF TextInv, Placed, Closed
<1> QED BY <1>5, <1>6

LEMMA EditorSetText ==
  ASSUME NEW p, Shaped(p), TextInv(p), NEW t, Text(t), NEW r, r = EditorSet(p, t)
  PROVE  TextInv(r) /\ ~r.opened
<1>1. r = Editor(t, Len(t), Closed, None, NoNav, 0, NoWords, p.index, p.draft)
  BY EditorSetForm
<1>2. r.text = t /\ r.at = Len(t) /\ r.opened = Closed /\ r.nav = NoNav /\ r.draft = p.draft
  BY <1>1 DEF Editor
<1> QED BY <1>2, AtEndIsPlaced DEF TextInv, Placed, Closed

LEMMA FreshText == TextInv(Fresh) /\ ~Fresh.opened
<1>1. Text(NoWords) /\ Len(NoWords) = 0
  BY TextsOfSequences, EmptyIsASequence DEF NoWords
<1>2. /\ Fresh.text = NoWords /\ Fresh.at = 0 /\ Fresh.nav = NoNav /\ Fresh.draft = NoWords
      /\ Fresh.opened = FALSE
  BY DEF Fresh
<1> QED BY <1>1, <1>2 DEF TextInv, Placed

LEMMA ClosedText ==
  ASSUME NEW p, Shaped(p), TextInv(p), NEW r,
         r = Editor(p.text, p.at, Closed, p.suppressed, p.nav, p.selected, p.cached, p.index,
                    p.draft)
  PROVE  TextInv(r) /\ ~r.opened
<1>1. p.selected \in Int /\ p.index \in Int
  BY DEF Shaped
<1>2. r.text = p.text /\ r.at = p.at /\ r.opened = Closed /\ r.nav = p.nav /\ r.draft = p.draft
  BY <1>1, EditorFields
<1> QED BY <1>2 DEF TextInv, Placed, Closed

LEMMA AcceptedText ==
  ASSUME CatalogInv, NEW p, Shaped(p), MenuInv(p), TextInv(p), Suggestions(p) # NoWords,
         NEW r, r = Accepted(p)
  PROVE  TextInv(r) /\ ~r.opened
<1>1. p.index \in Int /\ p.selected \in Int /\ 0 \in Int
  BY DEF Shaped
<1>2. CASE p.nav # NoNav
  <2>1. PICK c : c = NavCleared(p)
    OBVIOUS
  <2>2. c = Editor(p.text, p.at, p.opened, p.suppressed, NoNav, IF p.nav = NoNav THEN p.selected ELSE 0,
                   p.cached, p.index, p.draft)
    BY <2>1, NavClearedForm
  <2>3. c = Editor(p.text, p.at, p.opened, p.suppressed, NoNav, 0, p.cached, p.index, p.draft)
    BY <1>2, <2>2
  <2>4. Shaped(c) /\ c.text = p.text /\ c.at = p.at /\ c.nav = NoNav /\ c.draft = p.draft
    BY <1>1, <2>3, EditorFields
  <2>5. TextInv(c)
    BY <2>4 DEF TextInv, Placed
  <2>6. r = [c EXCEPT !.opened = FALSE]
    BY <1>2, <2>1 DEF Accepted
  <2>7. r = Editor(c.text, c.at, Closed, c.suppressed, c.nav, c.selected, c.cached, c.index, c.draft)
    BY <2>4, <2>6, ClosedForm
  <2> QED BY <2>4, <2>5, <2>7, ClosedText
<1>3. CASE p.nav = NoNav
  <2>1. Suggestions(p) \in Lists(Buffer(p)) /\ p.opened
    BY <1>3, MenuMeansNoPosition
  <2>2. PICK k : k = Highlighted(p, Len(Suggestions(p)))
    OBVIOUS
  <2>3. Len(Suggestions(p)) \in Nat /\ Len(Suggestions(p)) > 0
    BY <2>1, ListsAreSequences
  <2>4. k \in 1 .. Len(Suggestions(p))
    <3>1. CASE p.selected < 0
      BY <2>2, <2>3, <3>1 DEF Highlighted
    <3>2. CASE ~(p.selected < 0)
      <4>1. k = Clamped(p.selected, Len(Suggestions(p))) + 1
        BY <2>2, <3>2 DEF Highlighted
      <4> QED BY <1>1, <2>3, <3>2, <4>1 DEF Clamped
    <3> QED BY <3>1, <3>2
  <2>5. PICK b : b = Completed(Buffer(p), Suggestions(p)[k])
    OBVIOUS
  <2>6. Placed(Buffer(p))
    BY BuffersAreRecords DEF TextInv, Placed
  <2>7. Placed(b)
    BY <2>1, <2>4, <2>5, <2>6, CompletedIsPlaced
  <2>8. PICK q : q = Holding(p, b)
    OBVIOUS
  <2>9. q = Editor(b.text, b.at, p.opened, p.suppressed, p.nav, p.selected, p.cached, p.index,
                   p.draft)
    BY <2>8, HoldingForm
  <2>10. Shaped(q) /\ q.text = b.text /\ q.at = b.at /\ q.nav = NoNav /\ q.draft = p.draft
    BY <1>1, <1>3, <2>9, EditorFields
  <2>11. r = [q EXCEPT !.selected = 0, !.opened = FALSE]
    BY <1>3, <2>2, <2>5, <2>8 DEF Accepted
  <2>12. r = Editor(q.text, q.at, Closed, q.suppressed, q.nav, 0, q.cached, q.index, q.draft)
    BY <2>10, <2>11, AcceptedForm
  <2>13. r.text = b.text /\ r.at = b.at /\ r.nav = NoNav /\ r.draft = p.draft /\ r.opened = Closed
    BY <2>10, <2>12 DEF Editor
  <2> QED BY <2>7, <2>13 DEF TextInv, Placed, Closed
<1> QED BY <1>2, <1>3

LEMMA CycledText ==
  ASSUME CatalogInv, NEW p, Shaped(p), MenuInv(p), TextInv(p), Suggestions(p) # NoWords,
         NEW r, r = Cycled(p, NextOf) \/ r = Cycled(p, PrevOf)
  PROVE  Kept(p, r)
<1>1. PICK q : q = NavStarted(p)
  OBVIOUS
<1>2. /\ Shaped(q) /\ MenuInv(q) /\ q.nav # NoNav /\ q.index = -1
      /\ q.selected \in -1 .. Len(q.nav.list) - 1 /\ Len(q.nav.list) \in Nat
  BY <1>1, CycleStarts
<1>3. TextInv(q) /\ q.opened = p.opened
  <2>1. CASE p.nav # NoNav
    BY <1>1, <2>1 DEF NavStarted
  <2>2. CASE p.nav = NoNav
    <3>1. q = Editor(p.text, p.at, p.opened, p.suppressed,
                     [orig |-> Buffer(p), list |-> Suggestions(p)], p.selected, p.cached, p.index,
                     p.draft)
      BY <1>1, <2>2, NavStartedForm
    <3>2. /\ q.text = p.text /\ q.at = p.at /\ q.opened = p.opened /\ q.draft = p.draft
          /\ q.nav.orig = Buffer(p)
      BY <3>1 DEF Editor
    <3> QED BY <3>2, BuffersAreRecords DEF TextInv, Placed
  <2> QED BY <2>1, <2>2
<1>4. PICK i : /\ i = NextOf(q.selected, Len(q.nav.list)) \/ i = PrevOf(q.selected, Len(q.nav.list))
               /\ r = Holding([q EXCEPT !.selected = i],
                              IF i < 0 THEN q.nav.orig ELSE Completed(q.nav.orig, q.nav.list[i + 1]))
  BY <1>1 DEF Cycled
<1>5. i \in -1 .. Len(q.nav.list) - 1
  BY <1>2, <1>4, SlotsOfACycle
<1>6. q.nav.list \in Lists(q.nav.orig) /\ q.nav.list # NoWords /\ Placed(q.nav.orig)
  BY <1>2, <1>3 DEF MenuInv, TextInv
<1>7. PICK b : b = IF i < 0 THEN q.nav.orig ELSE Completed(q.nav.orig, q.nav.list[i + 1])
  OBVIOUS
<1>8. Placed(b)
  <2>1. CASE i < 0
    BY <1>6, <1>7, <2>1
  <2>2. CASE ~(i < 0)
    <3>1. i + 1 \in 1 .. Len(q.nav.list)
      BY <1>2, <1>5, <1>6, <2>2
    <3> QED BY <1>6, <1>7, <2>2, <3>1, CompletedIsPlaced
  <2> QED BY <2>1, <2>2
<1>9. PICK s : s = [q EXCEPT !.selected = i]
  OBVIOUS
<1>10. s = Editor(q.text, q.at, q.opened, q.suppressed, q.nav, i, q.cached, q.index, q.draft)
  BY <1>2, <1>9, SelectedForm
<1>11. Shaped(s) /\ s.nav = q.nav /\ s.opened = q.opened /\ s.draft = q.draft
  BY <1>2, <1>5, <1>10, EditorFields, Numbers
<1>12. r = Editor(b.text, b.at, s.opened, s.suppressed, s.nav, s.selected, s.cached, s.index, s.draft)
  BY <1>4, <1>7, <1>9, <1>11, HoldingForm
<1>13. r.text = b.text /\ r.at = b.at /\ r.nav = q.nav /\ r.opened = p.opened /\ r.draft = q.draft
  BY <1>3, <1>11, <1>12 DEF Editor
<1> QED BY <1>3, <1>8, <1>13 DEF Kept, TextInv, Placed

LEMMA DismissedText ==
  ASSUME NEW p, Shaped(p), MenuInv(p), TextInv(p), NEW r, r = Dismissed(p)
  PROVE  TextInv(r) /\ ~r.opened
<1>1. p.index \in Int /\ p.selected \in Int /\ 0 \in Int
  BY DEF Shaped
<1>2. PICK q : q = IF p.nav = NoNav THEN p ELSE Holding(NavCleared(p), p.nav.orig)
  OBVIOUS
<1>3. Shaped(q) /\ Placed(q) /\ q.nav = NoNav /\ q.draft = p.draft
  <2>1. CASE p.nav = NoNav
    BY <1>2, <2>1 DEF TextInv
  <2>2. CASE p.nav # NoNav
    <3>1. PICK c : c = NavCleared(p)
      OBVIOUS
    <3>2. c = Editor(p.text, p.at, p.opened, p.suppressed, NoNav,
                     IF p.nav = NoNav THEN p.selected ELSE 0, p.cached, p.index, p.draft)
      BY <3>1, NavClearedForm
    <3>3. c = Editor(p.text, p.at, p.opened, p.suppressed, NoNav, 0, p.cached, p.index, p.draft)
      BY <2>2, <3>2
    <3>4. Shaped(c) /\ c.nav = NoNav /\ c.draft = p.draft /\ c.selected = 0 /\ c.index = p.index
      BY <1>1, <3>3, EditorFields
    <3>5. q = Holding(c, p.nav.orig)
      BY <1>2, <2>2, <3>1
    <3>6. q = Editor(p.nav.orig.text, p.nav.orig.at, c.opened, c.suppressed, c.nav, c.selected,
                     c.cached, c.index, c.draft)
      BY <3>4, <3>5, HoldingForm
    <3>7. Shaped(q) /\ q.text = p.nav.orig.text /\ q.at = p.nav.orig.at /\ q.nav = NoNav
          /\ q.draft = p.draft
      BY <1>1, <3>4, <3>6, EditorFields
    <3> QED BY <2>2, <3>7 DEF TextInv, Placed
  <2> QED BY <2>1, <2>2
<1>4. PICK w : w = IF \A c \in Catalogs : Offered(c, Buffer(q)) = NoWords
                     THEN None ELSE Buffer(q)
  OBVIOUS
<1>5. r = [q EXCEPT !.suppressed = w, !.selected = 0, !.cached = NoWords, !.opened = FALSE]
  BY <1>2, <1>4 DEF Dismissed
<1>6. r = Editor(q.text, q.at, Closed, w, q.nav, 0, NoWords, q.index, q.draft)
  BY <1>3, <1>5, DismissedForm
<1>7. r.text = q.text /\ r.at = q.at /\ r.nav = NoNav /\ r.draft = p.draft /\ r.opened = Closed
  BY <1>3, <1>6 DEF Editor
<1> QED BY <1>3, <1>7 DEF TextInv, Placed, Closed

HistoryTexts == HistoryInv /\ \A i \in DOMAIN history : Text(history[i])

LEMMA OlderText ==
  ASSUME NEW p, Shaped(p), MenuInv(p), TextInv(p), p.nav = NoNav, HistoryTexts,
         NEW r, r = Older(p)
  PROVE  Kept(p, r)
<1>1. p.index \in Int /\ p.index >= -1 /\ p.selected \in Int /\ 0 \in Int
  BY DEF Shaped, MenuInv
<1>2. PICK l : l = Recall
  OBVIOUS
<1>3. Len(l) \in Nat /\ (l # <<>> => Len(l) > 0) /\ \A k \in 1 .. Len(l) : Text(l[k])
  BY <1>2, RecallIsASequence, RecalledAreTexts DEF HistoryTexts
<1>4. CASE p.index = -1 /\ l # <<>>
  <2>1. PICK q : q = [p EXCEPT !.draft = p.text, !.index = 0]
    OBVIOUS
  <2>2. q = Editor(p.text, p.at, p.opened, p.suppressed, p.nav, p.selected, p.cached, 0, p.text)
    BY <2>1, DraftedForm
  <2>3. Shaped(q) /\ q.text = p.text /\ q.at = p.at /\ q.nav = NoNav /\ q.draft = p.text
    BY <1>1, <2>2, EditorFields
  <2>4. TextInv(q)
    BY <2>3 DEF TextInv, Placed
  <2>5. r = EditorSet(q, l[1])
    BY <1>2, <1>4, <2>1 DEF Older
  <2>6. Text(l[1])
    BY <1>3, <1>4
  <2> QED BY <2>3, <2>4, <2>5, <2>6, EditorSetText DEF Kept
<1>5. CASE p.index # -1 /\ p.index < Len(l) - 1
  <2>1. PICK q : q = [p EXCEPT !.index = p.index + 1]
    OBVIOUS
  <2>2. q = Editor(p.text, p.at, p.opened, p.suppressed, p.nav, p.selected, p.cached, p.index + 1,
                   p.draft)
    BY <2>1, IndexForm
  <2>3. Shaped(q) /\ q.text = p.text /\ q.at = p.at /\ q.nav = NoNav /\ q.draft = p.draft
    BY <1>1, <2>2, EditorFields
  <2>4. TextInv(q)
    BY <2>3 DEF TextInv, Placed
  <2>5. r = EditorSet(q, l[p.index + 2])
    BY <1>2, <1>5, <2>1 DEF Older
  <2>6. p.index + 2 \in 1 .. Len(l)
    BY <1>1, <1>3, <1>5
  <2> QED BY <1>3, <2>3, <2>4, <2>5, <2>6, EditorSetText DEF Kept
<1>6. CASE ~(p.index = -1 /\ l # <<>>) /\ ~(p.index # -1 /\ p.index < Len(l) - 1)
  <2>1. r = p
    BY <1>2, <1>6 DEF Older
  <2> QED BY <2>1 DEF Kept
<1> QED BY <1>4, <1>5, <1>6

LEMMA NewerText ==
  ASSUME NEW p, Shaped(p), MenuInv(p), TextInv(p), p.nav = NoNav, HistoryTexts,
         NEW r, r = Newer(p)
  PROVE  Kept(p, r)
<1>1. p.index \in Int /\ p.index >= -1 /\ p.selected \in Int
  BY DEF Shaped, MenuInv
<1>2. PICK l : l = Recall
  OBVIOUS
<1>3. Len(l) \in Nat /\ \A k \in 1 .. Len(l) : Text(l[k])
  BY <1>2, RecallIsASequence, RecalledAreTexts DEF HistoryTexts
<1>4. CASE p.index = -1
  <2>1. r = p
    BY <1>4 DEF Newer
  <2> QED BY <2>1 DEF Kept
<1>5. CASE p.index > 0
  <2>1. PICK q : q = [p EXCEPT !.index = p.index - 1]
    OBVIOUS
  <2>2. q = Editor(p.text, p.at, p.opened, p.suppressed, p.nav, p.selected, p.cached, p.index - 1,
                   p.draft)
    BY <2>1, IndexForm
  <2>3. p.index - 1 \in Int /\ p.index - 1 >= 0 /\ p.index # -1
    BY <1>1, <1>5
  <2>4. /\ Shaped(q) /\ q.index = p.index - 1 /\ q.draft = p.draft /\ q.nav = NoNav
        /\ q.opened = p.opened /\ q.text = p.text /\ q.at = p.at
    BY <1>1, <2>2, <2>3, EditorFields
  <2>5. TextInv(q)
    BY <2>4 DEF TextInv, Placed
  <2>6. r = IF q.index < Len(l) THEN EditorSet(q, l[q.index + 1]) ELSE q
    BY <1>2, <1>5, <2>1, <2>3 DEF Newer
  <2>7. CASE q.index < Len(l)
    <3>1. q.index + 1 \in 1 .. Len(l)
      BY <1>3, <2>3, <2>4, <2>7
    <3> QED BY <1>3, <2>4, <2>5, <2>6, <2>7, <3>1, EditorSetText DEF Kept
  <2>8. CASE ~(q.index < Len(l))
    BY <2>4, <2>5, <2>6, <2>8 DEF Kept
  <2> QED BY <2>7, <2>8
<1>6. CASE p.index = 0
  <2>1. PICK q : q = [p EXCEPT !.index = -1, !.draft = NoWords]
    OBVIOUS
  <2>2. q = Editor(p.text, p.at, p.opened, p.suppressed, p.nav, p.selected, p.cached, -1, NoWords)
    BY <2>1, LeftForm
  <2>3. Shaped(q) /\ q.draft = NoWords /\ q.text = p.text /\ q.at = p.at /\ q.nav = NoNav
    BY <1>1, <2>2, Numbers, EditorFields
  <2>4. TextInv(q) /\ Text(p.draft)
    BY <2>3, TextsOfSequences, EmptyIsASequence DEF TextInv, Placed, NoWords
  <2>5. r = EditorSet(q, p.draft)
    BY <1>6, <2>1 DEF Newer
  <2> QED BY <2>3, <2>4, <2>5, EditorSetText DEF Kept
<1> QED BY <1>1, <1>4, <1>5, <1>6

\* The editor takes a message that is no key: it opens no menu.
LEMMA UpdatedText ==
  ASSUME NEW p, Shaped(p), TextInv(p), NEW b, Placed(b), NEW r, r = Refreshed(Holding(p, b))
  PROVE  Kept(p, r)
<1>1. p.index \in Int /\ p.selected \in Int
  BY DEF Shaped
<1>2. PICK q : q = Holding(p, b)
  OBVIOUS
<1>3. q = Editor(b.text, b.at, p.opened, p.suppressed, p.nav, p.selected, p.cached, p.index,
                 p.draft)
  BY <1>2, HoldingForm
<1>4. /\ Shaped(q) /\ q.text = b.text /\ q.at = b.at /\ q.opened = p.opened /\ q.nav = p.nav
      /\ q.draft = p.draft
  BY <1>1, <1>3, EditorFields
<1>5. /\ r.text = b.text /\ r.at = b.at /\ r.opened = p.opened /\ r.nav = p.nav
      /\ r.draft = p.draft
  BY <1>2, <1>4, RefreshedText
<1> QED BY <1>5 DEF Kept, TextInv, Placed

(*************************** the screen, step by step *********************)

\* A step of the editor alone, that opens no menu and leaves the screen, History and what runs.
LEMMA EditorStep ==
  ASSUME SeenInv, Kept(pane, pane'), history' = history, running' = running,
         UNCHANGED <<height, transcript, scroll>>
  PROVE  TextInv(pane') /\ OutsideInv' /\ ScreenInv'
BY DEF SeenInv, Kept, OutsideInv, ScreenInv

LEMMA EditorKeySeen ==
  ASSUME SeenInv, NEW b, Placed(b), EditorKey(b)
  PROVE  TextInv(pane') /\ OutsideInv' /\ ScreenInv'
<1>1. Shaped(pane) /\ MenuInv(pane) /\ TextInv(pane)
  BY DEF SeenInv, PaneInv
<1>2. pane' = Keyed(pane, b)
  BY DEF EditorKey
<1>3. TextInv(pane') /\ (pane'.opened => b.text # pane.text)
  BY <1>1, <1>2, KeyedText
<1>4. b.text # pane.text => scroll' = 0
  BY BuffersAreRecords DEF EditorKey, Snapped
<1>5. UNCHANGED <<history, running, height, transcript>>
  BY DEF EditorKey, outside
<1> QED BY <1>3, <1>4, <1>5 DEF SeenInv, OutsideInv, ScreenInv

LEMMA PaneIsPlaced ==
  ASSUME SeenInv
  PROVE  /\ CatalogInv /\ Shaped(pane) /\ MenuInv(pane) /\ TextInv(pane) /\ HistoryTexts
         /\ Placed(Buffer(pane))
         /\ \A i \in 0 .. Len(pane.text) : Placed([Buffer(pane) EXCEPT !.at = i])
<1>1. CatalogInv /\ Shaped(pane) /\ MenuInv(pane) /\ TextInv(pane) /\ HistoryTexts
  BY DEF SeenInv, PaneInv, OutsideInv, HistoryTexts
<1>2. Placed(Buffer(pane))
  BY <1>1, BuffersAreRecords DEF TextInv, Placed
<1>3. ASSUME NEW i \in 0 .. Len(pane.text) PROVE Placed([Buffer(pane) EXCEPT !.at = i])
  <2>1. [Buffer(pane) EXCEPT !.at = i].text = pane.text /\ [Buffer(pane) EXCEPT !.at = i].at = i
    BY DEF Buffer
  <2> QED BY <1>1, <2>1 DEF TextInv, Placed
<1> QED BY <1>1, <1>2, <1>3

LEMMA AcceptSeen ==
  ASSUME SeenInv, CanAccept, Accept
  PROVE  TextInv(pane') /\ OutsideInv' /\ ScreenInv'
<1>1. pane' = Accepted(pane) /\ UNCHANGED <<history, running, height, transcript, scroll>>
  BY DEF Accept, MenuKey, outside, view
<1>2. TextInv(pane') /\ ~pane'.opened
  BY <1>1, PaneIsPlaced, AcceptedText DEF CanAccept
<1> QED BY <1>1, <1>2, EditorStep DEF Kept

LEMMA CycleSeen ==
  ASSUME SeenInv, CanAccept, UNCHANGED <<history, running, height, transcript, scroll>>,
         pane' = Cycled(pane, NextOf) \/ pane' = Cycled(pane, PrevOf)
  PROVE  TextInv(pane') /\ OutsideInv' /\ ScreenInv'
BY PaneIsPlaced, CycledText, EditorStep DEF CanAccept

LEMMA HistorySeen ==
  ASSUME SeenInv, ~CanAccept, UNCHANGED <<history, running, height, transcript, scroll>>,
         pane' = Older(pane) \/ pane' = Newer(pane)
  PROVE  TextInv(pane') /\ OutsideInv' /\ ScreenInv'
<1>1. pane.nav = NoNav
  BY NoMenuMeansNoCycle DEF SeenInv, PaneInv, CanAccept
<1> QED BY <1>1, PaneIsPlaced, OlderText, NewerText, EditorStep

LEMMA LineSeen ==
  ASSUME SeenInv, Up \/ Down
  PROVE  TextInv(pane') /\ OutsideInv' /\ ScreenInv'
<1>1. CASE \E n : ToLine(n)
  <2>1. PICK n : ToLine(n)
    BY <1>1
  <2>2. CASE EditorKey(Buffer(pane))
    BY <2>2, PaneIsPlaced, EditorKeySeen
  <2>3. CASE \E i \in LineAt(n) : EditorKey([Buffer(pane) EXCEPT !.at = i])
    <3>1. PICK i \in LineAt(n) : EditorKey([Buffer(pane) EXCEPT !.at = i])
      BY <2>3
    <3>2. i \in 0 .. Len(pane.text)
      BY DEF LineAt
    <3> QED BY <3>1, <3>2, PaneIsPlaced, EditorKeySeen
  <2> QED BY <2>1, <2>2, <2>3 DEF ToLine
<1>2. CASE /\ ~CanAccept /\ MenuKey
           /\ pane' = Older(pane) \/ pane' = Newer(pane)
  <2>1. UNCHANGED <<history, running, height, transcript, scroll>>
    BY <1>2 DEF MenuKey, outside, view
  <2> QED BY <1>2, <2>1, HistorySeen
<1>3. (\E n : ToLine(n)) \/ /\ ~CanAccept /\ MenuKey
                            /\ pane' = Older(pane) \/ pane' = Newer(pane)
  <2>1. CASE Up
    BY <2>1 DEF Up
  <2>2. CASE Down
    BY <2>2 DEF Down
  <2> QED BY <2>1, <2>2
<1> QED BY <1>1, <1>2, <1>3

LEMMA TranscriptSeen ==
  ASSUME ScreenInv, TranscriptGrown
  PROVE  height' \in Nat \ {0} /\ transcript' \in Nat /\ scroll' = 0
<1>1. MaxTranscript \in Nat /\ transcript \in Nat /\ height \in Nat \ {0}
  BY CommandPaneAssumptions DEF ScreenInv
<1> QED BY <1>1 DEF TranscriptGrown, Lesser

LEMMA ArrivalsAreTexts == \A t \in Arriving : Text(t)
<1>1. \A t \in Arriving : t \in Seq(Range(t))
  BY CommandPaneAssumptions
<1> QED BY <1>1, TextsOfSequences

LEMMA ExecutedSeen ==
  ASSUME SeenInv, StatementExecuted
  PROVE  TextInv(pane') /\ OutsideInv' /\ ScreenInv'
<1>1. running \notin {None, Slash} /\ running' = None /\ Text(running)
  BY DEF StatementExecuted, SeenInv, OutsideInv
<1>2. CASE UNCHANGED <<catalog, history, pane, view, ghosts>>
  BY <1>1, <1>2 DEF SeenInv, OutsideInv, ScreenInv, view
<1>3. CASE history' = Append(history, running) /\ Write(Cleared(pane)) /\ TranscriptGrown
  <2>1. pane' = Fresh
    BY <1>3 DEF Write, Cleared
  <2>2. TextInv(pane') /\ ~pane'.opened
    BY <2>1, FreshText
  <2>3. OutsideInv'
    <3>1. PICK S : history \in Seq(S)
      BY DEF SeenInv, PaneInv, HistoryInv
    <3>2. PICK n : n = Len(history)
      OBVIOUS
    <3>3. history \in Seq(S \cup {running}) /\ n \in Nat /\ DOMAIN history = 1 .. n
      BY <3>1, <3>2
    <3>4. /\ DOMAIN history' = 1 .. n + 1
          /\ \A i \in 1 .. n : history'[i] = history[i]
          /\ history'[n + 1] = running
      BY <1>3, <3>2, <3>3
    <3>5. \A i \in 1 .. n : Text(history[i])
      BY <3>3 DEF SeenInv, OutsideInv
    <3>6. \A i \in 1 .. n + 1 : i \in 1 .. n \/ i = n + 1
      BY <3>3
    <3>7. \A i \in DOMAIN history' : Text(history'[i])
      BY <1>1, <3>4, <3>5, <3>6
    <3> QED BY <1>1, <3>7 DEF OutsideInv
  <2>4. ScreenInv'
    BY <1>3, <2>2, TranscriptSeen DEF SeenInv, ScreenInv
  <2> QED BY <2>2, <2>3, <2>4
<1> QED BY <1>2, <1>3 DEF StatementExecuted

LEMMA SlashSeen ==
  ASSUME SeenInv, SlashExecuted
  PROVE  TextInv(pane') /\ OutsideInv' /\ ScreenInv'
<1>1. OutsideInv'
  BY DEF SlashExecuted, SeenInv, OutsideInv
<1>2. CASE Write(Cleared(pane)) /\ TranscriptGrown
  <2>1. TextInv(pane') /\ ~pane'.opened
    BY <1>2, FreshText DEF Write, Cleared
  <2>2. ScreenInv'
    BY <1>2, <2>1, TranscriptSeen DEF SeenInv, ScreenInv
  <2> QED BY <1>1, <2>1, <2>2
<1>3. CASE (\E t \in Arriving : Write(EditorSet(pane, t))) /\ UNCHANGED view
  <2>1. PICK t \in Arriving : pane' = EditorSet(pane, t)
    BY <1>3 DEF Write
  <2>2. TextInv(pane') /\ ~pane'.opened
    BY <2>1, PaneIsPlaced, ArrivalsAreTexts, EditorSetText
  <2> QED BY <1>1, <1>3, <2>2 DEF SeenInv, ScreenInv, view
<1> QED BY <1>2, <1>3 DEF SlashExecuted

LEMMA ArrivalSeen ==
  ASSUME SeenInv, TextArrives
  PROVE  TextInv(pane') /\ OutsideInv' /\ ScreenInv'
<1>1. PICK t \in Arriving \cup Range(history) : pane' = EditorSet(pane, t)
  BY DEF TextArrives, Write
<1>2. Text(t)
  BY ArrivalsAreTexts DEF Range, SeenInv, OutsideInv
<1>3. TextInv(pane') /\ ~pane'.opened
  BY <1>1, <1>2, PaneIsPlaced, EditorSetText
<1>4. UNCHANGED <<history, running, height, transcript, scroll>>
  BY DEF TextArrives, outside, view
<1> QED BY <1>3, <1>4, EditorStep DEF Kept

LEMMA UpdatedSeen ==
  ASSUME SeenInv, NEW b, Placed(b), Updated(b)
  PROVE  TextInv(pane') /\ OutsideInv' /\ ScreenInv'
<1>1. /\ pane' = Refreshed(Holding(pane, b))
      /\ UNCHANGED <<history, running, height, transcript, scroll>>
  BY DEF Updated, outside, view
<1> QED BY <1>1, PaneIsPlaced, UpdatedText, EditorStep

LEMMA AdoptedSeen ==
  ASSUME SeenInv, SessionAdopted
  PROVE  TextInv(pane') /\ OutsideInv' /\ ScreenInv'
<1>1. TextInv(pane') /\ ~pane'.opened
  BY FreshText DEF SessionAdopted
<1>2. \A i \in DOMAIN history' : Text(history'[i])
  <2>1. CASE history' = <<>>
    BY <2>1
  <2>2. CASE \E t \in Range(history) : history' = <<t>>
    <3>1. PICK t \in Range(history) : history' = <<t>>
      BY <2>2
    <3>2. Text(t)
      BY DEF Range, SeenInv, OutsideInv
    <3>3. \A i \in DOMAIN history' : history'[i] = t
      BY <3>1
    <3> QED BY <3>2, <3>3
  <2> QED BY <2>1, <2>2 DEF SessionAdopted
<1>3. ScreenInv' /\ running' = running
  BY <1>1 DEF SessionAdopted, SeenInv, ScreenInv
<1> QED BY <1>1, <1>2, <1>3 DEF SeenInv, OutsideInv

LEMMA SubmitSeen ==
  ASSUME SeenInv, Submit
  PROVE  TextInv(pane') /\ OutsideInv' /\ ScreenInv'
<1>1. UNCHANGED <<pane, history, height, transcript, scroll>>
  BY DEF Submit, view
<1>2. running' \in {running, Slash, pane.text, None}
  BY DEF Submit
<1>3. running' \in {None, Slash} \/ Text(running')
  BY <1>2 DEF SeenInv, OutsideInv, TextInv, Placed
<1> QED BY <1>1, <1>3 DEF SeenInv, OutsideInv, ScreenInv

LEMMA WordsArePlaced ==
  ASSUME SeenInv, NEW w
  PROVE  Placed(Inserted(Buffer(pane), <<w>>))
<1>1. <<w>> \in Seq({w})
  OBVIOUS
<1> QED BY <1>1, TextsOfSequences, PaneIsPlaced, InsertedIsPlaced

LEMMA SeenInvInit == PInit => SeenInv
<1> SUFFICES ASSUME PInit PROVE SeenInv
  OBVIOUS
<1>1. CatalogInv /\ PaneInv
  BY CatalogInvInit, PaneInvInit
<1>2. TextInv(pane) /\ ~pane.opened
  BY FreshText DEF PInit
<1>3. OutsideInv
  BY DEF PInit, OutsideInv
<1>4. height \in Nat \ {0}
  BY CommandPaneAssumptions DEF PInit
<1> QED BY <1>1, <1>2, <1>3, <1>4 DEF SeenInv, ScreenInv, PInit

LEMMA SeenInvNext == SeenInv /\ [PNext]_pvars => SeenInv'
<1> SUFFICES ASSUME SeenInv, [PNext]_pvars
             PROVE  TextInv(pane') /\ OutsideInv' /\ ScreenInv'
  BY CatalogInvNext, PaneInvNext DEF SeenInv
<1>1. CASE Type
  BY <1>1, WordsArePlaced, EditorKeySeen DEF Type
<1>2. CASE Erase
  <2>1. Placed(Erased(Buffer(pane)))
    BY <1>2, PaneIsPlaced, ErasedIsPlaced, BuffersAreRecords DEF Erase
  <2> QED BY <1>2, <2>1, EditorKeySeen DEF Erase
<1>3. CASE Move
  BY <1>3, PaneIsPlaced, EditorKeySeen DEF Move
<1>4. CASE Tab
  BY <1>4, PaneIsPlaced, EditorKeySeen, AcceptSeen DEF Tab
<1>5. CASE Submit
  BY <1>5, SubmitSeen
<1>6. CASE Enter
  BY <1>6, SubmitSeen, AcceptSeen, WordsArePlaced, EditorKeySeen DEF Enter
<1>7. CASE Following \/ Preceding
  <2>1. UNCHANGED <<history, running, height, transcript, scroll>>
    BY <1>7 DEF Following, Preceding, MenuKey, outside, view
  <2>2. CASE CanAccept
    <3>1. pane' = Cycled(pane, NextOf) \/ pane' = Cycled(pane, PrevOf)
      BY <1>7, <2>2 DEF Following, Preceding
    <3> QED BY <2>1, <2>2, <3>1, CycleSeen
  <2>3. CASE ~CanAccept
    <3>1. pane' = Older(pane) \/ pane' = Newer(pane)
      BY <1>7, <2>3 DEF Following, Preceding
    <3> QED BY <2>1, <2>3, <3>1, HistorySeen
  <2> QED BY <2>2, <2>3
<1>8. CASE Up \/ Down
  BY <1>8, LineSeen
<1>9. CASE Scroll \/ Refocus
  <2>1. /\ pane' = [pane EXCEPT !.opened = FALSE]
        /\ UNCHANGED <<history, running, height, transcript>>
    BY <1>9 DEF Scroll, Refocus, MenuKey, outside, view
  <2>2. TextInv(pane') /\ ~pane'.opened
    <3>1. pane' = Editor(pane.text, pane.at, Closed, pane.suppressed, pane.nav, pane.selected,
                         pane.cached, pane.index, pane.draft)
      BY <2>1, PaneIsPlaced, ClosedForm
    <3>2. PICK r : r = pane'
      OBVIOUS
    <3> QED BY <3>1, <3>2, PaneIsPlaced, ClosedText
  <2> QED BY <2>1, <2>2 DEF SeenInv, OutsideInv, ScreenInv
<1>10. CASE Escape
  <2>1. pane' = Dismissed(pane) /\ UNCHANGED <<history, running, height, transcript, scroll>>
    BY <1>10 DEF Escape, MenuKey, outside, view
  <2>2. TextInv(pane') /\ ~pane'.opened
    BY <2>1, PaneIsPlaced, DismissedText
  <2> QED BY <2>1, <2>2, EditorStep DEF Kept
<1>11. CASE ClearInput
  <2>1. pane' = Fresh /\ UNCHANGED <<history, running, height, transcript, scroll>>
    BY <1>11 DEF ClearInput, Cleared, MenuKey, outside, view
  <2> QED BY <2>1, FreshText, EditorStep DEF Kept
<1>12. CASE StatementExecuted
  BY <1>12, ExecutedSeen
<1>13. CASE SlashExecuted
  BY <1>13, SlashSeen
<1>14. CASE TextArrives
  BY <1>14, ArrivalSeen
<1>15. CASE Paste
  BY <1>15, WordsArePlaced, UpdatedSeen DEF Paste
<1>16. CASE Blink
  BY <1>16, PaneIsPlaced, UpdatedSeen DEF Blink
<1>17. CASE SchemaLoaded
  BY <1>17 DEF SchemaLoaded, view, SeenInv, OutsideInv, ScreenInv
<1>18. CASE Resize
  BY <1>18, CommandPaneAssumptions DEF Resize, outside, ghosts, SeenInv, OutsideInv, ScreenInv
<1>19. CASE SessionAdopted
  BY <1>19, AdoptedSeen
<1>20. CASE UNCHANGED pvars
  BY <1>20 DEF pvars, outside, view, SeenInv, OutsideInv, ScreenInv
<1> QED BY <1>1, <1>2, <1>3, <1>4, <1>5, <1>6, <1>7, <1>8, <1>9, <1>10, <1>11, <1>12, <1>13,
           <1>14, <1>15, <1>16, <1>17, <1>18, <1>19, <1>20 DEF PNext

LEMMA SeenInvariant == PSpec => []SeenInv
BY SeenInvInit, SeenInvNext, PTL DEF PSpec

\* The line of the cursor is one of the lines of the text.
LEMMA CursorIsInTheText ==
  ASSUME NEW b, Placed(b)
  PROVE  /\ Lines(Before(b)) \in Nat /\ Lines(b.text) \in Nat
         /\ Lines(Before(b)) <= Lines(b.text)
<1>1. Text(b.text) /\ b.at \in 0 .. Len(b.text) /\ Len(b.text) \in Nat
  BY TextsAreSequences DEF Placed
<1>2. Text(Before(b)) /\ Len(Before(b)) = b.at /\ \A i \in 1 .. b.at : Before(b)[i] = b.text[i]
  <2>1. 1 \in 1 .. Len(b.text) + 1
    BY <1>1
  <2>2. /\ Text(SubSeq(b.text, 1, b.at))
        /\ Len(SubSeq(b.text, 1, b.at)) = IF 1 <= b.at THEN b.at - 1 + 1 ELSE 0
        /\ \A i \in 1 .. Len(SubSeq(b.text, 1, b.at)) : SubSeq(b.text, 1, b.at)[i] = b.text[1 + i - 1]
    BY <1>1, <2>1, PartsOfTexts
  <2>3. Len(SubSeq(b.text, 1, b.at)) = b.at
    BY <1>1, <2>2
  <2>4. \A i \in 1 .. b.at : 1 + i - 1 = i
    BY <1>1
  <2> QED BY <2>2, <2>3, <2>4 DEF Before
<1> DEFINE Some == {i \in DOMAIN Before(b) : Before(b)[i] = Newline}
           All == {i \in DOMAIN b.text : b.text[i] = Newline}
<1>3. DOMAIN Before(b) = 1 .. b.at /\ DOMAIN b.text = 1 .. Len(b.text)
  BY <1>1, <1>2, TextsAreSequences
<1>4. Some \subseteq All
  BY <1>1, <1>2, <1>3
<1>5. IsFiniteSet(All)
  <2>1. IsFiniteSet(1 .. Len(b.text))
    BY <1>1, FS_Interval
  <2>2. All \subseteq 1 .. Len(b.text)
    BY <1>3
  <2> QED BY <2>1, <2>2, FS_Subset
<1>6. IsFiniteSet(Some) /\ Cardinality(Some) <= Cardinality(All)
  BY <1>4, <1>5, FS_Subset
<1>7. Cardinality(Some) \in Nat /\ Cardinality(All) \in Nat
  BY <1>5, <1>6, FS_CardinalityType
<1> QED BY <1>6, <1>7 DEF Lines

(******************************* the theorems *****************************)

\* What the user wrote is never lost to a key: until something else than a key writes the editor,
\* it is the text, the draft, or the restore slot of the cycle (navigateHistoryPrev and Next,
\* Update and DismissAutocomplete of command_mode.go).
THEOREM KeysLose == PSpec => []KeysLoseNothing
<1>1. PaneInv => KeysLoseNothing
  BY DEF PaneInv, TextKept, KeysLoseNothing
<1> QED BY <1>1, PaneInvariant, PTL

\* However long the user cycles through the menu, the buffer is what was typed with one of the
\* completions in it, never a completion of a completion (SelectNextSuggestion,
\* SelectPrevSuggestion, applyNavSuggestion).
THEOREM CyclesComplete == PSpec => []CyclingNeverCompounds
<1>1. PaneInv => CyclingNeverCompounds
  <2> SUFFICES ASSUME PaneInv, pane.nav # NoNav, ~overwritten
               PROVE  /\ pane.selected < Len(pane.nav.list)
                      /\ pane.text = IF pane.selected < 0 THEN own
                           ELSE Completed(pane.nav.orig, pane.nav.list[pane.selected + 1]).text
    BY DEF CyclingNeverCompounds
  <2>1. ~(pane.index >= 0) /\ pane.selected < Len(pane.nav.list)
    BY DEF PaneInv, MenuInv
  <2>2. TextKept(pane, own, Recall)
    BY DEF PaneInv
  <2> QED BY <2>1, <2>2 DEF TextKept
<1> QED BY <1>1, PaneInvariant, PTL

\* At a position of History the editor shows the Statement of that position, whatever was run or
\* brought by another Session since (navigateHistoryPrev and Next, deduplicatedHistory,
\* handleStatementExecuted, resetPanesToInit).
THEOREM PositionsAreShown == PSpec => []PositionIsShown
<1>1. PaneInv => PositionIsShown
  BY DEF PaneInv, TextKept, PositionIsShown
<1> QED BY <1>1, PaneInvariant, PTL

\* What Tab, Enter and the cycle take from is the menu on the screen, unless a Schema or a Result
\* Set came since it was computed and no list was frozen; even then the menu is one for the text
\* that is completed (cachedSuggestions against computeSuggestions, Update of model.go).
THEOREM MenusAreForThisText == PSpec => []MenuIsForThisText
<1>1. CatalogInv /\ PaneInv /\ MadeInv => MenuIsForThisText
  <2> SUFFICES ASSUME CatalogInv, PaneInv, MadeInv, CanAccept
               PROVE  IF stale THEN \E c \in Catalogs : pane.cached = Offered(c, Completing)
                               ELSE pane.cached = Suggestions(pane)
    BY DEF MenuIsForThisText
  <2>1. Shaped(pane) /\ MenuInv(pane) /\ Suggestions(pane) # NoWords
    BY DEF PaneInv, CanAccept
  <2>2. pane.nav = NoNav => pane.opened /\ pane.suppressed # Buffer(pane)
    BY <2>1, MenuMeansNoPosition
  <2>3. pane.cached \in Lists(Completing)
    BY <2>1, <2>2 DEF MenuInv, Completing
  <2>4. ~stale => pane.cached = Suggestions(pane)
    BY <2>2 DEF MadeInv, Matches, Completes, Suggestions
  <2> QED BY <2>3, <2>4 DEF Lists
<1> QED BY <1>1, PaneInvariant, MadeInvariant, PTL

\* While what is typed is being completed the cursor is on the screen, however long the transcript
\* is and whatever was scrolled or resized before (Update, ScrollUp, editorAdjustedScrollTop, View).
THEOREM TypingStaysInSight == PSpec => []TypingIsSeen
<1>1. SeenInv => TypingIsSeen
  <2> SUFFICES ASSUME SeenInv, pane.opened PROVE CursorOnScreen
    BY DEF TypingIsSeen
  <2>1. height \in Nat \ {0} /\ transcript \in Nat /\ scroll = 0
    BY DEF SeenInv, ScreenInv
  <2>2. PICK l : l = Lines(Before(Buffer(pane)))
    OBVIOUS
  <2>3. PICK n : n = Lines(pane.text)
    OBVIOUS
  <2>4. l \in Nat /\ n \in Nat /\ l <= n
    BY <2>2, <2>3, PaneIsPlaced, CursorIsInTheText, BuffersAreRecords
  <2>5. PICK pad : pad = TopPadding
    OBVIOUS
  <2>6. Content = transcript + n + 1 /\ Content \in Nat
    BY <2>1, <2>3, <2>4 DEF Content, EditorRows
  <2>7. pad \in Nat /\ pad + Content >= height
    BY <2>1, <2>5, <2>6 DEF TopPadding, AtLeastZero
  <2>8. CursorRow = pad + transcript + l
    BY <2>2, <2>5 DEF CursorRow
  <2>9. AllRows = pad + transcript + n + 1
    BY <2>1, <2>4, <2>5, <2>6, <2>7 DEF AllRows
  <2>10. NaturalTop = pad + transcript + n + 1 - height /\ NaturalTop \in Nat
    BY <2>1, <2>4, <2>6, <2>7, <2>9 DEF NaturalTop, AtLeastZero
  <2>11. PICK c : c = CursorRow
    OBVIOUS
  <2>12. PICK t : t = NaturalTop
    OBVIOUS
  <2>13. c \in Nat /\ t \in Nat /\ c < t + height /\ AllRows - height = t
    BY <2>1, <2>4, <2>7, <2>8, <2>9, <2>10, <2>11, <2>12
  <2>14. ScrollTop = Lesser(FollowingCursor(t), t)
    BY <2>1, <2>12, <2>13 DEF ScrollTop, AtLeastZero
  <2>15. PICK up : up = Lesser(t, c)
    OBVIOUS
  <2>16. up \in Nat /\ up <= t /\ up <= c
    BY <2>13, <2>15 DEF Lesser
  <2>17. PICK down : down = IF c >= up + height THEN c - height + 1 ELSE up
    OBVIOUS
  <2>18. down \in Nat /\ down <= t /\ down <= c /\ c < down + height
    BY <2>1, <2>13, <2>16, <2>17
  <2>19. FollowingCursor(t) = AtLeastZero(Lesser(down, t))
    BY <2>11, <2>13, <2>15, <2>17 DEF FollowingCursor
  <2>20. ScrollTop = down
    BY <2>13, <2>14, <2>18, <2>19 DEF AtLeastZero, Lesser
  <2> QED BY <2>11, <2>18, <2>20 DEF CursorOnScreen
<1> QED BY <1>1, SeenInvariant, PTL
=============================================================================
