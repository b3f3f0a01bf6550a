------------------------- MODULE HistoryAndListsProofs -------------------------
(***************************************************************************)
(* Proofs about HistoryStore, for any number of handles, any cap and any   *)
(* file found at the start; then about ListModals, for lists of any        *)
(* length and boxes of any height.  The two are independent of each other  *)
(* and share no names.                                                     *)
(***************************************************************************)
EXTENDS HistoryStore, ListModals, FiniteSetTheorems, WellFoundedInduction, TLAPS

Distinct(q) == \A i, j \in 1 .. Len(q) : q[i] = q[j] => i = j

(************************** appendStatement *******************************)

LEMMA RangeOfSeq ==
  ASSUME NEW S, NEW q \in Seq(S)
  PROVE  /\ DOMAIN q = 1 .. Len(q)
         /\ Range(q) = {q[i] : i \in 1 .. Len(q)}
         /\ Range(q) \subseteq S
         /\ \A x : x \in Range(q) <=> \E i \in 1 .. Len(q) : q[i] = x
BY DEF Range

\* Removing a Statement from a slice without duplicates.
LEMMA WithoutFacts ==
  ASSUME NEW S, NEW q \in Seq(S), NEW s \in S, Distinct(q),
         NEW i \in 1 .. Len(q), q[i] = s
  PROVE  Without(q, s) = [j \in 1 .. Len(q) - 1 |-> IF j < i THEN q[j] ELSE q[j + 1]]
<1> DEFINE First(k) == k \in 1 .. Len(q) /\ q[k] = s /\ \A j \in 1 .. k - 1 : q[j] # s
<1>1. s \in Range(q)
  BY RangeOfSeq
<1>2. First(i)
  BY DEF Distinct
<1>3. \A k : First(k) => k = i
  BY DEF Distinct
<1>4. (CHOOSE k \in 1 .. Len(q) : q[k] = s /\ \A j \in 1 .. k - 1 : q[j] # s) = i
  BY <1>2, <1>3
<1> QED
  BY <1>1, <1>4 DEF Without

LEMMA WithoutStranger ==
  ASSUME NEW q, NEW s, s \notin Range(q)
  PROVE  Without(q, s) = q
BY DEF Without

\* The slice before the cap, when s stood at position i.
LEMMA MovedShape ==
  ASSUME NEW S, NEW q \in Seq(S), NEW s \in S, Distinct(q),
         NEW i \in 1 .. Len(q), q[i] = s
  PROVE  LET r == Append(Without(q, s), s) IN
           /\ r \in Seq(S)
           /\ Len(r) = Len(q)
           /\ r[Len(r)] = s
           /\ \A j \in 1 .. Len(q) - 1 : r[j] = IF j < i THEN q[j] ELSE q[j + 1]
<1> DEFINE w == Without(q, s)
<1>1. w = [j \in 1 .. Len(q) - 1 |-> IF j < i THEN q[j] ELSE q[j + 1]]
  BY WithoutFacts
<1>2. \A j \in 1 .. Len(q) - 1 : (IF j < i THEN q[j] ELSE q[j + 1]) \in S
  OBVIOUS
<1>3. Len(q) - 1 \in Nat
  OBVIOUS
<1>4. /\ w \in Seq(S)
      /\ Len(w) = Len(q) - 1
      /\ \A j \in 1 .. Len(q) - 1 : w[j] = IF j < i THEN q[j] ELSE q[j + 1]
  BY <1>1, <1>2, <1>3
<1> HIDE DEF w
<1> QED
  BY <1>4 DEF w

\* The slice before the cap: s comes last and once, the others keep their order.
LEMMA MovedToEnd ==
  ASSUME NEW S, NEW q \in Seq(S), NEW s \in S, Distinct(q)
  PROVE  LET r == Append(Without(q, s), s) IN
           /\ r \in Seq(S)
           /\ Distinct(r)
           /\ Len(r) = IF s \in Range(q) THEN Len(q) ELSE Len(q) + 1
           /\ r[Len(r)] = s
           /\ Range(r) = Range(q) \cup {s}
<1> DEFINE w == Without(q, s)
           r == Append(w, s)
<1>1. CASE s \notin Range(q)
  <2>1. w = q
    BY <1>1, WithoutStranger
  <2>2. r \in Seq(S) /\ Len(r) = Len(q) + 1 /\ r[Len(r)] = s
    BY <2>1
  <2>3. \A k \in 1 .. Len(q) : r[k] = q[k] /\ q[k] # s
    BY <2>1, <1>1, RangeOfSeq
  <2>4. Distinct(r)
    BY <2>2, <2>3 DEF Distinct
  <2>5. Range(r) = Range(q) \cup {s}
    <3>1. \A x : x \in Range(r) <=> \E k \in 1 .. Len(r) : r[k] = x
      BY <2>2, RangeOfSeq
    <3>2. \A x : x \in Range(q) <=> \E k \in 1 .. Len(q) : q[k] = x
      BY RangeOfSeq
    <3> HIDE DEF w, r
    <3> QED
      BY <2>2, <2>3, <3>1, <3>2
  <2> QED
    BY <1>1, <2>2, <2>4, <2>5
<1>2. CASE s \in Range(q)
  <2>1. PICK i \in 1 .. Len(q) : q[i] = s
    BY <1>2, RangeOfSeq
  <2>4. /\ r \in Seq(S) /\ Len(r) = Len(q) /\ r[Len(r)] = s
        /\ \A j \in 1 .. Len(q) - 1 : r[j] = IF j < i THEN q[j] ELSE q[j + 1]
    BY <2>1, MovedShape
  <2> HIDE DEF r
  <2>5. \A j \in 1 .. Len(q) - 1 : r[j] # s
    BY <2>1, <2>4 DEF Distinct
  <2>6. Distinct(r)
    <3> SUFFICES ASSUME NEW j \in 1 .. Len(r), NEW k \in 1 .. Len(r), r[j] = r[k], j # k
                 PROVE  FALSE
      BY DEF Distinct
    <3>1. j \in 1 .. Len(q) - 1 /\ k \in 1 .. Len(q) - 1
      BY <2>4, <2>5
    <3> QED
      BY <2>4, <3>1 DEF Distinct
  <2>7. Range(r) = Range(q) \cup {s}
    <3>1. \A x : x \in Range(r) <=> \E k \in 1 .. Len(r) : r[k] = x
      BY <2>4, RangeOfSeq
    <3>2. \A x : x \in Range(q) <=> \E k \in 1 .. Len(q) : q[k] = x
      BY RangeOfSeq
    <3>3. \A k \in 1 .. Len(r) : r[k] \in Range(q) \cup {s}
      BY <2>4, <3>2
    <3>4. ASSUME NEW k \in 1 .. Len(q) PROVE q[k] \in Range(r)
      <4>1. CASE k < i
        BY <4>1, <2>4, <3>1
      <4>2. CASE k = i
        BY <4>2, <2>1, <2>4, <3>1
      <4>3. CASE k > i
        <5>1. k - 1 \in 1 .. Len(q) - 1 /\ ~(k - 1 < i) /\ (k - 1) + 1 = k
          BY <4>3
        <5>2. r[k - 1] = q[k]
          BY <5>1, <2>4
        <5> QED
          BY <5>1, <5>2, <3>1, <2>4
      <4> QED
        BY <4>1, <4>2, <4>3
    <3>5. s \in Range(r)
      BY <2>4, <3>1
    <3> QED
      BY <3>1, <3>2, <3>3, <3>4, <3>5
  <2> QED
    BY <1>2, <2>4, <2>6, <2>7 DEF r, w
<1> QED
  BY <1>1, <1>2

LEMMA CappedFacts ==
  ASSUME NEW S, NEW r \in Seq(S), Len(r) =< MaxEntries + 1, Len(r) >= 1
  PROVE  LET c == Capped(r) IN
           /\ c \in Seq(S)
           /\ Len(c) = IF Len(r) > MaxEntries THEN MaxEntries ELSE Len(r)
           /\ \A i \in 1 .. Len(c) : c[i] = r[Len(r) - Len(c) + i]
<1>1. MaxEntries \in Nat \ {0}
  BY HistoryAssumptions
<1>2. CASE Len(r) > MaxEntries
  <2>1. Len(r) = MaxEntries + 1 /\ Capped(r) = SubSeq(r, 2, Len(r))
    BY <1>1, <1>2 DEF Capped
  <2>2. SubSeq(r, 2, Len(r)) = [i \in 1 .. MaxEntries |-> r[i + 1]]
    BY <1>1, <2>1
  <2>3. \A i \in 1 .. MaxEntries : r[i + 1] \in S
    BY <1>1, <2>1
  <2> QED
    BY <1>1, <1>2, <2>1, <2>2, <2>3
<1>3. CASE ~(Len(r) > MaxEntries)
  BY <1>1, <1>3 DEF Capped
<1> QED
  BY <1>2, <1>3

\* What appendStatement does to a slice that is already normalized: the result is
\* normalized, never shorter, ends with s, and only drops a Statement when it is full.
LEMMA AppendStatementFacts ==
  ASSUME NEW S, NEW q \in Seq(S), NEW s \in S, WellFormed(q)
  PROVE  LET r == AppendStatement(q, s) IN
           /\ r \in Seq(S)
           /\ WellFormed(r)
           /\ Len(r) >= 1
           /\ r[Len(r)] = s
           /\ Len(r) >= Len(q)
           /\ Range(r) \subseteq Range(q) \cup {s}
           /\ Range(q) \subseteq Range(r) \/ Len(r) = MaxEntries
<1>1. MaxEntries \in Nat \ {0}
  BY HistoryAssumptions
<1>2. Distinct(q) /\ Len(q) =< MaxEntries
  BY DEF WellFormed, Distinct
<1> DEFINE m == Append(Without(q, s), s)
           r == AppendStatement(q, s)
<1>3. /\ m \in Seq(S)
      /\ Distinct(m)
      /\ Len(m) = IF s \in Range(q) THEN Len(q) ELSE Len(q) + 1
      /\ m[Len(m)] = s
      /\ Range(m) = Range(q) \cup {s}
  BY <1>2, MovedToEnd
<1>4. s \in Range(q) => Len(q) >= 1
  BY RangeOfSeq
<1>5. Len(m) >= 1 /\ Len(m) =< MaxEntries + 1 /\ Len(m) >= Len(q)
  BY <1>1, <1>2, <1>3, <1>4
<1>6. r = Capped(m)
  BY DEF AppendStatement
<1> HIDE DEF m, r
<1>7. /\ r \in Seq(S)
      /\ Len(r) = IF Len(m) > MaxEntries THEN MaxEntries ELSE Len(m)
      /\ \A i \in 1 .. Len(r) : r[i] = m[Len(m) - Len(r) + i]
  BY <1>3, <1>5, <1>6, CappedFacts
<1>7a. /\ Len(m) \in Nat /\ Len(r) \in Nat
       /\ Len(r) =< Len(m) /\ Len(r) =< MaxEntries /\ Len(r) >= 1
  <2>1. Len(m) \in Nat /\ Len(r) \in Nat
    BY <1>3, <1>7
  <2> QED
    BY <2>1, <1>1, <1>5, <1>7
<1>8. WellFormed(r)
  <2>1. Len(r) =< MaxEntries
    BY <1>7a
  <2>2. ASSUME NEW i \in 1 .. Len(r), NEW j \in 1 .. Len(r), r[i] = r[j] PROVE i = j
    <3>1. Len(m) - Len(r) + i \in 1 .. Len(m) /\ Len(m) - Len(r) + j \in 1 .. Len(m)
      BY <1>7a
    <3>2. m[Len(m) - Len(r) + i] = m[Len(m) - Len(r) + j]
      BY <1>7, <2>2
    <3>3. Len(m) - Len(r) + i = Len(m) - Len(r) + j
      BY <1>3, <3>1, <3>2 DEF Distinct
    <3> QED
      BY <1>7a, <3>3
  <2> QED
    BY <2>1, <2>2 DEF WellFormed
<1>9. Len(r) >= 1 /\ r[Len(r)] = s
  BY <1>3, <1>7, <1>7a
<1>10. Len(r) >= Len(q)
  BY <1>1, <1>2, <1>5, <1>7
<1>11. Range(r) \subseteq Range(m)
  <2> SUFFICES ASSUME NEW x \in Range(r) PROVE x \in Range(m)
    OBVIOUS
  <2>1. PICK i \in 1 .. Len(r) : r[i] = x
    BY <1>7, RangeOfSeq
  <2>2. Len(m) - Len(r) + i \in 1 .. Len(m)
    BY <1>7a
  <2>3. m[Len(m) - Len(r) + i] = x
    BY <1>7, <2>1
  <2> QED
    BY <1>3, <2>2, <2>3, RangeOfSeq
<1>12. Range(q) \subseteq Range(r) \/ Len(r) = MaxEntries
  <2>1. CASE Len(m) > MaxEntries
    BY <1>7, <2>1
  <2>2. CASE ~(Len(m) > MaxEntries)
    <3>1. Capped(m) = m
      BY <2>2 DEF Capped
    <3> QED
      BY <1>3, <1>6, <3>1
  <2> QED
    BY <2>1, <2>2
<1> QED
  BY <1>3, <1>7, <1>8, <1>9, <1>10, <1>11, <1>12 DEF r

\* appendStatement on a slice and on its end agree on the end.
LEMMA EndsWithAppend ==
  ASSUME NEW S, NEW q \in Seq(S), NEW p \in Seq(S), NEW s \in S,
         WellFormed(q), WellFormed(p), EndsWith(q, p)
  PROVE  EndsWith(AppendStatement(q, s), AppendStatement(p, s))
<1> DEFINE mq == Append(Without(q, s), s)
           mp == Append(Without(p, s), s)
<1>1. MaxEntries \in Nat \ {0}
  BY HistoryAssumptions
<1>2. /\ Distinct(q) /\ Distinct(p)
      /\ Len(q) \in Nat /\ Len(p) \in Nat
      /\ Len(q) =< MaxEntries /\ Len(p) =< MaxEntries
  BY DEF WellFormed, Distinct
<1>3. /\ Len(p) =< Len(q)
      /\ \A i \in 1 .. Len(p) : p[i] = q[Len(q) - Len(p) + i]
  BY DEF EndsWith
<1>4. /\ mq \in Seq(S) /\ mp \in Seq(S)
      /\ Len(mq) = IF s \in Range(q) THEN Len(q) ELSE Len(q) + 1
      /\ Len(mp) = IF s \in Range(p) THEN Len(p) ELSE Len(p) + 1
      /\ mq[Len(mq)] = s /\ mp[Len(mp)] = s
  BY <1>2, MovedToEnd
<1>5. s \in Range(p) => s \in Range(q)
  <2> SUFFICES ASSUME NEW i \in 1 .. Len(p), p[i] = s PROVE s \in Range(q)
    BY RangeOfSeq
  <2>1. Len(q) - Len(p) + i \in 1 .. Len(q)
    BY <1>2, <1>3
  <2> QED
    BY <1>3, <2>1, RangeOfSeq
<1>6. EndsWith(mq, mp)
  <2>1. CASE s \notin Range(q)
    <3>1. mq = Append(q, s) /\ mp = Append(p, s)
      BY <2>1, <1>5, WithoutStranger
    <3>2. /\ Len(mq) = Len(q) + 1 /\ Len(mp) = Len(p) + 1
          /\ \A i \in 1 .. Len(q) : mq[i] = q[i]
          /\ \A i \in 1 .. Len(p) : mp[i] = p[i]
      BY <3>1
    <3> HIDE DEF mq, mp
    <3>3. Len(mp) =< Len(mq)
      BY <3>2, <1>2, <1>3
    <3>4. ASSUME NEW i \in 1 .. Len(mp) PROVE mp[i] = mq[Len(mq) - Len(mp) + i]
      <4>1. CASE i = Len(mp)
        <5>1. Len(mq) - Len(mp) + i = Len(mq)
          BY <4>1, <3>2, <1>2
        <5> QED
          BY <4>1, <5>1, <1>4
      <4>2. CASE i # Len(mp)
        <5>1. i \in 1 .. Len(p) /\ Len(mq) - Len(mp) + i = Len(q) - Len(p) + i
          BY <4>2, <3>2, <1>2
        <5>2. Len(q) - Len(p) + i \in 1 .. Len(q)
          BY <5>1, <1>2, <1>3
        <5> QED
          BY <5>1, <5>2, <3>2, <1>3
      <4> QED
        BY <4>1, <4>2
    <3> QED
      BY <3>3, <3>4 DEF EndsWith
  <2>2. CASE s \in Range(p)
    <3>1. PICK i \in 1 .. Len(p) : p[i] = s
      BY <2>2, RangeOfSeq
    <3> DEFINE k == Len(q) - Len(p) + i
    <3>2. k \in 1 .. Len(q) /\ q[k] = s
      BY <3>1, <1>2, <1>3
    <3> HIDE DEF k
    <3>3a. /\ Len(mq) = Len(q)
           /\ \A j \in 1 .. Len(q) - 1 : mq[j] = IF j < k THEN q[j] ELSE q[j + 1]
      BY <3>2, <1>2, MovedShape
    <3>3b. /\ Len(mp) = Len(p)
           /\ \A j \in 1 .. Len(p) - 1 : mp[j] = IF j < i THEN p[j] ELSE p[j + 1]
      BY <3>1, <1>2, MovedShape
    <3>3. /\ Len(mq) = Len(q) /\ Len(mp) = Len(p)
          /\ \A j \in 1 .. Len(q) - 1 : mq[j] = IF j < k THEN q[j] ELSE q[j + 1]
          /\ \A j \in 1 .. Len(p) - 1 : mp[j] = IF j < i THEN p[j] ELSE p[j + 1]
      BY <3>3a, <3>3b
    <3> HIDE DEF mq, mp
    <3>4. ASSUME NEW j \in 1 .. Len(mp) PROVE mp[j] = mq[Len(mq) - Len(mp) + j]
      <4>1. CASE j = Len(mp)
        <5>1. Len(mq) - Len(mp) + j = Len(mq)
          BY <4>1, <3>3, <1>2
        <5> QED
          BY <4>1, <5>1, <1>4
      <4>2. CASE j # Len(mp)
        <5>1. j \in 1 .. Len(p) - 1
          BY <4>2, <3>3, <1>2
        <5>2. /\ Len(q) - Len(p) + j \in 1 .. Len(q) - 1
              /\ Len(q) - Len(p) + j < k <=> j < i
              /\ (Len(q) - Len(p) + j) + 1 = Len(q) - Len(p) + (j + 1)
          BY <5>1, <1>2, <1>3 DEF k
        <5>3. p[j] = q[Len(q) - Len(p) + j] /\ p[j + 1] = q[Len(q) - Len(p) + (j + 1)]
          BY <5>1, <1>2, <1>3
        <5> QED
          BY <5>1, <5>2, <5>3, <3>3
      <4> QED
        BY <4>1, <4>2
    <3> QED
      BY <3>3, <3>4, <1>3 DEF EndsWith
  <2>3. CASE s \in Range(q) /\ s \notin Range(p)
    <3>1. PICK k \in 1 .. Len(q) : q[k] = s
      BY <2>3, RangeOfSeq
    <3>2. k =< Len(q) - Len(p)
      <4> SUFFICES ASSUME k > Len(q) - Len(p) PROVE FALSE
        BY <1>2
      <4>1. k - (Len(q) - Len(p)) \in 1 .. Len(p)
        BY <1>2, <1>3
      <4>2. p[k - (Len(q) - Len(p))] = q[k]
        BY <4>1, <1>2, <1>3
      <4> QED
        BY <4>1, <4>2, <3>1, <2>3, RangeOfSeq
    <3>3. /\ Len(mq) = Len(q)
          /\ \A j \in 1 .. Len(q) - 1 : mq[j] = IF j < k THEN q[j] ELSE q[j + 1]
      BY <3>1, <1>2, MovedShape
    <3>4. /\ Len(mp) = Len(p) + 1
          /\ \A j \in 1 .. Len(p) : mp[j] = p[j]
      BY <2>3, WithoutStranger
    <3> HIDE DEF mq, mp
    <3>5. Len(mp) =< Len(mq)
      BY <3>1, <3>2, <3>3, <3>4, <1>2
    <3>6. ASSUME NEW j \in 1 .. Len(mp) PROVE mp[j] = mq[Len(mq) - Len(mp) + j]
      <4>1. CASE j = Len(mp)
        <5>1. Len(mq) - Len(mp) + j = Len(mq)
          BY <4>1, <3>3, <3>4, <1>2
        <5> QED
          BY <4>1, <5>1, <1>4
      <4>2. CASE j # Len(mp)
        <5>1. j \in 1 .. Len(p)
          BY <4>2, <3>4, <1>2
        <5> DEFINE n == Len(q) - (Len(p) + 1) + j
        <5>2. /\ n \in 1 .. Len(q) - 1
              /\ ~(n < k)
              /\ n + 1 = Len(q) - Len(p) + j
          BY <5>1, <3>1, <3>2, <1>2, <1>3
        <5>3. n = Len(mq) - Len(mp) + j
          BY <3>3, <3>4
        <5> HIDE DEF n
        <5> QED
          BY <5>1, <5>2, <5>3, <3>3, <3>4, <1>3
      <4> QED
        BY <4>1, <4>2
    <3> QED
      BY <3>5, <3>6 DEF EndsWith
  <2> QED
    BY <2>1, <2>2, <2>3, <1>5
<1>7. /\ AppendStatement(q, s) = Capped(mq)
      /\ AppendStatement(p, s) = Capped(mp)
  BY DEF AppendStatement
<1>8. /\ Len(mq) >= 1 /\ Len(mq) =< MaxEntries + 1
      /\ Len(mp) >= 1 /\ Len(mp) =< MaxEntries + 1
      /\ Len(mq) \in Nat /\ Len(mp) \in Nat
  <2>1. /\ s \in Range(q) => Len(q) >= 1
        /\ s \in Range(p) => Len(p) >= 1
    BY RangeOfSeq
  <2> HIDE DEF mq, mp
  <2>2. Len(mq) \in Nat /\ Len(mp) \in Nat
    BY <1>4
  <2> QED
    BY <2>1, <2>2, <1>1, <1>2, <1>4
<1> HIDE DEF mq, mp
<1> DEFINE cq == Capped(mq)
           cp == Capped(mp)
<1>9. /\ cq \in Seq(S) /\ cp \in Seq(S)
      /\ Len(cq) = IF Len(mq) > MaxEntries THEN MaxEntries ELSE Len(mq)
      /\ Len(cp) = IF Len(mp) > MaxEntries THEN MaxEntries ELSE Len(mp)
      /\ \A i \in 1 .. Len(cq) : cq[i] = mq[Len(mq) - Len(cq) + i]
      /\ \A i \in 1 .. Len(cp) : cp[i] = mp[Len(mp) - Len(cp) + i]
  BY <1>4, <1>8, CappedFacts
<1> HIDE DEF cq, cp
<1>10. /\ Len(cq) \in Nat /\ Len(cp) \in Nat
       /\ Len(mp) =< Len(mq) /\ Len(cp) =< Len(cq)
       /\ Len(cq) =< Len(mq) /\ Len(cp) =< Len(mp)
  <2>1. Len(mp) =< Len(mq) /\ Len(cq) \in Nat /\ Len(cp) \in Nat
    BY <1>6, <1>9 DEF EndsWith
  <2> QED
    BY <2>1, <1>1, <1>8, <1>9
<1>11. ASSUME NEW i \in 1 .. Len(cp) PROVE cp[i] = cq[Len(cq) - Len(cp) + i]
  <2>1. /\ Len(cq) - Len(cp) + i \in 1 .. Len(cq)
        /\ Len(mp) - Len(cp) + i \in 1 .. Len(mp)
        /\ Len(mq) - Len(cq) + (Len(cq) - Len(cp) + i)
             = Len(mq) - Len(mp) + (Len(mp) - Len(cp) + i)
    BY <1>8, <1>10
  <2>2. cp[i] = mp[Len(mp) - Len(cp) + i]
    BY <1>9
  <2>3. mp[Len(mp) - Len(cp) + i] = mq[Len(mq) - Len(mp) + (Len(mp) - Len(cp) + i)]
    BY <2>1, <1>6 DEF EndsWith
  <2>4. cq[Len(cq) - Len(cp) + i] = mq[Len(mq) - Len(cq) + (Len(cq) - Len(cp) + i)]
    BY <2>1, <1>9
  <2> QED
    BY <2>1, <2>2, <2>3, <2>4
<1> QED
  BY <1>7, <1>10, <1>11 DEF EndsWith, cq, cp

(************************ what a handle keeps by itself *******************)

\* Only a handle that opened the file has anything to save.
Backed(h) ==
  /\ pc[h] \in {"closed", "loading"} => ~backed[h]
  /\ pc[h] \in {"saving"} \cup Critical => backed[h]
  /\ ~backed[h] => pending[h] = <<>>

Normalized(h) == WellFormed(statements[h]) /\ WellFormed(pending[h]) /\ WellFormed(merged[h])

LocalInv ==
  /\ HTypeOK
  /\ \A h \in Handles : Backed(h) /\ Normalized(h) /\ (pc[h] \in Critical => holder = h)
  /\ FileWellFormed
  /\ RecallEndsWithPending

LEMMA EmptySlice ==
  /\ WellFormed(<<>>)
  /\ \A S : <<>> \in Seq(S)
  /\ \A S : \A q \in Seq(S) : EndsWith(q, <<>>)
  /\ Range(<<>>) = {}
BY HistoryAssumptions DEF WellFormed, EndsWith, Range

LEMMA LocalInit == HInit => LocalInv
<1> SUFFICES ASSUME HInit PROVE LocalInv
  OBVIOUS
<1>1. HTypeOK
  BY EmptySlice, HistoryAssumptions DEF HInit, HTypeOK, Steps
<1>2. ASSUME NEW h \in Handles
      PROVE  Backed(h) /\ Normalized(h) /\ (pc[h] \in Critical => holder = h)
  BY EmptySlice DEF HInit, Backed, Normalized, Critical
<1>3. FileWellFormed /\ RecallEndsWithPending
  BY EmptySlice DEF HInit, FileWellFormed, RecallEndsWithPending
<1> QED
  BY <1>1, <1>2, <1>3 DEF LocalInv

LEMMA LocalStep == LocalInv /\ [HNext]_hvars => LocalInv'
<1> SUFFICES ASSUME LocalInv, [HNext]_hvars PROVE LocalInv'
  OBVIOUS
<1> USE DEF LocalInv
<1> DEFINE Kept(h) == Backed(h) /\ Normalized(h) /\ (pc[h] \in Critical => holder = h)
<1>1. CASE UNCHANGED hvars
  BY <1>1 DEF hvars, memoryVars, mergeVars, HTypeOK, Backed, Normalized, FileWellFormed,
     RecallEndsWithPending
<1>2. ASSUME NEW h \in Handles, Open(h) PROVE LocalInv'
  <2>1. HTypeOK'
    BY <1>2, EmptySlice DEF Open, Goto, BeginMerge, memoryVars, HTypeOK, Steps
  <2>2. \A g \in Handles : Kept(g)'
    BY <1>2, EmptySlice DEF Open, Goto, BeginMerge, memoryVars, HTypeOK, Backed, Normalized, Critical
  <2>3. FileWellFormed' /\ RecallEndsWithPending'
    BY <1>2 DEF Open, memoryVars, FileWellFormed, RecallEndsWithPending
  <2> QED
    BY <2>1, <2>2, <2>3
<1>3. ASSUME NEW h \in Handles, OpenFails(h) PROVE LocalInv'
  <2>1. HTypeOK'
    BY <1>3 DEF OpenFails, Goto, memoryVars, mergeVars, HTypeOK, Steps
  <2>2. \A g \in Handles : Kept(g)'
    BY <1>3 DEF OpenFails, Goto, memoryVars, mergeVars, HTypeOK, Backed, Normalized, Critical
  <2>3. FileWellFormed' /\ RecallEndsWithPending'
    BY <1>3 DEF OpenFails, memoryVars, FileWellFormed, RecallEndsWithPending
  <2> QED
    BY <2>1, <2>2, <2>3
<1>4. ASSUME NEW h \in Handles, MergeOne(h) PROVE LocalInv'
  <2> DEFINE r == AppendStatement(merged[h], Head(todo[h]))
  <2>1. merged[h] \in Seq(Statements) /\ Head(todo[h]) \in Statements /\ Tail(todo[h]) \in Seq(Statements)
    BY <1>4 DEF MergeOne, HTypeOK
  <2>2. r \in Seq(Statements) /\ WellFormed(r)
    BY <2>1, AppendStatementFacts DEF Normalized
  <2> HIDE DEF r
  <2>3. merged' = [merged EXCEPT ![h] = r]
    BY <1>4 DEF MergeOne, r
  <2>4. HTypeOK'
    BY <1>4, <2>1, <2>2, <2>3 DEF MergeOne, memoryVars, HTypeOK
  <2>5. \A g \in Handles : Kept(g)'
    BY <1>4, <2>2, <2>3 DEF MergeOne, memoryVars, HTypeOK, Backed, Normalized
  <2>6. FileWellFormed' /\ RecallEndsWithPending'
    BY <1>4 DEF MergeOne, memoryVars, FileWellFormed, RecallEndsWithPending
  <2> QED
    BY <2>4, <2>5, <2>6
<1>5. ASSUME NEW h \in Handles, Opened(h) PROVE LocalInv'
  <2>1. HTypeOK'
    BY <1>5, EmptySlice DEF Opened, Goto, BeginMerge, HTypeOK, Steps
  <2>2. \A g \in Handles : Kept(g)'
    BY <1>5, EmptySlice DEF Opened, Goto, BeginMerge, HTypeOK, Backed, Normalized, Critical
  <2>3. FileWellFormed'
    BY <1>5 DEF Opened, FileWellFormed
  <2>4. pending[h] = <<>>
    BY <1>5 DEF Opened, Goto, Backed
  <2>5. RecallEndsWithPending'
    BY <1>5, <2>4, EmptySlice DEF Opened, RecallEndsWithPending, HTypeOK
  <2> QED
    BY <2>1, <2>2, <2>3, <2>5
<1>6. ASSUME NEW h \in Handles, Close(h) \/ Die(h) PROVE LocalInv'
  <2>0. /\ pc' = [pc EXCEPT ![h] = "closed"]
        /\ Forgotten(h)
        /\ holder' = holder \/ (holder = h /\ holder' = NoHandle)
        /\ UNCHANGED file
    BY <1>6 DEF Close, Die, Goto
  <2>1. HTypeOK'
    BY <2>0, EmptySlice DEF Forgotten, BeginMerge, HTypeOK, Steps
  <2>2. \A g \in Handles : Kept(g)'
    BY <2>0, EmptySlice DEF Forgotten, BeginMerge, HTypeOK, Backed, Normalized, Critical
  <2>3. FileWellFormed'
    BY <2>0 DEF FileWellFormed
  <2>4. RecallEndsWithPending'
    BY <2>0, EmptySlice DEF Forgotten, RecallEndsWithPending, HTypeOK
  <2> QED
    BY <2>1, <2>2, <2>3, <2>4
<1>7. ASSUME NEW h \in Handles, NEW s \in Statements, Remember(h, s) PROVE LocalInv'
  <2> DEFINE r == AppendStatement(statements[h], s)
             o == AppendStatement(pending[h], s)
  <2>1. /\ statements[h] \in Seq(Statements) /\ pending[h] \in Seq(Statements)
        /\ WellFormed(statements[h]) /\ WellFormed(pending[h])
        /\ EndsWith(statements[h], pending[h])
    BY DEF HTypeOK, Normalized, RecallEndsWithPending
  <2>2. /\ r \in Seq(Statements) /\ WellFormed(r)
        /\ o \in Seq(Statements) /\ WellFormed(o)
    BY <2>1, AppendStatementFacts
  <2>3. EndsWith(r, o)
    BY <2>1, EndsWithAppend
  <2> HIDE DEF r, o
  <2>4. /\ statements' = [statements EXCEPT ![h] = r]
        /\ pending' = IF backed[h] THEN [pending EXCEPT ![h] = o] ELSE pending
    BY <1>7 DEF Remember, Owed, r, o
  <2>5. HTypeOK'
    BY <1>7, <2>2, <2>4 DEF Remember, Goto, mergeVars, HTypeOK, Steps
  <2>6. \A g \in Handles : Kept(g)'
    BY <1>7, <2>2, <2>4 DEF Remember, Goto, mergeVars, HTypeOK, Backed, Normalized, Critical
  <2>7. FileWellFormed'
    BY <1>7 DEF Remember, FileWellFormed
  <2>8. ~backed[h] => EndsWith(r, pending[h])
    BY <2>2, EmptySlice DEF Backed
  <2>9. RecallEndsWithPending'
    BY <2>3, <2>4, <2>8 DEF RecallEndsWithPending, HTypeOK
  <2> QED
    BY <2>5, <2>6, <2>7, <2>9
<1>8. ASSUME NEW h \in Handles, Acquire(h) PROVE LocalInv'
  <2>1. HTypeOK'
    BY <1>8 DEF Acquire, Goto, memoryVars, mergeVars, HTypeOK, Steps
  <2>2. \A g \in Handles : Kept(g)'
    BY <1>8, HistoryAssumptions
    DEF Acquire, LockFree, Goto, memoryVars, mergeVars, HTypeOK, Backed, Normalized, Critical
  <2>3. FileWellFormed' /\ RecallEndsWithPending'
    BY <1>8 DEF Acquire, memoryVars, FileWellFormed, RecallEndsWithPending
  <2> QED
    BY <2>1, <2>2, <2>3
<1>9. ASSUME NEW h \in Handles, AcquireFails(h) \/ LoadFails(h) \/ ReplaceFails(h) PROVE LocalInv'
  <2>1. HTypeOK'
    BY <1>9 DEF AcquireFails, LoadFails, ReplaceFails, Goto, memoryVars, mergeVars, HTypeOK, Steps
  <2>2. \A g \in Handles : Kept(g)'
    BY <1>9 DEF AcquireFails, LoadFails, ReplaceFails, Goto, memoryVars, mergeVars, HTypeOK, Backed,
       Normalized, Critical
  <2>3. FileWellFormed' /\ RecallEndsWithPending'
    BY <1>9 DEF AcquireFails, LoadFails, ReplaceFails, memoryVars, FileWellFormed,
       RecallEndsWithPending
  <2> QED
    BY <2>1, <2>2, <2>3
<1>10. ASSUME NEW h \in Handles, Load(h) PROVE LocalInv'
  <2>0. file \o pending[h] \in Seq(Statements)
    BY DEF HTypeOK
  <2>1. HTypeOK'
    BY <1>10, <2>0, EmptySlice DEF Load, Goto, BeginMerge, memoryVars, HTypeOK, Steps
  <2>2. \A g \in Handles : Kept(g)'
    BY <1>10, EmptySlice DEF Load, Goto, BeginMerge, memoryVars, HTypeOK, Backed, Normalized, Critical
  <2>3. FileWellFormed' /\ RecallEndsWithPending'
    BY <1>10 DEF Load, memoryVars, FileWellFormed, RecallEndsWithPending
  <2> QED
    BY <2>1, <2>2, <2>3
<1>11. ASSUME NEW h \in Handles, NEW ok \in BOOLEAN, WriteTemporary(h, ok) PROVE LocalInv'
  <2>1. HTypeOK'
    BY <1>11 DEF WriteTemporary, Goto, memoryVars, mergeVars, HTypeOK, Steps
  <2>2. \A g \in Handles : Kept(g)'
    BY <1>11 DEF WriteTemporary, Goto, memoryVars, mergeVars, HTypeOK, Backed, Normalized, Critical
  <2>3. FileWellFormed' /\ RecallEndsWithPending'
    BY <1>11 DEF WriteTemporary, memoryVars, FileWellFormed, RecallEndsWithPending
  <2> QED
    BY <2>1, <2>2, <2>3
<1>12. ASSUME NEW h \in Handles, Replace(h) PROVE LocalInv'
  <2>1. HTypeOK'
    BY <1>12 DEF Replace, Goto, memoryVars, mergeVars, HTypeOK, Steps
  <2>2. \A g \in Handles : Kept(g)'
    BY <1>12 DEF Replace, Goto, memoryVars, mergeVars, HTypeOK, Backed, Normalized, Critical
  <2>3. FileWellFormed' /\ RecallEndsWithPending'
    BY <1>12 DEF Replace, memoryVars, FileWellFormed, RecallEndsWithPending, Normalized
  <2> QED
    BY <2>1, <2>2, <2>3
<1>13. ASSUME NEW h \in Handles, NEW ok \in BOOLEAN, Release(h, ok) PROVE LocalInv'
  <2>1. HTypeOK'
    BY <1>13, EmptySlice DEF Release, BeginMerge, HTypeOK, Steps
  <2>2. \A g \in Handles : g # h => ~(pc[g] \in Critical)
    BY <1>13 DEF Release, Critical
  <2>3. \A g \in Handles : Kept(g)'
    BY <1>13, <2>2, EmptySlice DEF Release, BeginMerge, HTypeOK, Backed, Normalized, Critical
  <2>4. FileWellFormed'
    BY <1>13 DEF Release, FileWellFormed
  <2>5. RecallEndsWithPending'
    BY <1>13, EmptySlice DEF Release, RecallEndsWithPending, HTypeOK
  <2> QED
    BY <2>1, <2>3, <2>4, <2>5
<1>14. ASSUME NEW h \in Handles, Finalize(h) PROVE LocalInv'
  <2>1. HTypeOK'
    BY <1>14 DEF Finalize, memoryVars, mergeVars, HTypeOK
  <2>2. \A g \in Handles : Kept(g)'
    BY <1>14 DEF Finalize, memoryVars, mergeVars, HTypeOK, Backed, Normalized, Critical
  <2>3. FileWellFormed' /\ RecallEndsWithPending'
    BY <1>14 DEF Finalize, memoryVars, FileWellFormed, RecallEndsWithPending
  <2> QED
    BY <2>1, <2>2, <2>3
<1> QED
  BY <1>1, <1>2, <1>3, <1>4, <1>5, <1>6, <1>7, <1>8, <1>9, <1>10, <1>11, <1>12, <1>13, <1>14
  DEF HNext, SaveStep

\* What a handle and the file satisfy by themselves: types, shapes, and pending as the end
\* of recall, in every step of Append, Save and the opening of a History.
THEOREM HistoryLocalInvariant == HSpec => []LocalInv
BY LocalInit, LocalStep, PTL DEF HSpec

\* Every variable of HistoryStore keeps its type (internal/history/history.go).
THEOREM HistoryTypeCorrect == HSpec => []HTypeOK
<1>1. LocalInv => HTypeOK
  BY DEF LocalInv
<1> QED
  BY <1>1, HistoryLocalInvariant, PTL

\* The file is bounded and free of duplicates as soon as Save has written it.
THEOREM FilesAreNormalized == HSpec => []FileWellFormed
<1>1. LocalInv => FileWellFormed
  BY DEF LocalInv
<1> QED
  BY <1>1, HistoryLocalInvariant, PTL

\* What is owed to the file is the end of what is recalled, through failed Saves.
THEOREM PendingIsRecalled == HSpec => []RecallEndsWithPending
<1>1. LocalInv => RecallEndsWithPending
  BY DEF LocalInv
<1> QED
  BY <1>1, HistoryLocalInvariant, PTL

(**************************** a full file *********************************)

\* A slice without duplicates has as many Statements as entries.
LEMMA DistinctCardinality ==
  ASSUME NEW S, NEW q \in Seq(S), WellFormed(q)
  PROVE  IsFiniteSet(Range(q)) /\ Cardinality(Range(q)) = Len(q)
<1>1. q \in [1 .. Len(q) -> Range(q)]
  BY RangeOfSeq
<1>2. q \in Bijection(1 .. Len(q), Range(q))
  BY <1>1, RangeOfSeq DEF WellFormed, Bijection, Injection, Surjection, IsInjective
<1>3. IsFiniteSet(1 .. Len(q)) /\ Cardinality(1 .. Len(q)) = Len(q)
  <2> DEFINE n == Len(q)
  <2>1. n \in Nat
    OBVIOUS
  <2> HIDE DEF n
  <2>2. IsFiniteSet(1 .. n) /\ Cardinality(1 .. n) = IF 1 > n THEN 0 ELSE n - 1 + 1
    BY <2>1, FS_Interval
  <2>3. IsFiniteSet(1 .. n) /\ Cardinality(1 .. n) = n
    BY <2>1, <2>2
  <2> QED
    BY <2>3 DEF n
<1> QED
  BY <1>2, <1>3, FS_Bijection DEF ExistsBijection

LEMMA CapIsFull ==
  ASSUME NEW S, NEW q \in Seq(S), WellFormed(q), Len(q) = MaxEntries
  PROVE  Full(q)
BY DistinctCardinality, HistoryAssumptions DEF Full

LEMMA FullStaysFull ==
  ASSUME NEW S, NEW f \in Seq(S), NEW g \in Seq(S), WellFormed(g), Full(f),
         Range(f) \subseteq Range(g) \/ Len(g) = MaxEntries
  PROVE  Full(g)
<1>1. CASE Len(g) = MaxEntries
  BY <1>1, CapIsFull
<1>2. CASE Range(f) \subseteq Range(g)
  <2>1. IsFiniteSet(Range(g))
    BY DistinctCardinality
  <2>2. /\ Cardinality(Range(f)) =< Cardinality(Range(g))
        /\ IsFiniteSet(Range(f))
    BY <1>2, <2>1, FS_Subset
  <2>3. Cardinality(Range(f)) \in Nat /\ Cardinality(Range(g)) \in Nat /\ MaxEntries \in Nat
    BY <2>1, <2>2, FS_CardinalityType, HistoryAssumptions
  <2> QED
    BY <2>2, <2>3 DEF Full
<1> QED
  BY <1>1, <1>2

LEMMA RangeOfConcat ==
  ASSUME NEW S, NEW p \in Seq(S), NEW q \in Seq(S)
  PROVE  /\ p \o q \in Seq(S)
         /\ Len(p \o q) = Len(p) + Len(q)
         /\ \A i \in 1 .. Len(p) : (p \o q)[i] = p[i]
         /\ \A i \in 1 .. Len(q) : (p \o q)[Len(p) + i] = q[i]
OBVIOUS

LEMMA HeadAndTail ==
  ASSUME NEW S, NEW q \in Seq(S), q # <<>>
  PROVE  /\ Head(q) = q[1] /\ Head(q) \in S
         /\ Tail(q) \in Seq(S)
         /\ Len(q) \in Nat \ {0}
         /\ Len(Tail(q)) = Len(q) - 1
         /\ \A i \in 1 .. Len(q) - 1 : Tail(q)[i] = q[i + 1]
         /\ Range(q) = Range(Tail(q)) \cup {Head(q)}
<1>1. /\ Head(q) = q[1] /\ Head(q) \in S
      /\ Tail(q) \in Seq(S)
      /\ Len(q) \in Nat \ {0}
      /\ Len(Tail(q)) = Len(q) - 1
      /\ \A i \in 1 .. Len(q) - 1 : Tail(q)[i] = q[i + 1]
  OBVIOUS
<1>2. \A x : x \in Range(q) <=> \E i \in 1 .. Len(q) : q[i] = x
  BY RangeOfSeq
<1>3. \A x : x \in Range(Tail(q)) <=> \E i \in 1 .. Len(Tail(q)) : Tail(q)[i] = x
  <2> DEFINE t == Tail(q)
  <2>1. t \in Seq(S)
    BY <1>1
  <2> HIDE DEF t
  <2>2. \A x : x \in Range(t) <=> \E i \in 1 .. Len(t) : t[i] = x
    BY <2>1, RangeOfSeq
  <2> QED
    BY <2>2 DEF t
<1>4. ASSUME NEW i \in 1 .. Len(q) PROVE q[i] \in Range(Tail(q)) \cup {Head(q)}
  <2>1. CASE i = 1
    BY <2>1, <1>1
  <2>2. CASE i # 1
    <3>1. i - 1 \in 1 .. Len(q) - 1 /\ (i - 1) + 1 = i
      BY <2>2, <1>1
    <3>2. Tail(q)[i - 1] = q[i]
      BY <3>1, <1>1
    <3> QED
      BY <3>1, <3>2, <1>1, <1>3
  <2> QED
    BY <2>1, <2>2
<1>5. ASSUME NEW i \in 1 .. Len(Tail(q)) PROVE Tail(q)[i] \in Range(q)
  <2>1. i + 1 \in 1 .. Len(q) /\ Tail(q)[i] = q[i + 1]
    BY <1>1
  <2> QED
    BY <2>1, <1>2
<1> QED
  BY <1>1, <1>2, <1>3, <1>4, <1>5

(***************************** what Save merges ***************************)

\* A History being opened has or will have what was in the file, which is still there.
LoadingInv(h) ==
  pc[h] = "loading" =>
    Range(merged[h]) \cup Range(todo[h]) \subseteq Range(file) \/ Full(file)

\* How much of file \o pending has been appended.
Done(h) == Len(file) + Len(pending[h]) - Len(todo[h])

Remaining(h) ==
  LET source == file \o pending[h] IN
    /\ Len(todo[h]) =< Len(source)
    /\ \A i \in 1 .. Len(todo[h]) : todo[h][i] = source[Done(h) + i]

Collected(h) ==
  \/ Len(merged[h]) = MaxEntries
  \/ \A i \in 1 .. Done(h) : (file \o pending[h])[i] \in Range(merged[h])

MergingInv(h) ==
  pc[h] = "merging" =>
    /\ Remaining(h)
    /\ Collected(h)
    /\ Done(h) >= Len(file) =>
         EndsWith(merged[h], SubSeq(pending[h], 1, Done(h) - Len(file)))

WrittenInv(h) ==
  pc[h] = "written" =>
    /\ EndsWith(merged[h], pending[h])
    /\ Range(file) \subseteq Range(merged[h]) \/ Len(merged[h]) = MaxEntries

ReplacedInv(h) == pc[h] = "replaced" => EndsWith(file, pending[h])

Kept(h) ==
  backed[h] =>
    Range(statements[h]) \subseteq Range(file) \cup Range(pending[h]) \/ Full(file)

HandleInv(h) ==
  LoadingInv(h) /\ MergingInv(h) /\ WrittenInv(h) /\ ReplacedInv(h) /\ Kept(h)

SaveInv == LocalInv /\ \A h \in Handles : HandleInv(h)

LEMMA SaveInit == HInit => SaveInv
BY LocalInit
DEF HInit, SaveInv, HandleInv, LoadingInv, MergingInv, WrittenInv, ReplacedInv, Kept

\* A handle that does nothing while the file stays the same keeps its invariant.
LEMMA Untouched ==
  ASSUME NEW g \in Handles, HandleInv(g), UNCHANGED file,
         pc'[g] = pc[g], merged'[g] = merged[g], todo'[g] = todo[g],
         backed'[g] = backed[g], statements'[g] = statements[g], pending'[g] = pending[g]
  PROVE  HandleInv(g)'
<1>1. Done(g)' = Done(g)
  BY DEF Done
<1>2. Remaining(g)' <=> Remaining(g)
  BY <1>1 DEF Remaining
<1>3. Collected(g)' <=> Collected(g)
  BY <1>1 DEF Collected
<1>4. MergingInv(g)'
  BY <1>1, <1>2, <1>3 DEF HandleInv, MergingInv
<1> QED
  BY <1>4 DEF HandleInv, LoadingInv, WrittenInv, ReplacedInv, Kept

\* A handle that went to a step no invariant speaks of keeps it too.
LEMMA Elsewhere ==
  ASSUME NEW g \in Handles, HandleInv(g), UNCHANGED file,
         pc'[g] \notin {"loading", "merging", "written", "replaced"},
         backed'[g] = backed[g], statements'[g] = statements[g], pending'[g] = pending[g]
  PROVE  HandleInv(g)'
BY DEF HandleInv, LoadingInv, MergingInv, WrittenInv, ReplacedInv, Kept

LEMMA AppendFacts ==
  ASSUME NEW S, NEW q \in Seq(S), NEW s \in S
  PROVE  /\ Append(q, s) \in Seq(S)
         /\ Len(Append(q, s)) = Len(q) + 1
         /\ \A i \in 1 .. Len(q) : Append(q, s)[i] = q[i]
         /\ Append(q, s)[Len(q) + 1] = s
OBVIOUS

\* One turn of the loop in Save.
LEMMA MergeTurn ==
  ASSUME NEW h \in Handles, LocalInv, HandleInv(h), MergeOne(h), pc[h] = "merging"
  PROVE  MergingInv(h)'
<1> DEFINE source == file \o pending[h]
           s == Head(todo[h])
           m == merged[h]
           r == AppendStatement(m, s)
           t == Tail(todo[h])
           d == Done(h)
<1>1. /\ file \in Seq(Statements) /\ pending[h] \in Seq(Statements)
      /\ todo[h] \in Seq(Statements) /\ m \in Seq(Statements)
      /\ WellFormed(m) /\ WellFormed(pending[h])
  BY DEF LocalInv, HTypeOK, Normalized
<1>2. Remaining(h) /\ Collected(h)
  BY DEF HandleInv, MergingInv
<1>3. /\ merged'[h] = r /\ todo'[h] = t /\ UNCHANGED <<file, pending, pc>>
      /\ todo[h] # <<>>
  BY DEF MergeOne, memoryVars, LocalInv, HTypeOK
<1>4. /\ source \in Seq(Statements)
      /\ Len(source) = Len(file) + Len(pending[h])
      /\ \A i \in 1 .. Len(file) : source[i] = file[i]
      /\ \A i \in 1 .. Len(pending[h]) : source[Len(file) + i] = pending[h][i]
  BY <1>1, RangeOfConcat
<1>5. /\ s = todo[h][1] /\ s \in Statements
      /\ t \in Seq(Statements)
      /\ Len(todo[h]) \in Nat \ {0} /\ Len(t) = Len(todo[h]) - 1
      /\ \A i \in 1 .. Len(todo[h]) - 1 : t[i] = todo[h][i + 1]
  BY <1>1, <1>3, HeadAndTail
<1> HIDE DEF s, m
<1>6. /\ r \in Seq(Statements) /\ WellFormed(r)
      /\ Len(r) >= 1 /\ r[Len(r)] = s /\ Len(r) >= Len(m)
      /\ Range(m) \subseteq Range(r) \/ Len(r) = MaxEntries
  <2> HIDE DEF source, t, d
  <2>1. m \in Seq(Statements) /\ WellFormed(m) /\ s \in Statements
    BY <1>1, <1>5
  <2> QED
    BY <2>1, AppendStatementFacts
<1>7. /\ Len(file) \in Nat /\ Len(pending[h]) \in Nat /\ Len(m) \in Nat /\ Len(r) \in Nat
      /\ MaxEntries \in Nat \ {0} /\ Len(r) =< MaxEntries /\ Len(pending[h]) =< MaxEntries
  BY <1>1, <1>6, HistoryAssumptions DEF WellFormed
<1> HIDE DEF m, r, t, source
<1>8. /\ d = Len(source) - Len(todo[h]) /\ d \in Nat /\ d + 1 =< Len(source)
      /\ Done(h)' = d + 1
      /\ source[d + 1] = s
  <2>1. Len(todo[h]) =< Len(source) /\ \A i \in 1 .. Len(todo[h]) : todo[h][i] = source[d + i]
    BY <1>2 DEF Remaining, source
  <2>2. d = Len(source) - Len(todo[h])
    BY <1>4 DEF Done, source
  <2>3. Done(h)' = Len(file) + Len(pending[h]) - Len(t)
    BY <1>3 DEF Done, t
  <2> HIDE DEF d
  <2>4. todo[h][1] = source[d + 1]
    BY <2>1, <1>5
  <2>5. Len(source) \in Nat /\ Len(todo[h]) \in Nat \ {0}
    BY <1>4, <1>5, <1>7
  <2>6. d \in Nat /\ d + 1 =< Len(source)
    BY <2>1, <2>2, <2>5
  <2>7. Done(h)' = d + 1
    BY <2>2, <2>3, <2>5, <1>4, <1>5, <1>7
  <2> QED
    BY <2>2, <2>4, <2>6, <2>7, <1>5
<1> HIDE DEF d
<1>9. Remaining(h)'
  <2>1. \A i \in 1 .. Len(todo[h]) : todo[h][i] = source[d + i]
    BY <1>2 DEF Remaining, d, source
  <2>2. ASSUME NEW i \in 1 .. Len(t) PROVE t[i] = source[d + 1 + i]
    <3>1. i + 1 \in 1 .. Len(todo[h]) /\ t[i] = todo[h][i + 1]
      BY <1>5
    <3>2. i \in Nat /\ d + (i + 1) = d + 1 + i
      BY <1>8
    <3> QED
      BY <3>1, <3>2, <2>1
  <2>3. Len(t) =< Len(source)
    BY <1>5, <1>8
  <2> QED
    BY <1>3, <1>8, <2>2, <2>3 DEF Remaining, source, t
<1>10. Collected(h)'
  <2>1. CASE Len(r) = MaxEntries
    BY <2>1, <1>3 DEF Collected
  <2>2. CASE Len(r) # MaxEntries
    <3>1. Len(m) # MaxEntries
      BY <2>2, <1>6, <1>7
    <3>2. \A i \in 1 .. d : source[i] \in Range(r)
      BY <3>1, <2>2, <1>2, <1>6 DEF Collected, d, source, m
    <3>3. source[d + 1] \in Range(r)
      <4>1. Len(r) \in 1 .. Len(r)
        BY <1>6, <1>7
      <4> QED
        BY <4>1, <1>6, <1>8, RangeOfSeq
    <3>4. \A i \in 1 .. d + 1 : source[i] \in Range(r)
      <4> SUFFICES ASSUME NEW i \in 1 .. d + 1 PROVE source[i] \in Range(r)
        OBVIOUS
      <4>1. i \in 1 .. d \/ i = d + 1
        BY <1>8
      <4> QED
        BY <4>1, <3>2, <3>3
    <3> QED
      BY <3>4, <1>3, <1>8 DEF Collected, source, r, m, s
  <2> QED
    BY <2>1, <2>2
<1>11. ASSUME d + 1 >= Len(file)
       PROVE  EndsWith(r, SubSeq(pending[h], 1, d + 1 - Len(file)))
  <2>1. CASE d + 1 = Len(file)
    <3>1. SubSeq(pending[h], 1, d + 1 - Len(file)) = <<>>
      <4>1. d + 1 - Len(file) = 0
        BY <2>1, <1>7, <1>8
      <4> QED
        BY <4>1, <1>1
    <3> QED
      BY <3>1, <1>6, EmptySlice
  <2>2. CASE d >= Len(file)
    <3> DEFINE n == d - Len(file)
               p == SubSeq(pending[h], 1, n)
               q == SubSeq(pending[h], 1, n + 1)
    <3>1. /\ n \in Nat /\ n + 1 =< Len(pending[h]) /\ n + 1 \in 1 .. Len(pending[h])
          /\ n + 1 = d + 1 - Len(file) /\ Len(file) + (n + 1) = d + 1
      <4>1. d + 1 =< Len(file) + Len(pending[h])
        BY <1>4, <1>8
      <4>2. n \in Nat /\ Len(file) + (n + 1) = d + 1 /\ n + 1 = d + 1 - Len(file)
        BY <2>2, <1>7, <1>8
      <4> HIDE DEF n
      <4>3. n + 1 =< Len(pending[h])
        BY <4>1, <4>2, <1>7
      <4> QED
        BY <4>2, <4>3, <1>7
    <3>2. EndsWith(m, p)
      BY <2>2 DEF HandleInv, MergingInv, d, m
    <3> HIDE DEF n
    <3>3. /\ p \in Seq(Statements) /\ Len(p) = n /\ \A i \in 1 .. n : p[i] = pending[h][i]
      BY <3>1, <1>1
    <3>4. /\ q \in Seq(Statements) /\ Len(q) = n + 1 /\ \A i \in 1 .. n + 1 : q[i] = pending[h][i]
      BY <3>1, <1>1
    <3> HIDE DEF p, q
    <3>5. pending[h][n + 1] = s
      BY <3>1, <1>4, <1>8
    <3>6. WellFormed(p)
      <4>1. Len(p) =< MaxEntries
        BY <3>1, <3>3, <1>7
      <4>2. ASSUME NEW i \in 1 .. Len(p), NEW j \in 1 .. Len(p), p[i] = p[j] PROVE i = j
        <5>1. i \in 1 .. Len(pending[h]) /\ j \in 1 .. Len(pending[h])
          BY <3>1, <3>3, <1>7
        <5>2. pending[h][i] = pending[h][j]
          BY <3>3, <4>2
        <5> QED
          BY <5>1, <5>2, <1>1 DEF WellFormed
      <4> QED
        BY <4>1, <4>2 DEF WellFormed
    <3>7. s \notin Range(p)
      <4> SUFFICES ASSUME NEW i \in 1 .. n, p[i] = s PROVE FALSE
        BY <3>3, RangeOfSeq
      <4>1. pending[h][i] = pending[h][n + 1] /\ i \in 1 .. Len(pending[h])
        BY <3>1, <3>3, <3>5
      <4>2. i = n + 1
        BY <4>1, <3>1, <1>1 DEF WellFormed
      <4> QED
        BY <4>2, <3>1
    <3>8. AppendStatement(p, s) = q
      <4>1. Without(p, s) = p
        BY <3>7, WithoutStranger
      <4>2. Append(p, s) \in Seq(Statements) /\ Len(Append(p, s)) = n + 1
        BY <3>1, <3>3, <1>5
      <4>3. Capped(Append(p, s)) = Append(p, s)
        BY <4>2, <3>1, <1>7 DEF Capped
      <4>4. Append(p, s) = q
        <5>0. /\ \A i \in 1 .. n : Append(p, s)[i] = p[i]
              /\ Append(p, s)[n + 1] = s
          BY <3>3, <1>5, AppendFacts
        <5>1. ASSUME NEW i \in 1 .. n + 1 PROVE Append(p, s)[i] = q[i]
          <6>1. CASE i = n + 1
            BY <6>1, <3>1, <3>4, <3>5, <5>0
          <6>2. CASE i # n + 1
            <7>1. i \in 1 .. n
              BY <6>2, <3>1
            <7> QED
              BY <7>1, <3>3, <3>4, <5>0
          <6> QED
            BY <6>1, <6>2
        <5> DEFINE a == Append(p, s)
        <5>2. a \in Seq(Statements) /\ Len(a) = Len(q) /\ \A i \in 1 .. Len(q) : a[i] = q[i]
          BY <4>2, <3>4, <5>1
        <5> HIDE DEF a
        <5>3. a = q
          BY <5>2, <3>4
        <5> QED
          BY <5>3 DEF a
      <4> QED
        BY <4>1, <4>3, <4>4 DEF AppendStatement
    <3>9. EndsWith(r, AppendStatement(p, s))
      BY <3>2, <3>3, <3>6, <1>1, <1>5, EndsWithAppend DEF r, m
    <3> QED
      BY <3>1, <3>8, <3>9 DEF q
  <2>3. d >= Len(file) \/ d + 1 = Len(file)
    BY <1>7, <1>8, <1>11
  <2> QED
    BY <2>1, <2>2, <2>3
<1> DEFINE e == Len(file') + Len(pending'[h]) - Len(todo'[h])
<1>12. e >= Len(file') => EndsWith(merged'[h], SubSeq(pending'[h], 1, e - Len(file')))
  <2>1. merged'[h] = r /\ file' = file /\ pending' = pending
    BY <1>3 DEF r, m, s
  <2>2. e = d + 1
    BY <1>8 DEF Done
  <2> HIDE DEF e
  <2>3. SUFFICES ASSUME e >= Len(file)
                 PROVE  EndsWith(r, SubSeq(pending[h], 1, e - Len(file)))
    BY <2>1
  <2>4. EndsWith(r, SubSeq(pending[h], 1, d + 1 - Len(file)))
    BY <2>2, <2>3, <1>11
  <2>5. e - Len(file) = d + 1 - Len(file)
    BY <2>2, <1>7, <1>8
  <2> QED
    BY <2>4, <2>5
<1> QED
  BY <1>9, <1>10, <1>12 DEF MergingInv, Done

LEMMA EndsWithSubset ==
  ASSUME NEW S, NEW q \in Seq(S), NEW p \in Seq(S), EndsWith(q, p)
  PROVE  Range(p) \subseteq Range(q)
<1> SUFFICES ASSUME NEW i \in 1 .. Len(p) PROVE p[i] \in Range(q)
  BY RangeOfSeq
<1>1. /\ Len(q) - Len(p) + i \in 1 .. Len(q)
      /\ p[i] = q[Len(q) - Len(p) + i]
  BY DEF EndsWith
<1> QED
  BY <1>1, RangeOfSeq

LEMMA SameEnd ==
  ASSUME NEW S, NEW q \in Seq(S), NEW p \in Seq(S), EndsWith(q, p), Len(p) = Len(q)
  PROVE  p = q
<1>1. \A i \in 1 .. Len(p) : p[i] = q[i]
  <2> SUFFICES ASSUME NEW i \in 1 .. Len(p) PROVE p[i] = q[i]
    OBVIOUS
  <2>1. Len(q) - Len(p) + i = i
    OBVIOUS
  <2> QED
    BY <2>1 DEF EndsWith
<1> QED
  BY <1>1

\* Append adds s to what is recalled and to what is owed; neither loses what the other
\* still has, because they drop their oldest entries together.
LEMMA RememberKeeps ==
  ASSUME NEW h \in Handles, LocalInv, LocalInv', Kept(h), backed[h],
         NEW s \in Statements, Remember(h, s)
  PROVE  Kept(h)'
<1> DEFINE q == statements[h]
           p == pending[h]
           r == AppendStatement(q, s)
           o == AppendStatement(p, s)
<1>1. /\ q \in Seq(Statements) /\ p \in Seq(Statements)
      /\ WellFormed(q) /\ WellFormed(p)
      /\ EndsWith(q, p)
  BY DEF LocalInv, HTypeOK, Normalized, RecallEndsWithPending
<1>2. /\ statements'[h] = r /\ pending'[h] = o /\ file' = file
  BY DEF Remember, Owed, LocalInv, HTypeOK
<1> HIDE DEF q, p
<1>3. /\ r \in Seq(Statements) /\ WellFormed(r)
      /\ Range(r) \subseteq Range(q) \cup {s}
  BY <1>1, AppendStatementFacts
<1>4. /\ o \in Seq(Statements) /\ WellFormed(o) /\ Len(o) >= 1 /\ o[Len(o)] = s
      /\ Range(p) \subseteq Range(o) \/ Len(o) = MaxEntries
  BY <1>1, AppendStatementFacts
<1>5. EndsWith(r, o)
  BY <1>1, EndsWithAppend
<1> HIDE DEF r, o
<1>6. s \in Range(o)
  <2>1. Len(o) \in 1 .. Len(o)
    BY <1>4
  <2> QED
    BY <2>1, <1>4, RangeOfSeq
<1>7. Range(r) \subseteq Range(file) \cup Range(o) \/ Full(file)
  <2>1. CASE Range(p) \subseteq Range(o)
    BY <2>1, <1>3, <1>6 DEF Kept, q, p
  <2>2. CASE Len(o) = MaxEntries
    <3>1. Len(o) = Len(r)
      BY <2>2, <1>3, <1>4, <1>5, HistoryAssumptions DEF WellFormed, EndsWith
    <3>2. o = r
      BY <3>1, <1>3, <1>4, <1>5, SameEnd
    <3> QED
      BY <3>2
  <2> QED
    BY <2>1, <2>2, <1>4
<1> QED
  BY <1>2, <1>7 DEF Kept

\* A new file has every Statement of the old one, or is full.
LEMMA ReplaceGrows ==
  ASSUME NEW h \in Handles, LocalInv, HandleInv(h), Replace(h)
  PROVE  /\ file' = merged[h]
         /\ EndsWith(file', pending[h])
         /\ Range(file) \subseteq Range(file') \/ Full(file')
         /\ Full(file) => Full(file')
<1>1. /\ file \in Seq(Statements) /\ merged[h] \in Seq(Statements)
      /\ WellFormed(merged[h])
  BY DEF LocalInv, HTypeOK, Normalized
<1>2. file' = merged[h] /\ pc[h] = "written"
  BY DEF Replace, Goto
<1>3. /\ EndsWith(merged[h], pending[h])
      /\ Range(file) \subseteq Range(merged[h]) \/ Len(merged[h]) = MaxEntries
  BY <1>2 DEF HandleInv, WrittenInv
<1>4. Full(file) => Full(merged[h])
  BY <1>1, <1>3, FullStaysFull
<1>5. Len(merged[h]) = MaxEntries => Full(merged[h])
  BY <1>1, CapIsFull
<1> QED
  BY <1>2, <1>3, <1>4, <1>5

LEMMA SaveStepInv == SaveInv /\ [HNext]_hvars => SaveInv'
<1> SUFFICES ASSUME SaveInv, [HNext]_hvars PROVE SaveInv'
  OBVIOUS
<1>0. LocalInv /\ LocalInv' /\ HTypeOK /\ \A g \in Handles : HandleInv(g)
  BY LocalStep DEF SaveInv, LocalInv
<1> SUFFICES ASSUME NEW g \in Handles PROVE HandleInv(g)'
  BY <1>0 DEF SaveInv
<1>00. HandleInv(g)
  BY <1>0
<1>1. CASE UNCHANGED hvars
  BY <1>1, <1>00, Untouched DEF hvars, memoryVars, mergeVars
<1>2. ASSUME NEW h \in Handles, Open(h) PROVE HandleInv(g)'
  <2>1. CASE g = h
    <3>1. /\ pc'[g] = "loading" /\ merged'[g] = <<>> /\ todo'[g] = file /\ file' = file
          /\ ~backed'[g]
      BY <1>2, <2>1, <1>0 DEF Open, Goto, BeginMerge, memoryVars, HTypeOK, LocalInv, Backed
    <3> QED
      BY <3>1, EmptySlice
      DEF HandleInv, LoadingInv, MergingInv, WrittenInv, ReplacedInv, Kept
  <2>2. CASE g # h
    BY <1>2, <2>2, <1>0, <1>00, Untouched DEF Open, Goto, BeginMerge, memoryVars, HTypeOK
  <2> QED
    BY <2>1, <2>2
<1>3. ASSUME NEW h \in Handles,
             OpenFails(h) \/ Acquire(h) \/ AcquireFails(h) \/ LoadFails(h) \/ ReplaceFails(h)
      PROVE  HandleInv(g)'
  <2>1. CASE g = h
    BY <1>3, <2>1, <1>0, <1>00, Elsewhere
    DEF OpenFails, Acquire, AcquireFails, LoadFails, ReplaceFails, Goto, memoryVars, HTypeOK
  <2>2. CASE g # h
    BY <1>3, <2>2, <1>0, <1>00, Untouched
    DEF OpenFails, Acquire, AcquireFails, LoadFails, ReplaceFails, Goto, memoryVars, mergeVars,
        HTypeOK
  <2> QED
    BY <2>1, <2>2
<1>4. ASSUME NEW h \in Handles, MergeOne(h) PROVE HandleInv(g)'
  <2>1. CASE g # h
    BY <1>4, <2>1, <1>0, <1>00, Untouched DEF MergeOne, memoryVars, HTypeOK
  <2>2. CASE g = h /\ pc[h] = "merging"
    <3>1. MergingInv(g)'
      BY <1>4, <2>2, <1>0, MergeTurn
    <3>2. pc'[g] = "merging" /\ UNCHANGED <<file, backed, statements, pending>>
      BY <1>4, <2>2 DEF MergeOne, memoryVars
    <3> QED
      BY <3>1, <3>2, <1>00 DEF HandleInv, LoadingInv, WrittenInv, ReplacedInv, Kept
  <2>3. CASE g = h /\ pc[h] = "loading"
    <3> DEFINE r == AppendStatement(merged[h], Head(todo[h]))
    <3>1. /\ merged[h] \in Seq(Statements) /\ todo[h] \in Seq(Statements) /\ todo[h] # <<>>
          /\ WellFormed(merged[h])
          /\ merged'[h] = r /\ todo'[h] = Tail(todo[h])
          /\ UNCHANGED <<file, pc, backed, statements, pending>>
      BY <1>4, <1>0 DEF MergeOne, memoryVars, HTypeOK, LocalInv, Normalized
    <3>2. Head(todo[h]) \in Statements /\ Range(todo[h]) = Range(Tail(todo[h])) \cup {Head(todo[h])}
      BY <3>1, HeadAndTail
    <3>3. Range(r) \subseteq Range(merged[h]) \cup {Head(todo[h])}
      BY <3>1, <3>2, AppendStatementFacts
    <3> HIDE DEF r
    <3>4. LoadingInv(g)'
      BY <2>3, <3>1, <3>2, <3>3, <1>00 DEF HandleInv, LoadingInv
    <3> QED
      BY <2>3, <3>1, <3>4, <1>00 DEF HandleInv, MergingInv, WrittenInv, ReplacedInv, Kept
  <2> QED
    BY <1>4, <2>1, <2>2, <2>3 DEF MergeOne
<1>5. ASSUME NEW h \in Handles, Opened(h) PROVE HandleInv(g)'
  <2>1. CASE g # h
    BY <1>5, <2>1, <1>0, <1>00, Untouched DEF Opened, Goto, BeginMerge, HTypeOK
  <2>2. CASE g = h
    <3>1. /\ pc[h] = "loading" /\ pc'[h] = "idle" /\ statements'[h] = merged[h]
          /\ file' = file
      BY <1>5, <1>0 DEF Opened, Goto, HTypeOK
    <3>2. Kept(g)'
      BY <2>2, <3>1, <1>00 DEF HandleInv, LoadingInv, Kept
    <3> QED
      BY <2>2, <3>1, <3>2 DEF HandleInv, LoadingInv, MergingInv, WrittenInv, ReplacedInv
  <2> QED
    BY <2>1, <2>2
<1>6. ASSUME NEW h \in Handles, Close(h) \/ Die(h) PROVE HandleInv(g)'
  <2>0. pc' = [pc EXCEPT ![h] = "closed"] /\ Forgotten(h) /\ UNCHANGED file
    BY <1>6 DEF Close, Die, Goto
  <2>1. CASE g # h
    BY <2>0, <2>1, <1>0, <1>00, Untouched DEF Forgotten, BeginMerge, HTypeOK
  <2>2. CASE g = h
    <3>1. pc'[g] = "closed" /\ ~backed'[g]
      BY <2>0, <2>2, <1>0 DEF Forgotten, HTypeOK
    <3> QED
      BY <3>1 DEF HandleInv, LoadingInv, MergingInv, WrittenInv, ReplacedInv, Kept
  <2> QED
    BY <2>1, <2>2
<1>7. ASSUME NEW h \in Handles, NEW s \in Statements, Remember(h, s) PROVE HandleInv(g)'
  <2>1. CASE g # h
    BY <1>7, <2>1, <1>0, <1>00, Untouched DEF Remember, Goto, mergeVars, HTypeOK
  <2>2. CASE g = h
    <3>1. pc'[g] \in {"saving", "idle"} /\ backed' = backed
      BY <1>7, <2>2, <1>0 DEF Remember, Goto, HTypeOK
    <3>2. Kept(g)'
      <4>1. CASE backed[g]
        BY <4>1, <1>7, <2>2, <1>0, <1>00, RememberKeeps DEF HandleInv
      <4>2. CASE ~backed[g]
        BY <4>2, <3>1 DEF Kept
      <4> QED
        BY <4>1, <4>2
    <3> QED
      BY <3>1, <3>2 DEF HandleInv, LoadingInv, MergingInv, WrittenInv, ReplacedInv
  <2> QED
    BY <2>1, <2>2
<1>8. ASSUME NEW h \in Handles, Load(h) PROVE HandleInv(g)'
  <2>1. CASE g # h
    BY <1>8, <2>1, <1>0, <1>00, Untouched DEF Load, Goto, BeginMerge, memoryVars, HTypeOK
  <2>2. CASE g = h
    <3> DEFINE source == file \o pending[h]
    <3>1. /\ pc'[h] = "merging" /\ merged'[h] = <<>> /\ todo'[h] = source
          /\ UNCHANGED <<file, backed, statements, pending>>
      BY <1>8, <1>0 DEF Load, Goto, BeginMerge, memoryVars, HTypeOK
    <3>2. file \in Seq(Statements) /\ pending[h] \in Seq(Statements)
      BY <1>0 DEF HTypeOK
    <3>3. source \in Seq(Statements) /\ Len(source) = Len(file) + Len(pending[h])
      BY <3>2, RangeOfConcat
    <3>4. Len(file) \in Nat /\ Len(pending[h]) \in Nat
      BY <3>2
    <3> HIDE DEF source
    <3>5. Len(file') + Len(pending'[h]) - Len(todo'[h]) = 0
      BY <3>1, <3>3, <3>4
    <3>6. Done(h)' = 0
      BY <3>5 DEF Done
    <3>7. Remaining(h)'
      <4>1. /\ Len(todo'[h]) =< Len(source)
            /\ \A i \in 1 .. Len(todo'[h]) : todo'[h][i] = source[0 + i]
        BY <3>1, <3>3, <3>4
      <4> QED
        BY <4>1, <3>1, <3>6 DEF Remaining, source
    <3>8. Collected(h)'
      BY <3>6 DEF Collected
    <3>9. Len(file) = 0 => EndsWith(<<>>, SubSeq(pending[h], 1, 0 - Len(file)))
      <4>1. SubSeq(pending[h], 1, 0) = <<>>
        BY <3>2
      <4>2. EndsWith(<<>>, <<>>)
        BY DEF EndsWith
      <4>3. ASSUME Len(file) = 0 PROVE 0 - Len(file) = 0
        BY <4>3
      <4> QED
        BY <4>1, <4>2, <4>3
    <3>10. Done(h)' >= Len(file') => Len(file) = 0
      BY <3>1, <3>4, <3>6
    <3>11. MergingInv(h)'
      BY <3>1, <3>6, <3>7, <3>8, <3>9, <3>10 DEF MergingInv
    <3> QED
      BY <2>2, <3>1, <3>11, <1>00 DEF HandleInv, LoadingInv, WrittenInv, ReplacedInv, Kept
  <2> QED
    BY <2>1, <2>2
<1>9. ASSUME NEW h \in Handles, NEW ok \in BOOLEAN, WriteTemporary(h, ok) PROVE HandleInv(g)'
  <2>1. CASE g # h
    BY <1>9, <2>1, <1>0, <1>00, Untouched DEF WriteTemporary, Goto, memoryVars, mergeVars, HTypeOK
  <2>2. CASE g = h /\ ~ok
    BY <1>9, <2>2, <1>0, <1>00, Elsewhere DEF WriteTemporary, Goto, memoryVars, HTypeOK
  <2>3. CASE g = h /\ ok
    <3>1. /\ pc[h] = "merging" /\ pc'[h] = "written" /\ todo[h] = <<>>
          /\ UNCHANGED <<file, backed, statements, pending, merged>>
      BY <1>9, <2>3, <1>0 DEF WriteTemporary, Goto, memoryVars, mergeVars, HTypeOK
    <3>2. /\ file \in Seq(Statements) /\ pending[h] \in Seq(Statements)
          /\ merged[h] \in Seq(Statements)
          /\ Len(file) \in Nat /\ Len(pending[h]) \in Nat
      BY <1>0 DEF HTypeOK
    <3>3. Done(h) = Len(file) + Len(pending[h])
      BY <3>1, <3>2 DEF Done
    <3>4. Collected(h) /\ EndsWith(merged[h], SubSeq(pending[h], 1, Done(h) - Len(file)))
      BY <2>3, <3>1, <3>2, <3>3, <1>00 DEF HandleInv, MergingInv
    <3>5. SubSeq(pending[h], 1, Done(h) - Len(file)) = pending[h]
      <4>1. Done(h) - Len(file) = Len(pending[h])
        BY <3>2, <3>3
      <4>2. SubSeq(pending[h], 1, Len(pending[h])) = pending[h]
        BY <3>2
      <4> QED
        BY <4>1, <4>2
    <3>6. Len(merged[h]) = MaxEntries \/ Range(file) \subseteq Range(merged[h])
      <4> SUFFICES ASSUME Len(merged[h]) # MaxEntries, NEW i \in 1 .. Len(file)
                   PROVE  file[i] \in Range(merged[h])
        BY <3>2, RangeOfSeq
      <4>1. i \in 1 .. Done(h) /\ (file \o pending[h])[i] = file[i]
        BY <3>2, <3>3, RangeOfConcat
      <4> QED
        BY <4>1, <3>4 DEF Collected
    <3>7. WrittenInv(h)'
      BY <3>1, <3>4, <3>5, <3>6 DEF WrittenInv
    <3> QED
      BY <2>3, <3>1, <3>7, <1>00 DEF HandleInv, LoadingInv, MergingInv, ReplacedInv, Kept
  <2> QED
    BY <2>1, <2>2, <2>3
<1>10. ASSUME NEW h \in Handles, Replace(h) PROVE HandleInv(g)'
  <2>1. /\ EndsWith(file', pending[h])
        /\ Range(file) \subseteq Range(file') \/ Full(file')
        /\ Full(file) => Full(file')
    BY <1>10, <1>0, ReplaceGrows
  <2>2. UNCHANGED <<backed, statements, pending, merged, todo>>
    BY <1>10 DEF Replace, memoryVars, mergeVars
  <2>3. Kept(g)'
    BY <2>1, <2>2, <1>00 DEF HandleInv, Kept
  <2>4. CASE g = h
    <3>1. pc'[h] = "replaced"
      BY <1>10, <1>0 DEF Replace, Goto, HTypeOK
    <3> QED
      BY <2>1, <2>2, <2>3, <2>4, <3>1
      DEF HandleInv, LoadingInv, MergingInv, WrittenInv, ReplacedInv
  <2>5. CASE g # h
    <3>1. pc'[g] = pc[g] /\ pc[g] \notin Critical
      BY <1>10, <2>5, <1>0 DEF Replace, Goto, HTypeOK, LocalInv, Critical
    <3>2. LoadingInv(g)'
      BY <2>1, <2>2, <3>1, <1>00 DEF HandleInv, LoadingInv
    <3> QED
      BY <2>3, <3>1, <3>2 DEF HandleInv, MergingInv, WrittenInv, ReplacedInv, Critical
  <2> QED
    BY <2>4, <2>5
<1>11. ASSUME NEW h \in Handles, NEW ok \in BOOLEAN, Release(h, ok) PROVE HandleInv(g)'
  <2>1. CASE g # h
    BY <1>11, <2>1, <1>0, <1>00, Untouched DEF Release, BeginMerge, HTypeOK
  <2>2. CASE g = h /\ ~Settled(h, ok)
    BY <1>11, <2>2, <1>0, <1>00, Elsewhere DEF Release, HTypeOK
  <2>3. CASE g = h /\ Settled(h, ok)
    <3>1. /\ pc[h] = "replaced" /\ pc'[h] = "idle"
          /\ UNCHANGED <<file, backed, statements>>
      BY <1>11, <2>3, <1>0 DEF Release, Settled, HTypeOK
    <3>2. Range(pending[h]) \subseteq Range(file)
      BY <2>3, <3>1, <1>0, <1>00, EndsWithSubset DEF HandleInv, ReplacedInv, HTypeOK
    <3>3. Kept(g)'
      BY <2>3, <3>1, <3>2, <1>00 DEF HandleInv, Kept
    <3> QED
      BY <2>3, <3>1, <3>3 DEF HandleInv, LoadingInv, MergingInv, WrittenInv, ReplacedInv
  <2> QED
    BY <2>1, <2>2, <2>3
<1>12. ASSUME NEW h \in Handles, Finalize(h) PROVE HandleInv(g)'
  BY <1>12, <1>00, Untouched DEF Finalize, memoryVars, mergeVars
<1> QED
  BY <1>1, <1>2, <1>3, <1>4, <1>5, <1>6, <1>7, <1>8, <1>9, <1>10, <1>11, <1>12
  DEF HNext, SaveStep

\* What the lock protects: how far each Save has merged the file that is still there.
THEOREM HistorySaveInvariant == HSpec => []SaveInv
BY SaveInit, SaveStepInv, PTL DEF HSpec

\* No Statement is lost between processes: what is recalled is in the file or still owed
\* to it, unless the file was full.
THEOREM NoStatementLost == HSpec => []NothingLost
<1>1. SaveInv => NothingLost
  BY DEF SaveInv, HandleInv, Kept, NothingLost
<1> QED
  BY <1>1, HistorySaveInvariant, PTL

\* A Save never undoes another process's Save (the reload under the lock in fileStore.Save).
THEOREM SavesMerge == HSpec => ReplacementMerges
<1>1. SaveInv /\ [HNext]_hvars =>
        [file' # file =>
           \E h \in Handles :
             /\ EndsWith(file', pending[h])
             /\ Range(file) \subseteq Range(file') \/ Full(file')]_hvars
  <2> SUFFICES ASSUME SaveInv, HNext, file' # file
               PROVE  \E h \in Handles :
                        /\ EndsWith(file', pending[h])
                        /\ Range(file) \subseteq Range(file') \/ Full(file')
    BY DEF hvars
  <2>1. PICK h \in Handles : Replace(h)
    BY DEF HNext, SaveStep, Open, OpenFails, MergeOne, Opened, Close, Die, Remember, Acquire,
       AcquireFails, Load, LoadFails, WriteTemporary, ReplaceFails, Release, Finalize
  <2> QED
    BY <2>1, ReplaceGrows DEF SaveInv
<1> QED
  BY <1>1, HistorySaveInvariant, PTL DEF HSpec, ReplacementMerges

(******************** concurrent Saves are serializable *******************)

\* Appending s to q puts s last and keeps the order of the others.
LEMMA LastBeforeAppend ==
  ASSUME NEW S, NEW q \in Seq(S), NEW s \in S
  PROVE  /\ \A a : a # s => LastBefore(Append(q, s), a, s)
         /\ \A a, b : a # s /\ b # s /\ LastBefore(q, a, b) => LastBefore(Append(q, s), a, b)
<1> DEFINE p == Append(q, s)
<1>1. /\ p \in Seq(S) /\ Len(p) = Len(q) + 1 /\ Len(q) \in Nat
      /\ \A i \in 1 .. Len(q) : p[i] = q[i]
      /\ p[Len(q) + 1] = s
  BY AppendFacts
<1> HIDE DEF p
<1>2. DOMAIN p = 1 .. Len(q) + 1 /\ DOMAIN q = 1 .. Len(q)
  BY <1>1
<1>3. ASSUME NEW a, a # s PROVE LastBefore(p, a, s)
  <2>1. Len(q) + 1 \in DOMAIN p
    BY <1>1, <1>2
  <2>2. \A i \in DOMAIN p : i >= Len(q) + 1 => p[i] # a
    BY <1>1, <1>2, <1>3
  <2> QED
    BY <1>1, <2>1, <2>2 DEF LastBefore
<1>4. ASSUME NEW a, NEW b, a # s, b # s, LastBefore(q, a, b) PROVE LastBefore(p, a, b)
  <2>1. PICK j \in 1 .. Len(q) : q[j] = b /\ \A i \in 1 .. Len(q) : i >= j => q[i] # a
    BY <1>2, <1>4 DEF LastBefore
  <2>2. j \in DOMAIN p /\ p[j] = b
    BY <1>1, <1>2, <2>1
  <2>3. ASSUME NEW i \in DOMAIN p, i >= j PROVE p[i] # a
    <3>1. CASE i = Len(q) + 1
      BY <3>1, <1>1, <1>4
    <3>2. CASE i # Len(q) + 1
      <4>1. i \in 1 .. Len(q)
        BY <3>2, <1>1, <1>2
      <4> QED
        BY <4>1, <1>1, <2>1, <2>3
    <3> QED
      BY <3>1, <3>2
  <2> QED
    BY <2>2, <2>3 DEF LastBefore
<1> QED
  BY <1>3, <1>4 DEF p

\* m lists s last, and before it Statements of q in the order they have there.
KeepsOrder(m, q, s) ==
  \A i, j \in 1 .. Len(m) : i < j =>
    /\ m[i] # s
    /\ j = Len(m) \/ \E k, l \in 1 .. Len(q) : k < l /\ q[k] = m[i] /\ q[l] = m[j]

\* Before the cap, appendStatement leaves the order of the other Statements alone.
LEMMA MovedOrder ==
  ASSUME NEW S, NEW q \in Seq(S), NEW s \in S, Distinct(q)
  PROVE  KeepsOrder(Append(Without(q, s), s), q, s)
<1> DEFINE m == Append(Without(q, s), s)
<1>0. m \in Seq(S) /\ Distinct(m) /\ m[Len(m)] = s
  BY MovedToEnd
<1>1. CASE s \notin Range(q)
  <2>1. m = Append(q, s)
    BY <1>1, WithoutStranger
  <2>2. Len(m) = Len(q) + 1 /\ Len(q) \in Nat /\ \A i \in 1 .. Len(q) : m[i] = q[i]
    BY <2>1, AppendFacts
  <2> HIDE DEF m
  <2> QED
    <3> SUFFICES ASSUME NEW i \in 1 .. Len(m), NEW j \in 1 .. Len(m), i < j
                 PROVE  /\ m[i] # s
                        /\ j = Len(m) \/ \E k, l \in 1 .. Len(q) : k < l /\ q[k] = m[i] /\ q[l] = m[j]
      BY DEF m, KeepsOrder
    <3>1. m[i] # s
      BY <1>0, <2>2 DEF Distinct
    <3>2. j # Len(m) => i \in 1 .. Len(q) /\ j \in 1 .. Len(q)
      BY <2>2
    <3> QED
      BY <2>2, <3>1, <3>2
<1>2. CASE s \in Range(q)
  <2>1. PICK p \in 1 .. Len(q) : q[p] = s
    BY <1>2, RangeOfSeq
  <2>2. /\ Len(m) = Len(q)
        /\ \A j \in 1 .. Len(q) - 1 : m[j] = IF j < p THEN q[j] ELSE q[j + 1]
    BY <2>1, MovedShape
  <2> HIDE DEF m
  <2> QED
    <3> SUFFICES ASSUME NEW i \in 1 .. Len(m), NEW j \in 1 .. Len(m), i < j
                 PROVE  /\ m[i] # s
                        /\ j = Len(m) \/ \E k, l \in 1 .. Len(q) : k < l /\ q[k] = m[i] /\ q[l] = m[j]
      BY DEF m, KeepsOrder
    <3>1. m[i] # s
      BY <1>0, <2>2 DEF Distinct
    <3> DEFINE from(n) == IF n < p THEN n ELSE n + 1
    <3>2. ASSUME j # Len(m)
          PROVE  /\ from(i) \in 1 .. Len(q) /\ from(j) \in 1 .. Len(q) /\ from(i) < from(j)
                 /\ q[from(i)] = m[i] /\ q[from(j)] = m[j]
      <4>1. i \in 1 .. Len(q) - 1 /\ j \in 1 .. Len(q) - 1
        BY <2>2, <3>2
      <4>2. from(i) \in 1 .. Len(q) /\ from(j) \in 1 .. Len(q) /\ from(i) < from(j)
        BY <4>1
      <4>3. q[from(i)] = m[i] /\ q[from(j)] = m[j]
        BY <4>1, <2>2
      <4> QED
        BY <4>2, <4>3
    <3> HIDE DEF from
    <3> QED
      BY <3>1, <3>2
<1> QED
  BY <1>1, <1>2

\* One turn of the loop in Save brings one more Statement to its place.
LEMMA MostRecentAppend ==
  ASSUME NEW S, NEW r \in Seq(S), NEW q \in Seq(S), NEW s \in S,
         WellFormed(r), IsMostRecent(r, q)
  PROVE  IsMostRecent(AppendStatement(r, s), Append(q, s))
<1> DEFINE m == Append(Without(r, s), s)
           c == AppendStatement(r, s)
           p == Append(q, s)
<1>1. MaxEntries \in Nat \ {0} /\ Distinct(r) /\ Len(r) \in Nat /\ Len(r) =< MaxEntries
  BY HistoryAssumptions DEF WellFormed, Distinct
<1>2. /\ m \in Seq(S) /\ Distinct(m) /\ m[Len(m)] = s
      /\ Len(m) = IF s \in Range(r) THEN Len(r) ELSE Len(r) + 1
      /\ Range(m) = Range(r) \cup {s}
  BY <1>1, MovedToEnd
<1>3. \A i, j \in 1 .. Len(m) : i < j =>
        /\ m[i] # s
        /\ j = Len(m) \/ \E k, l \in 1 .. Len(r) : k < l /\ r[k] = m[i] /\ r[l] = m[j]
  <2>1. KeepsOrder(m, r, s)
    BY <1>1, MovedOrder
  <2> HIDE DEF m
  <2> QED
    BY <2>1 DEF KeepsOrder
<1>4. s \in Range(r) => Len(r) >= 1
  BY RangeOfSeq
<1>5. Len(m) \in Nat /\ Len(m) >= 1 /\ Len(m) =< MaxEntries + 1
  BY <1>1, <1>2, <1>4
<1> HIDE DEF m
<1>6. /\ c \in Seq(S)
      /\ Len(c) = IF Len(m) > MaxEntries THEN MaxEntries ELSE Len(m)
      /\ \A i \in 1 .. Len(c) : c[i] = m[Len(m) - Len(c) + i]
  BY <1>2, <1>5, CappedFacts DEF AppendStatement, m
<1>6a. /\ c[Len(c)] = s /\ Len(c) >= Len(r)
       /\ Range(c) \subseteq Range(r) \cup {s}
  BY AppendStatementFacts
<1> HIDE DEF c
<1>7. Len(c) \in Nat /\ Len(c) >= 1 /\ Len(c) =< MaxEntries /\ Len(c) =< Len(m)
  BY <1>1, <1>5, <1>6
<1>8. /\ \A a : a # s => LastBefore(p, a, s)
      /\ \A a, b : a # s /\ b # s /\ LastBefore(q, a, b) => LastBefore(p, a, b)
  BY LastBeforeAppend
<1>9. Range(p) = Range(q) \cup {s}
  <2>1. p \in Seq(S) /\ Len(p) = Len(q) + 1 /\ Len(q) \in Nat
    BY AppendFacts
  <2>2. (\A i \in 1 .. Len(q) : p[i] = q[i]) /\ p[Len(q) + 1] = s
    BY AppendFacts
  <2> HIDE DEF p
  <2>3. \A x : x \in Range(p) <=> \E i \in 1 .. Len(p) : p[i] = x
    BY <2>1, RangeOfSeq
  <2>4. \A x : x \in Range(q) <=> \E i \in 1 .. Len(q) : q[i] = x
    BY RangeOfSeq
  <2>5. ASSUME NEW x \in Range(p) PROVE x \in Range(q) \cup {s}
    BY <2>1, <2>2, <2>3, <2>4
  <2>6. ASSUME NEW x \in Range(q) PROVE x \in Range(p)
    <3>1. PICK i \in 1 .. Len(q) : q[i] = x
      BY <2>4
    <3>2. i \in 1 .. Len(p) /\ p[i] = x
      BY <2>1, <2>2, <3>1
    <3> QED
      BY <2>3, <3>2
  <2>7. s \in Range(p)
    <3>1. Len(q) + 1 \in 1 .. Len(p)
      BY <2>1
    <3> QED
      BY <2>2, <2>3, <3>1
  <2> QED
    BY <2>5, <2>6, <2>7
<1> HIDE DEF p
<1>10. /\ Range(r) \subseteq Range(q)
       /\ \A i, j \in 1 .. Len(r) : i < j => LastBefore(q, r[i], r[j])
       /\ \A x \in Range(q) \ Range(r) :
            Len(r) = MaxEntries /\ \A i \in 1 .. Len(r) : LastBefore(q, x, r[i])
  BY RangeOfSeq DEF IsMostRecent
\* The order of the new slice is that of the new sequence.
<1>11. ASSUME NEW i \in 1 .. Len(m), NEW j \in 1 .. Len(m), i < j
       PROVE  LastBefore(p, m[i], m[j])
  <2>1. m[i] # s
    BY <1>3, <1>11
  <2>2. CASE j = Len(m)
    BY <2>1, <2>2, <1>2, <1>8
  <2>3. CASE j # Len(m)
    <3>1. PICK k \in 1 .. Len(r), l \in 1 .. Len(r) : k < l /\ r[k] = m[i] /\ r[l] = m[j]
      BY <1>3, <1>11, <2>3
    <3>2. m[j] # s
      BY <1>2, <1>5, <2>3 DEF Distinct
    <3>3. LastBefore(q, m[i], m[j])
      BY <1>10, <3>1
    <3> QED
      BY <2>1, <3>2, <3>3, <1>8
  <2> QED
    BY <2>2, <2>3
<1>12. ASSUME NEW i \in 1 .. Len(c), NEW j \in 1 .. Len(c), i < j
       PROVE  LastBefore(p, c[i], c[j])
  <2>1. /\ Len(m) - Len(c) + i \in 1 .. Len(m) /\ Len(m) - Len(c) + j \in 1 .. Len(m)
        /\ Len(m) - Len(c) + i < Len(m) - Len(c) + j
    BY <1>5, <1>7, <1>12
  <2> QED
    BY <2>1, <1>6, <1>11
\* What is left out comes before the new slice, and the slice is full.
<1>13. ASSUME NEW x \in Range(p) \ Range(c)
       PROVE  Len(c) = MaxEntries /\ \A i \in 1 .. Len(c) : LastBefore(p, x, c[i])
  <2>1. \A y : y \in Range(c) <=> \E i \in 1 .. Len(c) : c[i] = y
    BY <1>6, RangeOfSeq
  <2>2. x # s /\ x \in Range(q)
    <3>1. s \in Range(c)
      BY <1>6a, <1>7, <2>1
    <3> QED
      BY <3>1, <1>9, <1>13
  <2>3. CASE x \in Range(r)
    <3>1. PICK k \in 1 .. Len(m) : m[k] = x
      BY <2>3, <1>2, RangeOfSeq
    <3>2. k =< Len(m) - Len(c)
      <4> SUFFICES ASSUME k > Len(m) - Len(c) PROVE FALSE
        BY <1>5, <1>7
      <4>1. /\ k - (Len(m) - Len(c)) \in 1 .. Len(c)
            /\ Len(m) - Len(c) + (k - (Len(m) - Len(c))) = k
        BY <1>5, <1>7
      <4>2. c[k - (Len(m) - Len(c))] = x
        BY <1>6, <3>1, <4>1
      <4> QED
        BY <2>1, <4>1, <4>2, <1>13
    <3>3. Len(c) = MaxEntries
      BY <1>1, <1>5, <1>6, <1>7, <3>2
    <3>4. ASSUME NEW i \in 1 .. Len(c) PROVE LastBefore(p, x, c[i])
      <4>1. Len(m) - Len(c) + i \in 1 .. Len(m) /\ k < Len(m) - Len(c) + i
        BY <1>5, <1>7, <3>2
      <4> QED
        BY <4>1, <1>6, <1>11, <3>1
    <3> QED
      BY <3>3, <3>4
  <2>4. CASE x \notin Range(r)
    <3>1. Len(r) = MaxEntries /\ \A i \in 1 .. Len(r) : LastBefore(q, x, r[i])
      BY <1>10, <2>2, <2>4
    <3>2. Len(c) = MaxEntries
      BY <1>1, <1>6a, <1>7, <3>1
    <3>3. ASSUME NEW i \in 1 .. Len(c) PROVE LastBefore(p, x, c[i])
      <4>1. c[i] \in Range(r) \cup {s}
        BY <1>6a, <2>1
      <4>2. CASE c[i] = s
        BY <4>2, <1>8, <2>2
      <4>3. CASE c[i] # s
        <5>1. LastBefore(q, x, c[i])
          BY <4>1, <4>3, <3>1, RangeOfSeq
        <5> QED
          BY <5>1, <4>3, <1>8, <2>2
      <4> QED
        BY <4>2, <4>3
    <3> QED
      BY <3>2, <3>3
  <2> QED
    BY <2>3, <2>4
<1>14. Range(c) \subseteq Range(p) /\ DOMAIN c = 1 .. Len(c)
  BY <1>6, <1>6a, <1>9, <1>10
<1> QED
  BY <1>7, <1>12, <1>13, <1>14 DEF IsMostRecent, c, p

\* What Save has appended so far are the most recent Statements of what it went through.
RecentInv(h) ==
  /\ pc[h] = "merging" => IsMostRecent(merged[h], SubSeq(file \o pending[h], 1, Done(h)))
  /\ pc[h] = "written" => IsMostRecent(merged[h], file \o pending[h])

AtomicInv == SaveInv /\ \A h \in Handles : RecentInv(h)

LEMMA PrefixGrows ==
  ASSUME NEW S, NEW q \in Seq(S), NEW d \in Nat, d + 1 =< Len(q)
  PROVE  /\ SubSeq(q, 1, d) \in Seq(S)
         /\ SubSeq(q, 1, d + 1) = Append(SubSeq(q, 1, d), q[d + 1])
<1> DEFINE a == SubSeq(q, 1, d)
           b == SubSeq(q, 1, d + 1)
<1>0. Len(q) \in Nat /\ d + 1 \in 1 .. Len(q) /\ q[d + 1] \in S
  OBVIOUS
<1>1. a \in Seq(S) /\ Len(a) = d /\ \A i \in 1 .. d : a[i] = q[i]
  BY <1>0
<1>2. b \in Seq(S) /\ Len(b) = d + 1 /\ \A i \in 1 .. d + 1 : b[i] = q[i]
  BY <1>0
<1> HIDE DEF a, b
<1> DEFINE c == Append(a, q[d + 1])
<1>3. c \in Seq(S) /\ Len(c) = d + 1 /\ (\A i \in 1 .. d : c[i] = a[i]) /\ c[d + 1] = q[d + 1]
  BY <1>0, <1>1, AppendFacts
<1> HIDE DEF c
<1>4. \A i \in 1 .. d + 1 : c[i] = b[i]
  <2> SUFFICES ASSUME NEW i \in 1 .. d + 1 PROVE c[i] = b[i]
    OBVIOUS
  <2>1. i \in 1 .. d \/ i = d + 1
    OBVIOUS
  <2> QED
    BY <2>1, <1>1, <1>2, <1>3
<1>5. c = b
  BY <1>2, <1>3, <1>4
<1> QED
  BY <1>1, <1>5 DEF a, b, c

LEMMA RecentInit == HInit => AtomicInv
BY SaveInit DEF HInit, AtomicInv, RecentInv

\* A handle that does nothing while the file stays the same keeps its invariant.
LEMMA RecentUntouched ==
  ASSUME NEW g \in Handles, RecentInv(g), UNCHANGED file,
         pc'[g] = pc[g], merged'[g] = merged[g], todo'[g] = todo[g], pending'[g] = pending[g]
  PROVE  RecentInv(g)'
BY DEF RecentInv, Done

\* One turn of the loop in Save.
LEMMA RecentTurn ==
  ASSUME NEW h \in Handles, LocalInv, HandleInv(h), RecentInv(h), MergeOne(h), pc[h] = "merging"
  PROVE  RecentInv(h)'
<1> DEFINE source == file \o pending[h]
           s == Head(todo[h])
           d == Done(h)
<1>1. /\ file \in Seq(Statements) /\ pending[h] \in Seq(Statements)
      /\ todo[h] \in Seq(Statements) /\ merged[h] \in Seq(Statements)
      /\ WellFormed(merged[h])
      /\ Len(file) \in Nat /\ Len(pending[h]) \in Nat
  BY DEF LocalInv, HTypeOK, Normalized
<1>2. /\ merged'[h] = AppendStatement(merged[h], s) /\ todo'[h] = Tail(todo[h])
      /\ UNCHANGED <<file, pending, pc>> /\ todo[h] # <<>>
  BY DEF MergeOne, memoryVars, LocalInv, HTypeOK
<1>3. source \in Seq(Statements) /\ Len(source) = Len(file) + Len(pending[h])
  BY <1>1, RangeOfConcat
<1>4. /\ s = todo[h][1] /\ s \in Statements
      /\ Len(todo[h]) \in Nat \ {0} /\ Len(Tail(todo[h])) = Len(todo[h]) - 1
  BY <1>1, <1>2, HeadAndTail
<1>5. Len(todo[h]) =< Len(source) /\ \A i \in 1 .. Len(todo[h]) : todo[h][i] = source[d + i]
  BY DEF HandleInv, MergingInv, Remaining
<1> HIDE DEF s, source
<1>6. d = Len(source) - Len(todo[h]) /\ Done(h)' = d + 1
  <2>1. d = Len(source) - Len(todo[h])
    BY <1>3 DEF Done
  <2>2. Done(h)' = Len(source) - Len(Tail(todo[h]))
    BY <1>2, <1>3 DEF Done
  <2>3. Len(source) \in Nat
    BY <1>1, <1>3
  <2> DEFINE n == Len(todo[h])
             t == Len(Tail(todo[h]))
  <2>4. n \in Nat /\ t = n - 1
    BY <1>4
  <2> HIDE DEF n, t
  <2>5. Len(source) - t = Len(source) - n + 1
    BY <2>3, <2>4
  <2> QED
    BY <2>1, <2>2, <2>5 DEF n, t
<1> HIDE DEF d
<1>7. d \in Nat /\ d + 1 =< Len(source) /\ source[d + 1] = s
  <2>1. Len(source) \in Nat
    BY <1>1, <1>3
  <2>2. todo[h][1] = source[d + 1]
    BY <1>4, <1>5
  <2> QED
    BY <2>1, <2>2, <1>4, <1>5, <1>6
<1>8. IsMostRecent(merged[h], SubSeq(source, 1, d))
  BY DEF RecentInv, source, d
<1>9. /\ SubSeq(source, 1, d) \in Seq(Statements)
      /\ SubSeq(source, 1, d + 1) = Append(SubSeq(source, 1, d), s)
  BY <1>3, <1>7, PrefixGrows
<1>10. IsMostRecent(merged'[h], SubSeq(source, 1, d + 1))
  <2> DEFINE q == SubSeq(source, 1, d)
  <2>1. q \in Seq(Statements) /\ IsMostRecent(merged[h], q)
    BY <1>8, <1>9
  <2> HIDE DEF q
  <2>2. IsMostRecent(AppendStatement(merged[h], s), Append(q, s))
    BY <2>1, <1>1, <1>4, MostRecentAppend
  <2> QED
    BY <2>2, <1>2, <1>9 DEF q
<1>11. (file \o pending[h])' = source
  BY <1>2 DEF source
<1> QED
  BY <1>2, <1>6, <1>10, <1>11 DEF RecentInv

LEMMA RecentStep == AtomicInv /\ [HNext]_hvars => AtomicInv'
<1> SUFFICES ASSUME AtomicInv, [HNext]_hvars PROVE AtomicInv'
  OBVIOUS
<1>0. /\ SaveInv /\ SaveInv' /\ LocalInv /\ LocalInv' /\ HTypeOK
      /\ \A g \in Handles : HandleInv(g) /\ RecentInv(g)
  BY SaveStepInv DEF AtomicInv, SaveInv, LocalInv
<1> SUFFICES ASSUME NEW g \in Handles PROVE RecentInv(g)'
  BY <1>0 DEF AtomicInv
<1>00. RecentInv(g)
  BY <1>0
<1>1. CASE UNCHANGED hvars
  BY <1>1, <1>00, RecentUntouched DEF hvars, memoryVars, mergeVars
<1>2. ASSUME NEW h \in Handles, MergeOne(h) PROVE RecentInv(g)'
  <2>1. CASE g # h
    BY <1>2, <2>1, <1>0, <1>00, RecentUntouched DEF MergeOne, memoryVars, HTypeOK
  <2>2. CASE g = h /\ pc[h] = "merging"
    BY <1>2, <2>2, <1>0, RecentTurn
  <2>3. CASE g = h /\ pc[h] = "loading"
    BY <1>2, <2>3 DEF MergeOne, RecentInv
  <2> QED
    BY <1>2, <2>1, <2>2, <2>3 DEF MergeOne
<1>3. ASSUME NEW h \in Handles, Load(h) PROVE RecentInv(g)'
  <2>1. CASE g # h
    BY <1>3, <2>1, <1>0, <1>00, RecentUntouched DEF Load, Goto, BeginMerge, memoryVars, HTypeOK
  <2>2. CASE g = h
    <3>1. /\ pc'[h] = "merging" /\ merged'[h] = <<>> /\ todo'[h] = file \o pending[h]
          /\ UNCHANGED <<file, pending>>
      BY <1>3, <1>0 DEF Load, Goto, BeginMerge, memoryVars, HTypeOK
    <3>2. file \in Seq(Statements) /\ pending[h] \in Seq(Statements)
      BY <1>0 DEF HTypeOK
    <3>3. Len(file \o pending[h]) = Len(file) + Len(pending[h])
      BY <3>2, RangeOfConcat
    <3>4. Done(h)' = 0
      BY <3>1, <3>2, <3>3 DEF Done
    <3>5. SubSeq(file \o pending[h], 1, 0) = <<>>
      BY <3>2
    <3>6. IsMostRecent(<<>>, <<>>)
      BY HistoryAssumptions DEF IsMostRecent, Range
    <3> QED
      BY <2>2, <3>1, <3>4, <3>5, <3>6 DEF RecentInv
  <2> QED
    BY <2>1, <2>2
<1>4. ASSUME NEW h \in Handles, NEW ok \in BOOLEAN, WriteTemporary(h, ok) PROVE RecentInv(g)'
  <2>1. CASE g # h
    BY <1>4, <2>1, <1>0, <1>00, RecentUntouched
    DEF WriteTemporary, Goto, memoryVars, mergeVars, HTypeOK
  <2>2. CASE g = h
    <3>1. /\ pc[h] = "merging" /\ pc'[h] \in {"written", "failed"} /\ todo[h] = <<>>
          /\ UNCHANGED <<file, pending, merged>>
      BY <1>4, <1>0 DEF WriteTemporary, Goto, memoryVars, mergeVars, HTypeOK
    <3>2. file \in Seq(Statements) /\ pending[h] \in Seq(Statements)
      BY <1>0 DEF HTypeOK
    <3> DEFINE source == file \o pending[h]
    <3>3. source \in Seq(Statements) /\ Len(source) = Len(file) + Len(pending[h])
      BY <3>2, RangeOfConcat
    <3>4. Done(h) = Len(source)
      BY <3>1, <3>2, <3>3 DEF Done
    <3>5. IsMostRecent(merged[h], SubSeq(source, 1, Len(source)))
      BY <2>2, <3>1, <3>4, <1>00 DEF RecentInv
    <3>6. SubSeq(source, 1, Len(source)) = source
      <4> HIDE DEF source
      <4> QED
        BY <3>3
    <3> QED
      BY <2>2, <3>1, <3>5, <3>6 DEF RecentInv
  <2> QED
    BY <2>1, <2>2
<1>5. ASSUME NEW h \in Handles, Replace(h) PROVE RecentInv(g)'
  <2>1. CASE g = h
    BY <1>5, <2>1, <1>0 DEF Replace, Goto, HTypeOK, RecentInv
  <2>2. CASE g # h
    BY <1>5, <2>2, <1>0 DEF Replace, Goto, HTypeOK, LocalInv, Critical, RecentInv
  <2> QED
    BY <2>1, <2>2
<1>6. ASSUME NEW h \in Handles,
             \/ Open(h) \/ OpenFails(h) \/ Opened(h) \/ Close(h) \/ Die(h)
             \/ \E s \in Statements : Remember(h, s)
             \/ Acquire(h) \/ AcquireFails(h) \/ LoadFails(h) \/ ReplaceFails(h)
             \/ \E ok \in BOOLEAN : Release(h, ok)
      PROVE  RecentInv(g)'
  <2>1. /\ pc'[h] \notin {"merging", "written"} /\ UNCHANGED file
        /\ g # h => /\ pc'[g] = pc[g] /\ merged'[g] = merged[g] /\ todo'[g] = todo[g]
                    /\ pending'[g] = pending[g]
    BY <1>6, <1>0
    DEF Open, OpenFails, Opened, Close, Die, Remember, Acquire, AcquireFails, LoadFails,
        ReplaceFails, Release, Forgotten, Goto, BeginMerge, memoryVars, mergeVars, HTypeOK
  <2> QED
    BY <2>1, <1>00, RecentUntouched DEF RecentInv
<1>7. ASSUME NEW h \in Handles, Finalize(h) PROVE RecentInv(g)'
  BY <1>7, <1>00, RecentUntouched DEF Finalize, memoryVars, mergeVars
<1> QED
  BY <1>1, <1>2, <1>3, <1>4, <1>5, <1>6, <1>7 DEF HNext, SaveStep

\* Concurrent Saves act as if they ran one after the other (fileStore.Save, under the lock):
\* each new file is the most recent Statements of the file it replaces and what was owed.
THEOREM SavesAreSerial == HSpec => SavesAreAtomic
<1>1. AtomicInv /\ [HNext]_hvars =>
        [file' # file =>
           \E h \in Handles : IsMostRecent(file', file \o pending[h])]_hvars
  <2> SUFFICES ASSUME AtomicInv, HNext, file' # file
               PROVE  \E h \in Handles : IsMostRecent(file', file \o pending[h])
    BY DEF hvars
  <2>1. PICK h \in Handles : Replace(h)
    BY DEF HNext, SaveStep, Open, OpenFails, MergeOne, Opened, Close, Die, Remember, Acquire,
       AcquireFails, Load, LoadFails, WriteTemporary, ReplaceFails, Release, Finalize
  <2>2. file' = merged[h] /\ IsMostRecent(merged[h], file \o pending[h])
    BY <2>1 DEF Replace, Goto, AtomicInv, RecentInv
  <2> QED
    BY <2>2
<1> QED
  BY <1>1, RecentInit, RecentStep, PTL DEF HSpec, SavesAreAtomic

(*************************** numbers and their sets ************************)

\* Among natural numbers there is a least one.
LEMMA LeastNat ==
  ASSUME NEW T \in SUBSET Nat, T # {}
  PROVE  \E x \in T : \A y \in T : x <= y
<1>1. IsWellFoundedOn(OpToRel(<, Nat), Nat)
  BY NatLessThanWellFounded
<1>2. PICK x \in T : \A y \in T : ~(<<y, x>> \in OpToRel(<, Nat))
  BY <1>1, WFMin
<1>3. \A y \in T : y \in Nat /\ x \in Nat /\ ~(y < x)
  BY <1>2 DEF OpToRel
<1> QED BY <1>3

\* Among the numbers up to n there is a greatest one.
LEMMA GreatestNat ==
  ASSUME NEW n \in Nat, NEW T \in SUBSET (0 .. n), T # {}
  PROVE  \E x \in T : \A y \in T : y <= x
<1> DEFINE U == {n - x : x \in T}
<1>0. \A x \in T : x \in 0 .. n /\ x \in Int /\ n - x \in Nat
  OBVIOUS
<1>1. U \in SUBSET Nat /\ U # {}
  <2>1. \A u \in U : u \in Nat
    BY <1>0
  <2>2. PICK x \in T : TRUE
    OBVIOUS
  <2>3. n - x \in U
    BY <2>2
  <2> QED BY <2>1, <2>3
<1>2. PICK u \in U : \A y \in U : u <= y
  BY <1>1, LeastNat
<1>3. PICK x \in T : u = n - x
  BY <1>2
<1>4. \A y \in T : n - x <= n - y
  BY <1>2, <1>3
<1> QED BY <1>0, <1>4

\* What InOrder lists are the elements, each of them.
LEMMA InOrderLists ==
  ASSUME NEW S, S \subseteq Int, IsFiniteSet(S),
         NEW weight, \A i \in S : weight[i] \in Int
  PROVE  /\ Cardinality(S) \in Nat
         /\ InOrder(S, weight) \in [1 .. Cardinality(S) -> S]
         /\ \A i \in S : \E k \in 1 .. Cardinality(S) : InOrder(S, weight)[k] = i
<1> DEFINE Less(j, i) == weight[j] < weight[i] \/ (weight[j] = weight[i] /\ j < i)
           Before(i) == {j \in S : Less(j, i)}
           n == Cardinality(S)
           rank == [i \in S |-> Cardinality(Before(i)) + 1]
<1>1. n \in Nat
  BY FS_CardinalityType
<1>2. \A i \in S : Before(i) \subseteq S /\ IsFiniteSet(Before(i)) /\ i \notin Before(i)
  <2> TAKE i \in S
  <2>1. Before(i) \subseteq S
    OBVIOUS
  <2>2. i \in Int /\ weight[i] \in Int
    OBVIOUS
  <2>3. ~Less(i, i)
    BY <2>2
  <2> QED BY <2>1, <2>3, FS_Subset
<1>3. \A i \in S : Cardinality(Before(i)) + 1 \in 1 .. n
  <2> TAKE i \in S
  <2>1. Cardinality(Before(i)) \in Nat /\ Cardinality(Before(i)) <= n
    BY <1>2, FS_CardinalityType, FS_Subset
  <2>2. Cardinality(Before(i)) # n
    BY <1>2, FS_Subset
  <2> QED BY <1>1, <2>1, <2>2
<1>4. ASSUME NEW i \in S, NEW j \in S, Less(i, j)
      PROVE  Cardinality(Before(i)) # Cardinality(Before(j))
  <2>1. i \in Before(j) /\ i \notin Before(i)
    BY <1>2, <1>4
  <2>2. ASSUME NEW l \in S, Less(l, i) PROVE Less(l, j)
    <3>1. /\ l \in Int /\ i \in Int /\ j \in Int
          /\ weight[l] \in Int /\ weight[i] \in Int /\ weight[j] \in Int
      OBVIOUS
    <3> QED BY <3>1, <2>2, <1>4
  <2>3. Before(i) \subseteq Before(j)
    BY <2>2
  <2>4. IsFiniteSet(Before(j))
    BY <1>2
  <2> HIDE DEF Before
  <2> QED BY <2>1, <2>3, <2>4, FS_Subset
<1>5. rank \in [S -> 1 .. n]
  BY <1>3
<1>6. \A i, j \in S : rank[i] = rank[j] => i = j
  <2> SUFFICES ASSUME NEW i \in S, NEW j \in S, i # j PROVE rank[i] # rank[j]
    OBVIOUS
  <2>1. Less(i, j) \/ Less(j, i)
    <3>1. i \in Int /\ j \in Int /\ weight[i] \in Int /\ weight[j] \in Int
      OBVIOUS
    <3> QED BY <3>1
  <2>2. rank[i] = Cardinality(Before(i)) + 1 /\ rank[j] = Cardinality(Before(j)) + 1
    OBVIOUS
  <2>3. Cardinality(Before(i)) # Cardinality(Before(j))
    <3> HIDE DEF Before, Less
    <3> QED BY <1>4, <2>1
  <2>4. Cardinality(Before(i)) \in Nat /\ Cardinality(Before(j)) \in Nat
    BY <1>2, FS_CardinalityType
  <2> HIDE DEF rank, Before
  <2> QED BY <2>2, <2>3, <2>4
<1>7. rank \in Injection(S, 1 .. n)
  BY <1>5, <1>6 DEF Injection, IsInjective
<1>8. IsFiniteSet(1 .. n) /\ Cardinality(1 .. n) = n
  BY <1>1, FS_Interval
<1>9. rank \in Surjection(S, 1 .. n)
  BY <1>7, <1>8, FS_Injection
<1>10. InOrder(S, weight) = [k \in 1 .. n |-> CHOOSE i \in S : Cardinality(Before(i)) = k - 1]
  BY DEF InOrder
<1>11. ASSUME NEW k \in 1 .. n, NEW i \in S
       PROVE  rank[i] = k <=> Cardinality(Before(i)) = k - 1
  <2>1. rank[i] = Cardinality(Before(i)) + 1 /\ Cardinality(Before(i)) \in Nat
    BY <1>2, FS_CardinalityType
  <2> HIDE DEF rank, Before
  <2> QED BY <2>1
<1> HIDE DEF Before
<1>12. ASSUME NEW k \in 1 .. n
       PROVE  /\ InOrder(S, weight)[k] \in S
              /\ rank[InOrder(S, weight)[k]] = k
  <2>1. \E i \in S : rank[i] = k
    BY <1>9 DEF Surjection
  <2>2. \E i \in S : Cardinality(Before(i)) = k - 1
    BY <2>1, <1>11
  <2>3. InOrder(S, weight)[k] = CHOOSE i \in S : Cardinality(Before(i)) = k - 1
    BY <1>10
  <2>4. InOrder(S, weight)[k] \in S /\ Cardinality(Before(InOrder(S, weight)[k])) = k - 1
    BY <2>2, <2>3
  <2> QED BY <2>4, <1>11
<1>13. InOrder(S, weight) \in [1 .. n -> S]
  BY <1>10, <1>12
<1>14. ASSUME NEW i \in S PROVE \E k \in 1 .. n : InOrder(S, weight)[k] = i
  <2>1. rank[i] \in 1 .. n
    BY <1>5
  <2>2. InOrder(S, weight)[rank[i]] \in S /\ rank[InOrder(S, weight)[rank[i]]] = rank[i]
    BY <2>1, <1>12
  <2> QED BY <2>1, <2>2, <1>6
<1> QED BY <1>1, <1>13, <1>14

(****************************** lists of entries ***************************)

LEMMA ListFacts ==
  ASSUME NEW es, IsList(es)
  PROVE  /\ Len(es) \in Nat /\ DOMAIN es = 1 .. Len(es)
         /\ IsFiniteSet(DOMAIN es) /\ Cardinality(DOMAIN es) = Len(es)
         /\ es = <<>> <=> Len(es) = 0
<1>1. Len(es) \in Nat /\ DOMAIN es = 1 .. Len(es) /\ (es = <<>> <=> Len(es) = 0)
  BY DEF IsList
<1>2. ASSUME NEW n \in Nat PROVE IsFiniteSet(1 .. n) /\ Cardinality(1 .. n) = n
  BY FS_Interval
<1>3. Len(es) \in Nat
  BY <1>1
<1>4. IsFiniteSet(1 .. Len(es)) /\ Cardinality(1 .. Len(es)) = Len(es)
  BY <1>2, <1>3
<1> QED BY <1>1, <1>4

LEMMA ListOf ==
  ASSUME NEW n \in Nat, NEW S, NEW es \in [1 .. n -> S]
  PROVE  IsList(es) /\ Len(es) = n
<1>1. DOMAIN es = 1 .. n /\ \A i \in 1 .. n : es[i] \in Items(es)
  BY DEF Items
<1>2. es \in [1 .. n -> Items(es)]
  BY <1>1
<1>3. es \in Seq(Items(es)) /\ Len(es) = n
  BY <1>2
<1> QED BY <1>3 DEF IsList

ItemsAt(es, T) == {es[i] : i \in T}

\* A list picked from another holds what was picked from it, as many as were picked.
LEMMA PickedInOrder ==
  ASSUME NEW es, IsList(es), NEW T \in SUBSET (DOMAIN es),
         NEW weight, \A i \in T : weight[i] \in Int
  PROVE  /\ IsList(Picked(es, InOrder(T, weight)))
         /\ Len(Picked(es, InOrder(T, weight))) = Cardinality(T)
         /\ Items(Picked(es, InOrder(T, weight))) = ItemsAt(es, T)
         /\ Len(Picked(es, InOrder(T, weight))) = Len(es) <=> T = DOMAIN es
<1> DEFINE order == InOrder(T, weight)
           p == Picked(es, order)
<1>1. T \subseteq Int /\ IsFiniteSet(T)
  <2>1. DOMAIN es = 1 .. Len(es) /\ Len(es) \in Nat
    BY ListFacts
  <2>2. T \subseteq Int
    BY <2>1
  <2>3. IsFiniteSet(DOMAIN es)
    BY ListFacts
  <2> QED BY <2>2, <2>3, FS_Subset
<1>2. /\ Cardinality(T) \in Nat
      /\ order \in [1 .. Cardinality(T) -> T]
      /\ \A i \in T : \E k \in 1 .. Cardinality(T) : order[k] = i
  BY <1>1, InOrderLists
<1> HIDE DEF order
<1>3. p = [k \in 1 .. Cardinality(T) |-> es[order[k]]]
  BY <1>2 DEF Picked
<1>4. p \in [1 .. Cardinality(T) -> {es[i] : i \in T}]
  BY <1>2, <1>3
<1>5. IsList(p) /\ Len(p) = Cardinality(T)
  BY <1>2, <1>4, ListOf
<1>6. Items(p) = {es[i] : i \in T}
  <2>1. \A x \in Items(p) : x \in {es[i] : i \in T}
    BY <1>4 DEF Items
  <2>2. ASSUME NEW i \in T PROVE es[i] \in Items(p)
    <3>1. PICK k \in 1 .. Cardinality(T) : order[k] = i
      BY <1>2
    <3>2. k \in DOMAIN p /\ p[k] = es[i]
      BY <1>3, <3>1
    <3> QED BY <3>2 DEF Items
  <2> QED BY <2>1, <2>2
<1>7. Cardinality(T) = Len(es) <=> T = DOMAIN es
  <2>1. IsFiniteSet(DOMAIN es) /\ Cardinality(DOMAIN es) = Len(es)
    BY ListFacts
  <2>2. Cardinality(DOMAIN es) = Cardinality(T) => DOMAIN es = T
    BY <2>1, FS_Subset
  <2> QED BY <2>1, <2>2
<1> QED BY <1>5, <1>6, <1>7 DEF order, ItemsAt

LEMMA SeqIsList ==
  ASSUME NEW S, NEW es \in Seq(S)
  PROVE  IsList(es) /\ Items(es) \subseteq S
<1>1. Len(es) \in Nat /\ es \in [1 .. Len(es) -> S]
  OBVIOUS
<1>2. IsList(es)
  BY <1>1, ListOf
<1>3. \A i \in DOMAIN es : es[i] \in S
  BY <1>1
<1> QED BY <1>2, <1>3 DEF Items

(********************************** texts **********************************)

LEMMA SqueezedIsList ==
  ASSUME NEW t, IsList(t)
  PROVE  IsList(Squeezed(t)) /\ Len(Squeezed(t)) \in Nat
<1> DEFINE kept == {i \in DOMAIN t : \/ t[i] # Blank
                                     \/ /\ i > 1 /\ t[i - 1] # Blank
                                        /\ \E j \in i + 1 .. Len(t) : t[j] # Blank}
           none == [i \in kept |-> 0]
<1>1. kept \in SUBSET (DOMAIN t)
  OBVIOUS
<1>2. \A i \in kept : none[i] \in Int
  OBVIOUS
<1>3. Squeezed(t) = Picked(t, InOrder(kept, none))
  BY DEF Squeezed, Ascending
<1> HIDE DEF kept, none
<1>4. IsList(Squeezed(t))
  <2>1. IsList(Picked(t, InOrder(kept, none)))
    BY <1>1, <1>2, PickedInOrder
  <2> QED BY <1>3, <2>1
<1> QED BY <1>4, ListFacts

LEMMA TrimmedIsList ==
  ASSUME NEW t, IsList(t)
  PROVE  IsList(Trimmed(t)) /\ (t = <<>> => Trimmed(t) = <<>>)
<1> DEFINE solid == {i \in DOMAIN t : t[i] # Blank}
<1>1. Len(t) \in Nat /\ DOMAIN t = 1 .. Len(t) /\ t \in Seq(Items(t))
  BY ListFacts DEF IsList
<1>2. CASE solid = {}
  <2>1. Trimmed(t) = <<>>
    BY <1>2 DEF Trimmed
  <2>2. <<>> \in Seq(Items(t))
    OBVIOUS
  <2> QED BY <2>1, <2>2, SeqIsList
<1>3. CASE solid # {}
  <2> DEFINE a == CHOOSE i \in solid : \A j \in solid : i <= j
             b == CHOOSE i \in solid : \A j \in solid : j <= i
  <2>1. solid \in SUBSET Nat /\ solid \in SUBSET (0 .. Len(t)) /\ solid \subseteq 1 .. Len(t)
    BY <1>1
  <2> HIDE DEF solid
  <2>2. a \in solid /\ b \in solid
    BY <1>1, <1>3, <2>1, LeastNat, GreatestNat
  <2>3. Trimmed(t) = SubSeq(t, a, b)
    BY <1>3 DEF Trimmed, solid
  <2>4. a \in 1 .. Len(t) /\ b \in 1 .. Len(t)
    BY <2>1, <2>2
  <2> HIDE DEF a, b
  <2>5. SubSeq(t, a, b) \in Seq(Items(t))
    BY <1>1, <2>4
  <2>6. t # <<>>
    BY <1>1, <2>4, ListFacts
  <2> QED BY <2>3, <2>5, <2>6, SeqIsList
<1> QED BY <1>2, <1>3

(****************************** the greedy scan ****************************)

\* The states of the scan of a candidate's first n letters.
ScanTo(needle, candidate, n, scan) ==
  scan = [i \in 0 .. n |->
            IF i = 0 THEN Unscanned ELSE Scanned(needle, candidate, scan[i - 1], i)]

LEMMA ScanExists ==
  ASSUME NEW needle, NEW candidate, NEW n \in Nat
  PROVE  \E scan : ScanTo(needle, candidate, n, scan)
<1> DEFINE T == {m \in Nat : ~\E scan : ScanTo(needle, candidate, m, scan)}
<1> SUFFICES ASSUME T # {} PROVE FALSE
  OBVIOUS
<1>1. PICK x \in T : \A y \in T : x <= y
  BY LeastNat
<1>2. x \in Nat /\ ~\E scan : ScanTo(needle, candidate, x, scan)
  OBVIOUS
<1>3. CASE x = 0
  <2> DEFINE g == [i \in 0 .. 0 |-> Unscanned]
  <2>1. g = [i \in 0 .. 0 |->
               IF i = 0 THEN Unscanned ELSE Scanned(needle, candidate, g[i - 1], i)]
    OBVIOUS
  <2> HIDE DEF g
  <2>2. ScanTo(needle, candidate, 0, g)
    BY <2>1 DEF ScanTo
  <2> QED BY <1>2, <1>3, <2>2
<1>4. CASE x # 0
  <2>1. x - 1 \in Nat /\ x - 1 \notin T
    BY <1>1, <1>2, <1>4
  <2>2. PICK h : ScanTo(needle, candidate, x - 1, h)
    BY <2>1
  <2> DEFINE g == [i \in 0 .. x |->
                     IF i < x THEN h[i] ELSE Scanned(needle, candidate, h[x - 1], x)]
  <2>3. ASSUME NEW i \in 0 .. x
        PROVE  g[i] = IF i = 0 THEN Unscanned ELSE Scanned(needle, candidate, g[i - 1], i)
    <3>1. h = [j \in 0 .. x - 1 |->
                 IF j = 0 THEN Unscanned ELSE Scanned(needle, candidate, h[j - 1], j)]
      BY <2>2 DEF ScanTo
    <3>2. CASE i = 0
      <4>1. g[i] = h[0] /\ h[0] = Unscanned
        BY <3>1, <3>2, <1>2, <1>4
      <4> QED BY <3>2, <4>1
    <3>3. CASE i # 0 /\ i < x
      <4>1. g[i] = h[i] /\ g[i - 1] = h[i - 1]
        BY <3>3, <1>2
      <4>2. h[i] = Scanned(needle, candidate, h[i - 1], i)
        BY <3>1, <3>3, <1>2
      <4> QED BY <3>3, <4>1, <4>2
    <3>4. CASE i = x
      <4>1. g[i] = Scanned(needle, candidate, h[i - 1], i) /\ g[i - 1] = h[i - 1]
        BY <3>4, <1>2, <1>4
      <4> QED BY <3>4, <4>1, <1>4
    <3> QED BY <3>2, <3>3, <3>4, <1>2
  <2>4. ScanTo(needle, candidate, x, g)
    <3>1. g = [i \in 0 .. x |-> g[i]]
      OBVIOUS
    <3> HIDE DEF g
    <3> QED BY <2>3, <3>1 DEF ScanTo
  <2> QED BY <1>2, <2>4
<1> QED BY <1>3, <1>4

ScanStates(needle) ==
  [found : 0 .. Len(needle), streak : Nat, last : Int, first : Nat, score : Nat]

LEMMA ScanStarts ==
  ASSUME NEW needle, Len(needle) \in Nat
  PROVE  Unscanned \in ScanStates(needle)
BY DEF Unscanned, ScanStates

\* One letter of the candidate: found at most one letter more, and that one if it is the next.
LEMMA ScanStep ==
  ASSUME NEW needle, Len(needle) \in Nat, NEW candidate,
         NEW st \in ScanStates(needle), NEW i \in Nat
  PROVE  LET next == Scanned(needle, candidate, st, i) IN
           /\ next \in ScanStates(needle)
           /\ next.found = IF st.found = Len(needle) \/ candidate[i] # needle[st.found + 1]
                           THEN st.found ELSE st.found + 1
<1>1. CASE st.found = Len(needle) \/ candidate[i] # needle[st.found + 1]
  <2>1. Scanned(needle, candidate, st, i) = [st EXCEPT !.streak = 0]
    BY <1>1 DEF Scanned
  <2> QED BY <1>1, <2>1 DEF ScanStates
<1>2. CASE ~(st.found = Len(needle) \/ candidate[i] # needle[st.found + 1])
  <2> DEFINE streak == IF st.last = i - 1 THEN st.streak + 1 ELSE 1
             bonus == IF i = 1 \/ candidate[i - 1] = Blank THEN WordBonus ELSE 0
             first == IF st.first = 0 THEN i ELSE st.first
             square == streak * streak
             next == Scanned(needle, candidate, st, i)
  <2>1. next = [found |-> st.found + 1, streak |-> streak, last |-> i,
                first |-> first, score |-> st.score + 1 + square + bonus]
    BY <1>2 DEF Scanned
  <2>2. /\ st.found \in 0 .. Len(needle) /\ st.streak \in Nat
        /\ st.first \in Nat /\ st.score \in Nat
    BY DEF ScanStates
  <2>3. streak \in Nat /\ bonus \in Nat /\ first \in Nat /\ i \in Int
    BY <2>2 DEF WordBonus
  <2> HIDE DEF streak, bonus, first
  <2>4. square \in Nat
    BY <2>3
  <2> HIDE DEF square, next
  <2>5. st.found + 1 \in 0 .. Len(needle) /\ st.score + 1 + square + bonus \in Nat
    <3>1. st.found # Len(needle)
      BY <1>2
    <3>2. st.found + 1 \in 0 .. Len(needle)
      BY <2>2, <3>1
    <3>3. st.score + 1 + square + bonus \in Nat
      BY <2>2, <2>3, <2>4
    <3> QED BY <3>2, <3>3
  <2>6. next \in ScanStates(needle) /\ next.found = st.found + 1
    BY <2>1, <2>3, <2>5 DEF ScanStates
  <2> QED BY <1>2, <2>6 DEF next
<1> QED BY <1>1, <1>2

\* The scan of a whole candidate.
LEMMA Scan ==
  ASSUME NEW needle, Len(needle) \in Nat, NEW candidate, Len(candidate) \in Nat
  PROVE  \E scan :
           /\ ScanTo(needle, candidate, Len(candidate), scan)
           /\ scan[0] = Unscanned
           /\ \A i \in 0 .. Len(candidate) : scan[i] \in ScanStates(needle)
           /\ \A i \in 1 .. Len(candidate) :
                scan[i] = Scanned(needle, candidate, scan[i - 1], i)
           /\ Fuzzy(needle, candidate) = Judged(needle, scan[Len(candidate)])
<1> DEFINE n == Len(candidate)
           scan == CHOOSE g : ScanTo(needle, candidate, n, g)
<1>1. ScanTo(needle, candidate, n, scan)
  BY ScanExists
<1>2. Fuzzy(needle, candidate) = Judged(needle, scan[n])
  BY DEF Fuzzy, ScanTo
<1> HIDE DEF scan
<1>3. scan = [i \in 0 .. n |->
                IF i = 0 THEN Unscanned ELSE Scanned(needle, candidate, scan[i - 1], i)]
  BY <1>1 DEF ScanTo
<1>4. /\ scan[0] = Unscanned
      /\ \A i \in 1 .. n : scan[i] = Scanned(needle, candidate, scan[i - 1], i)
  BY <1>3
<1>5. \A i \in 0 .. n : scan[i] \in ScanStates(needle)
  <2> DEFINE T == {i \in 0 .. n : scan[i] \notin ScanStates(needle)}
  <2> SUFFICES ASSUME T # {} PROVE FALSE
    OBVIOUS
  <2>1. PICK x \in T : \A y \in T : x <= y
    <3>1. T \in SUBSET Nat
      OBVIOUS
    <3> HIDE DEF T
    <3> QED BY <3>1, LeastNat
  <2>2. x \in 0 .. n /\ scan[x] \notin ScanStates(needle)
    OBVIOUS
  <2>3. x # 0
    BY <2>2, <1>4, ScanStarts
  <2>4. x - 1 \in 0 .. n /\ x - 1 \notin T
    BY <2>1, <2>2, <2>3
  <2>5. scan[x - 1] \in ScanStates(needle) /\ x \in 1 .. n /\ x \in Nat
    BY <2>2, <2>3, <2>4
  <2>6. Scanned(needle, candidate, scan[x - 1], x) \in ScanStates(needle)
    BY <2>5, ScanStep
  <2> QED BY <2>2, <2>5, <2>6, <1>4
<1> QED BY <1>1, <1>2, <1>4, <1>5

LEMMA Grows ==
  ASSUME NEW n \in Nat, NEW found \in [0 .. n -> Nat],
         \A i \in 1 .. n : found[i - 1] <= found[i],
         NEW i \in 0 .. n, NEW j \in 0 .. n, i <= j
  PROVE  found[i] <= found[j]
<1> DEFINE T == {l \in i .. n : ~(found[i] <= found[l])}
<1>1. T \in SUBSET Nat
  OBVIOUS
<1>2. T = {}
  <2> SUFFICES ASSUME T # {} PROVE FALSE
    OBVIOUS
  <2>1. PICK x \in T : \A y \in T : x <= y
    <3> HIDE DEF T
    <3> QED BY <1>1, LeastNat
  <2>2. x \in i .. n /\ ~(found[i] <= found[x])
    OBVIOUS
  <2>3. found[i] \in Nat /\ x # i
    BY <2>2
  <2>4. x - 1 \in i .. n /\ x - 1 \notin T /\ x \in 1 .. n /\ x - 1 \in 0 .. n
    BY <2>1, <2>2, <2>3
  <2>5. found[i] <= found[x - 1] /\ found[x - 1] <= found[x]
    BY <2>4
  <2>6. found[x] \in Nat /\ found[x - 1] \in Nat
    BY <2>4
  <2> QED BY <2>2, <2>3, <2>5, <2>6
<1>3. j \in i .. n
  OBVIOUS
<1>4. j \notin T
  BY <1>2
<1> QED BY <1>3, <1>4

\* How many letters of q the greedy scan has found after each letter of t.
Found(q, t, found) ==
  /\ found \in [0 .. Len(t) -> 0 .. Len(q)]
  /\ found[0] = 0
  /\ \A i \in 1 .. Len(t) :
       found[i] = IF found[i - 1] = Len(q) \/ t[i] # q[found[i - 1] + 1]
                  THEN found[i - 1] ELSE found[i - 1] + 1

LEMMA FoundGrows ==
  ASSUME NEW q, Len(q) \in Nat, NEW t, Len(t) \in Nat, NEW found, Found(q, t, found),
         NEW i \in 0 .. Len(t), NEW j \in 0 .. Len(t), i <= j
  PROVE  found[i] <= found[j]
<1>1. found \in [0 .. Len(t) -> Nat]
  BY DEF Found
<1>2. \A k \in 1 .. Len(t) : found[k - 1] <= found[k]
  <2> TAKE k \in 1 .. Len(t)
  <2>1. k - 1 \in 0 .. Len(t)
    OBVIOUS
  <2>2. found[k - 1] \in Nat
    BY <1>1, <2>1
  <2>3. found[k] = found[k - 1] \/ found[k] = found[k - 1] + 1
    BY DEF Found
  <2> QED BY <2>2, <2>3
<1> QED BY <1>1, <1>2, Grows

\* Where the letters are found is where they occur in their order.
LEMMA FoundOccurs ==
  ASSUME NEW q, IsList(q), NEW t, IsList(t), NEW found, Found(q, t, found),
         found[Len(t)] = Len(q)
  PROVE  Subsequence(q, t)
<1> DEFINE n == Len(t)
           At(k) == {i \in 1 .. n : found[i] = k /\ found[i - 1] = k - 1}
           at == [k \in DOMAIN q |-> CHOOSE i \in At(k) : TRUE]
<1>1. n \in Nat /\ DOMAIN t = 1 .. n /\ Len(q) \in Nat /\ DOMAIN q = 1 .. Len(q)
  BY ListFacts
<1>2. /\ found \in [0 .. n -> 0 .. Len(q)] /\ found[0] = 0
      /\ \A i \in 1 .. n :
           found[i] = IF found[i - 1] = Len(q) \/ t[i] # q[found[i - 1] + 1]
                      THEN found[i - 1] ELSE found[i - 1] + 1
  BY DEF Found
<1>3. ASSUME NEW k \in DOMAIN q PROVE at[k] \in At(k)
  <2> DEFINE T == {i \in 0 .. n : k <= found[i]}
  <2>1. n \in T
    BY <1>1, <1>2
  <2>2. T \in SUBSET Nat
    BY <1>1
  <2>3. PICK x \in T : \A y \in T : x <= y
    <3> HIDE DEF T
    <3> QED BY <2>1, <2>2, LeastNat
  <2>4. x \in 0 .. n /\ k <= found[x] /\ k \in Nat /\ k > 0
    BY <1>1
  <2>5. x # 0
    BY <1>2, <2>4
  <2>6. x \in 1 .. n /\ x - 1 \in 0 .. n /\ x - 1 \notin T
    BY <1>1, <2>3, <2>4, <2>5
  <2>7. found[x] \in Nat /\ found[x - 1] \in Nat /\ ~(k <= found[x - 1])
    BY <1>2, <2>6
  <2>8. found[x] = found[x - 1] \/ found[x] = found[x - 1] + 1
    BY <1>2, <2>6
  <2>9. found[x] = k /\ found[x - 1] = k - 1
    BY <2>4, <2>7, <2>8
  <2>10. x \in At(k)
    BY <2>6, <2>9
  <2> HIDE DEF At
  <2> QED BY <2>10
<1>4. ASSUME NEW k \in DOMAIN q
      PROVE  /\ at[k] \in 1 .. n /\ found[at[k]] = k /\ found[at[k] - 1] = k - 1
             /\ t[at[k]] = q[k]
  <2>1. at[k] \in 1 .. n /\ found[at[k]] = k /\ found[at[k] - 1] = k - 1
    BY <1>3
  <2> HIDE DEF at
  <2>2. k \in Nat
    BY <1>1
  <2>3. found[at[k]] # found[at[k] - 1]
    BY <2>1, <2>2
  <2>4. t[at[k]] = q[found[at[k] - 1] + 1]
    BY <1>2, <2>1, <2>3
  <2>5. (k - 1) + 1 = k
    BY <2>2
  <2> QED BY <2>1, <2>4, <2>5
<1>5. at \in [DOMAIN q -> DOMAIN t]
  <2>1. \A k \in DOMAIN q : at[k] \in DOMAIN t
    BY <1>1, <1>4
  <2> QED BY <2>1
<1> HIDE DEF at
<1>6. ASSUME NEW k \in DOMAIN q, k > 1 PROVE at[k - 1] < at[k]
  <2>1. k - 1 \in DOMAIN q /\ k \in Nat
    BY <1>1, <1>6
  <2>2. /\ at[k - 1] \in 0 .. n /\ found[at[k - 1]] = k - 1
        /\ at[k] \in 0 .. n /\ found[at[k]] = k
    BY <1>4, <2>1
  <2>3. at[k] <= at[k - 1] => found[at[k]] <= found[at[k - 1]]
    BY <1>1, <2>2, FoundGrows
  <2> QED BY <1>1, <2>1, <2>2, <2>3
<1> QED BY <1>4, <1>5, <1>6 DEF Subsequence

\* Letters that occur in their order are found, each where it occurs or before.
LEMMA OccursFound ==
  ASSUME NEW q, IsList(q), NEW t, IsList(t), NEW found, Found(q, t, found), Subsequence(q, t)
  PROVE  found[Len(t)] = Len(q)
<1> DEFINE n == Len(t)
<1>1. n \in Nat /\ DOMAIN t = 1 .. n /\ Len(q) \in Nat /\ DOMAIN q = 1 .. Len(q)
  BY ListFacts
<1>2. /\ found \in [0 .. n -> 0 .. Len(q)] /\ found[0] = 0
      /\ \A i \in 1 .. n :
           found[i] = IF found[i - 1] = Len(q) \/ t[i] # q[found[i - 1] + 1]
                      THEN found[i - 1] ELSE found[i - 1] + 1
  BY DEF Found
<1>3. PICK at \in [DOMAIN q -> DOMAIN t] :
        \A i \in DOMAIN q : t[at[i]] = q[i] /\ (i > 1 => at[i - 1] < at[i])
  BY DEF Subsequence
<1> DEFINE T == {k \in 1 .. Len(q) : ~(k <= found[at[k]])}
<1>4. T = {}
  <2> SUFFICES ASSUME T # {} PROVE FALSE
    OBVIOUS
  <2>1. PICK k \in T : \A y \in T : k <= y
    <3>1. T \in SUBSET Nat
      BY <1>1
    <3> HIDE DEF T
    <3> QED BY <3>1, LeastNat
  <2>2. k \in 1 .. Len(q) /\ ~(k <= found[at[k]])
    OBVIOUS
  <2>3. at[k] \in 1 .. n /\ at[k] \in 0 .. n /\ at[k] - 1 \in 0 .. n
    BY <1>1, <1>3, <2>2
  <2>4. found[at[k]] \in Nat /\ found[at[k] - 1] \in Nat
    BY <1>2, <2>3
  <2>5. k - 1 <= found[at[k] - 1]
    <3>1. CASE k = 1
      BY <2>4, <3>1
    <3>2. CASE k # 1
      <4>1. k - 1 \in 1 .. Len(q) /\ k - 1 \notin T /\ k > 1 /\ k \in DOMAIN q /\ k - 1 \in DOMAIN q
        BY <1>1, <2>1, <2>2, <3>2
      <4>2. k - 1 <= found[at[k - 1]]
        BY <4>1
      <4>3. at[k - 1] < at[k] /\ at[k - 1] \in 1 .. n
        BY <1>1, <1>3, <4>1
      <4>4. at[k - 1] <= at[k] - 1 /\ at[k - 1] \in 0 .. n
        BY <1>1, <2>3, <4>3
      <4>5. found[at[k - 1]] <= found[at[k] - 1]
        BY <1>1, <2>3, <4>4, FoundGrows
      <4>6. found[at[k - 1]] \in Nat
        BY <1>2, <4>4
      <4> QED BY <2>2, <2>4, <4>2, <4>5, <4>6
    <3> QED BY <3>1, <3>2
  <2>6. found[at[k]] = found[at[k] - 1] \/ found[at[k]] = found[at[k] - 1] + 1
    BY <1>2, <2>3
  <2>7. found[at[k]] = found[at[k] - 1] /\ found[at[k] - 1] = k - 1 /\ k - 1 # Len(q)
    BY <1>1, <2>2, <2>4, <2>5, <2>6
  <2>8. t[at[k]] = q[k] /\ (k - 1) + 1 = k
    BY <1>1, <1>3, <2>2
  <2>9. found[at[k]] = found[at[k] - 1] + 1
    BY <1>2, <2>3, <2>7, <2>8
  <2> QED BY <2>4, <2>7, <2>9
<1>5. CASE Len(q) = 0
  <2>1. found[n] \in 0 .. Len(q)
    BY <1>1, <1>2
  <2> QED BY <1>5, <2>1
<1>6. CASE Len(q) # 0
  <2>1. Len(q) \in 1 .. Len(q) /\ Len(q) \notin T /\ Len(q) \in DOMAIN q
    BY <1>1, <1>4, <1>6
  <2>2. Len(q) <= found[at[Len(q)]] /\ at[Len(q)] \in 1 .. n
    BY <1>1, <1>3, <2>1
  <2>3. at[Len(q)] \in 0 .. n /\ n \in 0 .. n /\ at[Len(q)] <= n
    BY <1>1, <2>2
  <2>4. found[at[Len(q)]] <= found[n]
    BY <1>1, <2>3, FoundGrows
  <2>5. found[n] \in 0 .. Len(q) /\ found[at[Len(q)]] \in 0 .. Len(q)
    BY <1>2, <2>3
  <2> QED BY <1>1, <2>2, <2>4, <2>5
<1> QED BY <1>5, <1>6

\* fuzzyMatch finds the letters exactly when they occur in their order.
LEMMA FuzzyFinds ==
  ASSUME NEW q, IsList(q), NEW t, IsList(t)
  PROVE  /\ Fuzzy(q, t).matches <=> Subsequence(q, t)
         /\ Fuzzy(q, t).score \in Int
<1>1. Len(q) \in Nat /\ Len(t) \in Nat
  BY ListFacts
<1>2. PICK scan :
        /\ scan[0] = Unscanned
        /\ \A i \in 0 .. Len(t) : scan[i] \in ScanStates(q)
        /\ \A i \in 1 .. Len(t) : scan[i] = Scanned(q, t, scan[i - 1], i)
        /\ Fuzzy(q, t) = Judged(q, scan[Len(t)])
  BY <1>1, Scan
<1> DEFINE found == [i \in 0 .. Len(t) |-> scan[i].found]
<1>3. Found(q, t, found)
  <2>1. \A i \in 0 .. Len(t) : scan[i].found \in 0 .. Len(q)
    BY <1>2 DEF ScanStates
  <2>2. found \in [0 .. Len(t) -> 0 .. Len(q)]
    BY <2>1
  <2>3. found[0] = 0
    BY <1>1, <1>2 DEF Unscanned
  <2>4. ASSUME NEW i \in 1 .. Len(t)
        PROVE  found[i] = IF found[i - 1] = Len(q) \/ t[i] # q[found[i - 1] + 1]
                          THEN found[i - 1] ELSE found[i - 1] + 1
    <3>1. i - 1 \in 0 .. Len(t) /\ i \in 0 .. Len(t) /\ i \in Nat
      BY <1>1
    <3>2. scan[i - 1] \in ScanStates(q) /\ scan[i] = Scanned(q, t, scan[i - 1], i)
      BY <1>2, <3>1
    <3>3. scan[i].found = IF scan[i - 1].found = Len(q) \/ t[i] # q[scan[i - 1].found + 1]
                          THEN scan[i - 1].found ELSE scan[i - 1].found + 1
      <4>1. ASSUME NEW st \in ScanStates(q)
            PROVE  Scanned(q, t, st, i).found =
                     IF st.found = Len(q) \/ t[i] # q[st.found + 1] THEN st.found ELSE st.found + 1
        BY <1>1, <3>1, ScanStep
      <4> QED BY <3>2, <4>1
    <3>4. found[i] = scan[i].found /\ found[i - 1] = scan[i - 1].found
      BY <3>1
    <3> QED BY <3>3, <3>4
  <2> HIDE DEF found
  <2> QED BY <2>2, <2>3, <2>4 DEF Found
<1>4. Len(t) \in 0 .. Len(t) /\ found[Len(t)] = scan[Len(t)].found
  BY <1>1
<1>5. Fuzzy(q, t).matches <=> found[Len(t)] = Len(q)
  <2>1. Judged(q, scan[Len(t)]).matches <=> scan[Len(t)].found = Len(q)
    BY DEF Judged
  <2> HIDE DEF found
  <2> QED BY <1>2, <1>4, <2>1
<1>6. Fuzzy(q, t).score \in Int
  <2>1. scan[Len(t)].score \in Nat /\ scan[Len(t)].first \in Nat
    BY <1>2, <1>4 DEF ScanStates
  <2>2. EarlyBonus - (scan[Len(t)].first - 1) \in Int
    BY <2>1 DEF EarlyBonus
  <2>3. Judged(q, scan[Len(t)]).score \in Int
    BY <2>1, <2>2 DEF Judged
  <2> QED BY <1>2, <2>3
<1> HIDE DEF found
<1>7. found[Len(t)] = Len(q) <=> Subsequence(q, t)
  BY <1>3, FoundOccurs, OccursFound
<1> QED BY <1>5, <1>6, <1>7

(********************** what is left of a filtered list ********************)

LEMMA MatchingHolds ==
  ASSUME NEW es, IsList(es), NEW filter
  PROVE  /\ IsList(Matching(es, filter))
         /\ Items(Matching(es, filter)) \subseteq Items(es)
<1> DEFINE T == {i \in DOMAIN es : Fuzzy(Trimmed(filter), es[i].text).matches}
           none == [i \in T |-> 0]
<1>1. T \in SUBSET (DOMAIN es) /\ \A i \in T : none[i] \in Int
  OBVIOUS
<1>2. Matching(es, filter) = Picked(es, InOrder(T, none))
  BY DEF Matching, Ascending
<1> HIDE DEF T, none
<1>3. /\ IsList(Picked(es, InOrder(T, none)))
      /\ Items(Picked(es, InOrder(T, none))) = ItemsAt(es, T)
  BY <1>1, PickedInOrder
<1>4. ItemsAt(es, T) \subseteq Items(es)
  BY <1>1 DEF Items, ItemsAt
<1> QED BY <1>2, <1>3, <1>4

LEMMA NothingOccurs ==
  ASSUME NEW t
  PROVE  Subsequence(<<>>, t)
<1> DEFINE at == [i \in {} |-> 0]
<1>1. DOMAIN <<>> = {}
  OBVIOUS
<1>2. at \in [DOMAIN <<>> -> DOMAIN t]
  BY <1>1
<1> QED BY <1>1, <1>2 DEF Subsequence

\* Ranking keeps the entries in which the letters occur in their order, and no other.
LEMMA RankedHolds ==
  ASSUME NEW es, IsList(es), \A i \in DOMAIN es : IsList(es[i].text),
         NEW filter, IsList(filter)
  PROVE  /\ IsList(Ranked(es, filter))
         /\ Items(Ranked(es, filter)) = {e \in Items(es) : Subsequence(Trimmed(filter), e.text)}
<1> DEFINE q == Trimmed(filter)
<1>1. IsList(q)
  BY TrimmedIsList
<1>2. CASE q = <<>>
  <2>1. Ranked(es, filter) = es
    BY <1>2 DEF Ranked
  <2>2. \A e \in Items(es) : Subsequence(q, e.text)
    BY <1>2, NothingOccurs
  <2>3. Items(es) = {e \in Items(es) : Subsequence(q, e.text)}
    BY <2>2
  <2> QED BY <2>1, <2>3
<1>3. CASE q # <<>>
  <2> DEFINE scans == [i \in DOMAIN es |-> Fuzzy(q, es[i].text)]
             T == {i \in DOMAIN scans : scans[i].matches}
             weight == [i \in DOMAIN scans |-> -scans[i].score]
  <2>1. Ranked(es, filter) = Picked(es, InOrder(T, weight))
    BY <1>3 DEF Ranked, BestFirst
  <2> HIDE DEF q
  <2>2. ASSUME NEW i \in DOMAIN es
        PROVE  (Fuzzy(q, es[i].text).matches <=> Subsequence(q, es[i].text))
               /\ Fuzzy(q, es[i].text).score \in Int
    BY <1>1, FuzzyFinds
  <2>3. T = {i \in DOMAIN es : Subsequence(q, es[i].text)}
    BY <2>2
  <2>4. T \in SUBSET (DOMAIN es)
    OBVIOUS
  <2>5. \A i \in T : weight[i] \in Int
    <3> TAKE i \in T
    <3>1. i \in DOMAIN es /\ weight[i] = -Fuzzy(q, es[i].text).score
      OBVIOUS
    <3> HIDE DEF weight, T
    <3> QED BY <2>2, <3>1
  <2> HIDE DEF T, weight
  <2>6. /\ IsList(Picked(es, InOrder(T, weight)))
        /\ Items(Picked(es, InOrder(T, weight))) = ItemsAt(es, T)
    BY <2>4, <2>5, PickedInOrder
  <2>7. ItemsAt(es, T) = {e \in Items(es) : Subsequence(q, e.text)}
    BY <2>3 DEF Items, ItemsAt
  <2> QED BY <2>1, <2>6, <2>7 DEF q
<1> QED BY <1>2, <1>3

\* The last of the Statements that are equal but for their blanks.
Newest(h) == {i \in DOMAIN h : \A j \in i + 1 .. Len(h) : Squeezed(h[j]) # Squeezed(h[i])}

LEMMA NewestFirstHolds ==
  ASSUME NEW h, IsList(h)
  PROVE  /\ IsList(NewestFirst(h))
         /\ Items(NewestFirst(h)) = {[text |-> h[i]] : i \in Newest(h)}
<1> DEFINE es == [i \in DOMAIN h |-> [text |-> h[i]]]
           weight == [i \in Newest(h) |-> -i]
<1>1. DOMAIN h = 1 .. Len(h) /\ Len(h) \in Nat
  BY ListFacts
<1>2. IsList(es) /\ DOMAIN es = DOMAIN h
  <2>1. es \in [1 .. Len(h) -> {[text |-> h[i]] : i \in DOMAIN h}]
    BY <1>1
  <2> HIDE DEF es
  <2> QED BY <1>1, <2>1, ListOf
<1>3. Newest(h) \in SUBSET (DOMAIN es)
  BY <1>2 DEF Newest
<1>4. \A i \in Newest(h) : weight[i] \in Int
  BY <1>1, <1>2, <1>3
<1>5. /\ Cardinality(Newest(h)) \in Nat
      /\ InOrder(Newest(h), weight) \in [1 .. Cardinality(Newest(h)) -> Newest(h)]
  <2>1. Newest(h) \subseteq Int
    BY <1>1, <1>2, <1>3
  <2>2. IsFiniteSet(Newest(h))
    <3>1. IsFiniteSet(DOMAIN h) /\ Newest(h) \in SUBSET (DOMAIN h)
      BY ListFacts DEF Newest
    <3> QED BY <3>1, FS_Subset
  <2> HIDE DEF weight
  <2> QED BY <1>4, <2>1, <2>2, InOrderLists
<1>6. NewestFirst(h) = Picked(es, InOrder(Newest(h), weight))
  <2> DEFINE order == InOrder(Newest(h), weight)
  <2>1. NewestFirst(h) = [k \in DOMAIN order |-> [text |-> h[order[k]]]]
    BY DEF NewestFirst, Newest
  <2>2. \A k \in DOMAIN order : es[order[k]] = [text |-> h[order[k]]]
    <3> HIDE DEF weight
    <3> QED BY <1>3, <1>5
  <2> HIDE DEF order, es
  <2>3. Picked(es, order) = [k \in DOMAIN order |-> es[order[k]]]
    BY DEF Picked
  <2> QED BY <2>1, <2>2, <2>3 DEF order
<1>7. /\ IsList(Picked(es, InOrder(Newest(h), weight)))
      /\ Items(Picked(es, InOrder(Newest(h), weight))) = ItemsAt(es, Newest(h))
  <2> HIDE DEF es, weight
  <2> QED BY <1>2, <1>3, <1>4, PickedInOrder
<1>8. ItemsAt(es, Newest(h)) = {[text |-> h[i]] : i \in Newest(h)}
  BY <1>3 DEF ItemsAt
<1> HIDE DEF es, weight
<1> QED BY <1>6, <1>7, <1>8

(****************************** types of a modal ***************************)

Kinds == {"picker", "history", "help", "export", "wizard"}
StepsOf(kind) ==
  IF kind = "wizard" THEN {"command", "target", "column"}
  ELSE IF kind = "export" THEN {"list", "path"} ELSE {"list"}

ColumnTexts == UNION {Items(Columns[Tables[i].text]) : i \in DOMAIN Tables}
Offered == [text : ColumnTexts, ticked : BOOLEAN]

ModalTypes ==
  [kind : Kinds, step : ModalSteps, filter : Seq(Letters),
   at : [ModalSteps -> Nat], top : [ModalSteps -> Nat],
   targets : {<<>>, Tables}, columns : Seq(Offered), direct : BOOLEAN]

\* The table the wizard has chosen among those the filter leaves.
Target(m) ==
  LET hits == Ranked(m.targets, m.filter)
  IN hits[Clamped(m.at["target"], Len(hits)) + 1]

\* The wizard lists tables and columns in the steps that come after the choice of a command and
\* of a table, the columns are those of the table chosen.
WizardInv(m) ==
  /\ m.targets = IF m.step = "command" THEN <<>> ELSE Tables
  /\ m.step = "command" => ~m.direct
  /\ m.step # "column" => m.columns = <<>>
  /\ m.step = "column" =>
       [i \in DOMAIN m.columns |-> m.columns[i].text] = Columns[Target(m).text]

ModalInv(m) ==
  /\ m \in ModalTypes
  /\ m.step \in StepsOf(m.kind)
  /\ m.kind = "wizard" => WizardInv(m)

ListsInv ==
  /\ modal # None => ModalInv(modal)
  /\ history \in Seq(Completing)
  /\ width \in Widths

LEMMA TickedFacts ==
  ASSUME NEW cols \in Seq(Offered)
  PROVE  Len(TickedOf(cols)) = Len(cols) <=> \A i \in DOMAIN cols : cols[i].ticked
<1> DEFINE T == {i \in DOMAIN cols : cols[i].ticked}
           none == [i \in T |-> 0]
           p == Picked(cols, InOrder(T, none))
<1>1. IsList(cols)
  BY SeqIsList
<1>2. T \in SUBSET (DOMAIN cols) /\ \A i \in T : none[i] \in Int
  OBVIOUS
<1>3. TickedOf(cols) = [i \in DOMAIN p |-> p[i].text]
  BY DEF TickedOf, Ascending
<1>4. T = DOMAIN cols <=> \A i \in DOMAIN cols : cols[i].ticked
  OBVIOUS
<1> HIDE DEF T, none
<1>5. IsList(p) /\ (Len(p) = Len(cols) <=> T = DOMAIN cols)
  BY <1>1, <1>2, PickedInOrder
<1> HIDE DEF p
<1>6. Len(p) \in Nat /\ DOMAIN p = 1 .. Len(p)
  BY <1>5, ListFacts
<1>7. Len(TickedOf(cols)) = Len(p)
  <2> DEFINE S == {p[i].text : i \in DOMAIN p}
             r == [i \in DOMAIN p |-> p[i].text]
  <2>1. r \in [1 .. Len(p) -> S]
    BY <1>6
  <2> HIDE DEF r, S
  <2>2. Len(r) = Len(p)
    BY <1>6, <2>1, ListOf
  <2> QED BY <1>3, <2>2 DEF r
<1> QED BY <1>4, <1>5, <1>7

\* What each step lists.
LEMMA EntriesOf ==
  ASSUME NEW m, NEW s \in StepsOf(m.kind)
  PROVE  /\ m.kind = "picker" =>
              Entries(m, s) = Append(Matching(Connections, m.filter), Create)
         /\ m.kind = "history" => Entries(m, s) = Ranked(NewestFirst(history), m.filter)
         /\ m.kind = "help" => Entries(m, s) = Ranked(HelpRows, m.filter)
         /\ m.kind = "export" =>
              Entries(m, s) = IF s = "list" THEN Matching(Formats, m.filter) ELSE <<>>
         /\ m.kind = "wizard" /\ s = "command" => Entries(m, s) = Commands
         /\ m.kind = "wizard" /\ s = "target" => Entries(m, s) = Ranked(m.targets, m.filter)
         /\ m.kind = "wizard" /\ s = "column" => Entries(m, s) = m.columns
BY DEF Entries, StepsOf

LEMMA EntriesAreLists ==
  ASSUME NEW m \in ModalTypes, NEW s \in StepsOf(m.kind), history \in Seq(Completing)
  PROVE  /\ IsList(Entries(m, s))
         /\ m.kind = "wizard" /\ s = "target" => Items(Entries(m, s)) \subseteq Items(m.targets)
         /\ m.kind = "history" => \A e \in Items(Entries(m, s)) : IsList(e.text)
<1>1. m.kind \in Kinds /\ m.filter \in Seq(Letters) /\ m.targets \in {<<>>, Tables}
      /\ m.columns \in Seq(Offered)
  BY DEF ModalTypes
<1>2. IsList(m.filter) /\ IsList(m.columns)
  BY <1>1, SeqIsList
<1>3. IsList(<<>>)
  <2>1. <<>> \in Seq({})
    OBVIOUS
  <2> QED BY <2>1, SeqIsList
<1>4. CASE m.kind = "picker"
  <2> DEFINE es == Matching(Connections, m.filter)
  <2>1. IsList(es)
    BY MatchingHolds, ListModalsAssumptions
  <2>2. Entries(m, s) = Append(es, Create)
    BY <1>4, EntriesOf
  <2> HIDE DEF es
  <2>3. Append(es, Create) \in Seq(Items(es) \cup {Create})
    BY <2>1 DEF IsList
  <2>4. IsList(Append(es, Create))
    BY <2>3, SeqIsList
  <2> QED BY <1>4, <2>2, <2>4
<1>5. CASE m.kind = "history"
  <2>1. IsList(history)
    BY SeqIsList
  <2>2. IsList(NewestFirst(history))
        /\ Items(NewestFirst(history)) = {[text |-> history[i]] : i \in Newest(history)}
    BY <2>1, NewestFirstHolds
  <2>3. \A i \in Newest(history) : IsList(history[i])
    <3>1. \A i \in DOMAIN history : history[i] \in Completing
      OBVIOUS
    <3> QED BY <3>1, ListModalsAssumptions DEF Newest
  <2>4. \A e \in Items(NewestFirst(history)) : IsList(e.text)
    BY <2>2, <2>3
  <2>5. \A i \in DOMAIN NewestFirst(history) : IsList(NewestFirst(history)[i].text)
    BY <2>4 DEF Items
  <2>6. IsList(Ranked(NewestFirst(history), m.filter))
        /\ Items(Ranked(NewestFirst(history), m.filter)) \subseteq Items(NewestFirst(history))
    BY <1>2, <2>2, <2>5, RankedHolds
  <2>7. Entries(m, s) = Ranked(NewestFirst(history), m.filter)
    BY <1>5, EntriesOf
  <2> QED BY <1>5, <2>4, <2>6, <2>7
<1>6. CASE m.kind = "help"
  <2>1. Entries(m, s) = Ranked(HelpRows, m.filter)
    BY <1>6, EntriesOf
  <2>2. IsList(Ranked(HelpRows, m.filter))
    BY <1>2, RankedHolds, ListModalsAssumptions
  <2> QED BY <1>6, <2>1, <2>2
<1>7. CASE m.kind = "export"
  <2>1. Entries(m, s) = IF s = "list" THEN Matching(Formats, m.filter) ELSE <<>>
    BY <1>7, EntriesOf
  <2>2. IsList(Matching(Formats, m.filter))
    BY MatchingHolds, ListModalsAssumptions
  <2> QED BY <1>3, <1>7, <2>1, <2>2
<1>8. CASE m.kind = "wizard"
  <2>1. s \in {"command", "target", "column"}
    BY <1>8 DEF StepsOf
  <2>2. CASE s = "command"
    <3>1. Entries(m, s) = Commands
      BY <1>8, <2>2, EntriesOf
    <3> QED BY <1>8, <2>2, <3>1, ListModalsAssumptions
  <2>3. CASE s = "target"
    <3>1. Entries(m, s) = Ranked(m.targets, m.filter)
      BY <1>8, <2>3, EntriesOf
    <3>2. IsList(m.targets) /\ \A i \in DOMAIN m.targets : IsList(m.targets[i].text)
      <4>1. DOMAIN <<>> = {}
        OBVIOUS
      <4> QED BY <1>1, <1>3, <4>1, ListModalsAssumptions
    <3>3. IsList(Ranked(m.targets, m.filter))
          /\ Items(Ranked(m.targets, m.filter)) \subseteq Items(m.targets)
      BY <1>2, <3>2, RankedHolds
    <3> QED BY <1>8, <3>1, <3>3
  <2>4. CASE s = "column"
    <3>1. Entries(m, s) = m.columns
      BY <1>8, <2>4, EntriesOf
    <3> QED BY <1>2, <1>8, <2>4, <3>1
  <2> QED BY <2>1, <2>2, <2>3, <2>4
<1> QED BY <1>1, <1>4, <1>5, <1>6, <1>7, <1>8 DEF Kinds

(*************************** rows and the viewport *************************)

LEMMA RowsRange ==
  ASSUME NEW m, NEW e, m.kind = "history" => IsList(e.text), NEW w \in Nat \ {0}
  PROVE  Rows(m, e, w) \in 1 .. SplitRows
<1>1. SplitRows \in Nat /\ SplitRows > 2
  BY ListModalsAssumptions
<1>2. CASE m.kind # "history"
  BY <1>1, <1>2 DEF Rows
<1>3. CASE m.kind = "history"
  <2> DEFINE wrapped == (Len(Squeezed(e.text)) + w - 1) \div w
  <2>1. Len(Squeezed(e.text)) \in Nat
    BY <1>3, SqueezedIsList
  <2>2. wrapped \in Nat
    BY <2>1
  <2>3. Rows(m, e, w) = IF wrapped > SplitRows THEN SplitRows ELSE IF wrapped = 0 THEN 1 ELSE wrapped
    BY <1>3 DEF Rows
  <2> HIDE DEF wrapped
  <2> QED BY <1>1, <2>2, <2>3
<1> QED BY <1>2, <1>3

LEMMA StartRowType ==
  ASSUME NEW m, NEW es, NEW k \in Nat, NEW w
  PROVE  /\ StartRow(m, es, k, w) \in Nat
         /\ k <= 1 => StartRow(m, es, k, w) = 0
<1> DEFINE grid == (1 .. k - 1) \X (1 .. SplitRows)
           S == {c \in grid : c[2] <= Rows(m, es[c[1]], w)}
<1>1. SplitRows \in Nat
  BY ListModalsAssumptions
<1>2. IsFiniteSet(1 .. k - 1) /\ IsFiniteSet(1 .. SplitRows)
  <2>1. 1 \in Int /\ k - 1 \in Int /\ SplitRows \in Int
    BY <1>1
  <2> QED BY <2>1, FS_Interval
<1>3. IsFiniteSet(grid)
  BY <1>2, FS_Product
<1>4. S \in SUBSET grid
  OBVIOUS
<1>5. StartRow(m, es, k, w) = Cardinality(S)
  BY DEF StartRow
<1>6. k <= 1 => S = {}
  <2> SUFFICES ASSUME k <= 1 PROVE S = {}
    OBVIOUS
  <2>1. 1 .. k - 1 = {}
    OBVIOUS
  <2>2. grid = {}
    BY <2>1
  <2> QED BY <1>4, <2>2
<1> HIDE DEF S, grid
<1>7. IsFiniteSet(S) /\ Cardinality(S) \in Nat
  BY <1>3, <1>4, FS_Subset, FS_CardinalityType
<1> QED BY <1>5, <1>6, <1>7, FS_EmptySet

LEMMA ModalFields ==
  ASSUME NEW m \in ModalTypes
  PROVE  /\ m.kind \in Kinds /\ m.step \in ModalSteps /\ m.filter \in Seq(Letters)
         /\ m.at \in [ModalSteps -> Nat] /\ m.top \in [ModalSteps -> Nat]
         /\ m.targets \in {<<>>, Tables} /\ m.columns \in Seq(Offered)
         /\ m.direct \in BOOLEAN
         /\ m.at[m.step] \in Nat /\ m.top[m.step] \in Nat
BY DEF ModalTypes

LEMMA HighlightedRange ==
  ASSUME NEW m, m.at[m.step] \in Nat, NEW es, IsList(es), es # <<>>
  PROVE  Highlighted(m, es) \in 1 .. Len(es)
<1>1. Len(es) \in Nat /\ Len(es) # 0
  BY ListFacts
<1>2. CASE m.kind = "wizard"
  <2>1. Clamped(m.at[m.step], Len(es)) \in 0 .. Len(es) - 1
    BY <1>1 DEF Clamped
  <2> QED BY <1>1, <1>2, <2>1 DEF Highlighted, Resolved
<1>3. CASE m.kind # "wizard"
  <2>1. m.at[m.step] % Len(es) \in 0 .. Len(es) - 1
    BY <1>1
  <2> QED BY <1>1, <1>3, <2>1 DEF Highlighted, Resolved
<1> QED BY <1>2, <1>3

\* What is listed of which every entry has its rows.
Listed(m, es) == IsList(es) /\ (m.kind = "history" => \A e \in Items(es) : IsList(e.text))

LEMMA ScrollFacts ==
  ASSUME NEW m \in ModalTypes, NEW es, Listed(m, es), NEW k \in 1 .. Len(es),
         NEW w \in Nat \ {0}
  PROVE  /\ StartRow(m, es, k, w) \in Nat
         /\ Rows(m, es[k], w) \in 1 .. SplitRows
         /\ k = 1 => StartRow(m, es, k, w) = 0
<1>1. k \in Nat /\ k \in DOMAIN es /\ es[k] \in Items(es)
  BY ListFacts DEF Listed, Items
<1>2. Rows(m, es[k], w) \in 1 .. SplitRows
  BY <1>1, RowsRange DEF Listed
<1> QED BY <1>1, <1>2, StartRowType

LEMMA ListRowsRange ==
  ASSUME NEW m, m.step \in StepsOf(m.kind)
  PROVE  /\ m.kind # "wizard" => ListRows(m) = SplitRows /\ HeaderRows(m) = 0
         /\ m.kind = "wizard" /\ m.step \in {"command", "target", "column"}
              => HeaderRows(m) \in 1 .. 3 /\ ListRows(m) \in Nat \ {0}
         /\ BoxRows(m) \in Nat \ {0} /\ ListRows(m) = BoxRows(m) - HeaderRows(m)
<1>1. /\ SplitRows \in Nat /\ SplitRows > 2 /\ FixedRows \in Nat /\ FixedRows > 3
  BY ListModalsAssumptions
<1>2. BoxRows(m) = IF m.kind # "wizard" \/ m.step = "target" THEN SplitRows ELSE FixedRows
  BY DEF BoxRows
<1>3. m.kind # "wizard" => HeaderRows(m) = 0
  BY DEF HeaderRows, StepsOf
<1>4. m.kind = "wizard" /\ m.step = "command" => HeaderRows(m) = 1
  BY DEF HeaderRows
<1>5. m.kind = "wizard" /\ m.step = "target" => HeaderRows(m) \in {1, 2}
  BY DEF HeaderRows
<1>6. m.kind = "wizard" /\ m.step = "column" => HeaderRows(m) = 3
  BY DEF HeaderRows
<1>7. ListRows(m) = BoxRows(m) - HeaderRows(m)
  BY DEF ListRows
<1> QED BY <1>1, <1>2, <1>3, <1>4, <1>5, <1>6, <1>7

LEMMA LazyScrollType ==
  ASSUME NEW m \in ModalTypes, m.step \in StepsOf(m.kind), NEW es, Listed(m, es),
         NEW k \in 1 .. Len(es)
  PROVE  LazyScroll(m, es, k) \in Nat
<1> DEFINE from == StartRow(m, es, k, ContentWidth)
           rows == Rows(m, es[k], ContentWidth)
           top == m.top[m.step]
           most == ScrollRows(m)
<1>1. from \in Nat /\ rows \in 1 .. SplitRows /\ SplitRows \in Nat
  BY ScrollFacts, ListModalsAssumptions
<1>2. top \in Nat
  BY ModalFields
<1>3. most \in Nat
  <2>1. m.kind = "picker" => most = PickerRows
    BY DEF ScrollRows
  <2>2. m.kind # "picker" => most = ListRows(m)
    BY DEF ScrollRows
  <2>3. ListRows(m) \in Nat
    BY ListRowsRange, ListModalsAssumptions DEF StepsOf
  <2> QED BY <2>1, <2>2, <2>3, ListModalsAssumptions
<1>4. LazyScroll(m, es, k) = IF from < top THEN from
                             ELSE IF from + rows > top + most THEN (from + rows) - most ELSE top
  BY DEF LazyScroll
<1> HIDE DEF from, rows, top, most
<1> QED BY <1>1, <1>2, <1>3, <1>4

\* Moving changes the highlight and the viewport of the step that is shown, and nothing else.
Rolled(m, n) == \E i, t \in Nat : n = [m EXCEPT !.at[m.step] = i, !.top[m.step] = t]

LEMMA RolledTypes ==
  ASSUME NEW m \in ModalTypes, NEW n, Rolled(m, n)
  PROVE  /\ n \in ModalTypes
         /\ n.kind = m.kind /\ n.step = m.step /\ n.filter = m.filter
         /\ n.targets = m.targets /\ n.columns = m.columns /\ n.direct = m.direct
         /\ \A s \in ModalSteps \ {m.step} : n.at[s] = m.at[s] /\ n.top[s] = m.top[s]
<1>1. PICK i \in Nat, t \in Nat : n = [m EXCEPT !.at[m.step] = i, !.top[m.step] = t]
  BY DEF Rolled
<1>2. /\ n.kind = m.kind /\ n.step = m.step /\ n.filter = m.filter
      /\ n.targets = m.targets /\ n.columns = m.columns /\ n.direct = m.direct
      /\ n.at = [m.at EXCEPT ![m.step] = i] /\ n.top = [m.top EXCEPT ![m.step] = t]
  BY <1>1 DEF ModalTypes
<1>3. m.at \in [ModalSteps -> Nat] /\ m.top \in [ModalSteps -> Nat] /\ m.step \in ModalSteps
  BY DEF ModalTypes
<1>4. n.at \in [ModalSteps -> Nat] /\ n.top \in [ModalSteps -> Nat]
  BY <1>2, <1>3
<1>5. n \in ModalTypes
  <2>1. n = [m EXCEPT !.at = n.at, !.top = n.top]
    BY <1>1 DEF ModalTypes
  <2> QED BY <1>4, <2>1 DEF ModalTypes
<1>6. \A s \in ModalSteps \ {m.step} : n.at[s] = m.at[s] /\ n.top[s] = m.top[s]
  BY <1>2, <1>3
<1> QED BY <1>2, <1>5, <1>6

LEMMA NotRolled ==
  ASSUME NEW m \in ModalTypes
  PROVE  Rolled(m, m)
<1>1. m = [m EXCEPT !.at[m.step] = m.at[m.step], !.top[m.step] = m.top[m.step]]
  BY DEF ModalTypes
<1> QED BY <1>1, ModalFields DEF Rolled

LEMMA SelectedRolls ==
  ASSUME NEW m \in ModalTypes, NEW i \in Nat
  PROVE  Rolled(m, SelectedAt(m, i))
<1>1. SelectedAt(m, i) = [m EXCEPT !.at[m.step] = i, !.top[m.step] = m.top[m.step]]
  BY DEF ModalTypes, SelectedAt
<1> QED BY <1>1, ModalFields DEF Rolled

LEMMA ScrolledRolls ==
  ASSUME NEW m \in ModalTypes, m.step \in StepsOf(m.kind), NEW es, Listed(m, es), es # <<>>,
         NEW i \in Nat
  PROVE  Rolled(m, ScrolledTo(m, es, i))
<1> DEFINE sel == SelectedAt(m, i)
           t == LazyScroll(sel, es, Highlighted(sel, es))
<1>1. sel \in ModalTypes /\ sel.kind = m.kind /\ sel.step = m.step
  BY SelectedRolls, RolledTypes
<1>2. Highlighted(sel, es) \in 1 .. Len(es)
  <2>1. sel.at[sel.step] \in Nat
    BY <1>1, ModalFields
  <2> HIDE DEF sel
  <2> QED BY <2>1, HighlightedRange DEF Listed
<1>3. t \in Nat
  <2> HIDE DEF sel
  <2>1. Listed(sel, es)
    BY <1>1 DEF Listed
  <2> QED BY <1>1, <1>2, <2>1, LazyScrollType
<1>4. ScrolledTo(m, es, i) = [sel EXCEPT !.top[m.step] = t]
  BY DEF ScrolledTo
<1> HIDE DEF t
<1>5. [sel EXCEPT !.top[m.step] = t] = [m EXCEPT !.at[m.step] = i, !.top[m.step] = t]
  BY DEF SelectedAt, ModalTypes
<1> QED BY <1>3, <1>4, <1>5 DEF Rolled

LEMMA MovedRolls ==
  ASSUME NEW m \in ModalTypes, m.step \in StepsOf(m.kind), NEW es, Listed(m, es),
         NEW d \in {-1, 1}
  PROVE  Rolled(m, Moved(m, es, d)) /\ Rolled(m, Wheeled(m, es, d))
<1>1. CASE es = <<>>
  <2>1. Moved(m, es, d) = m /\ Wheeled(m, es, d) = m
    BY <1>1 DEF Moved, Wheeled
  <2> QED BY <2>1, NotRolled
<1>2. CASE es # <<>>
  <2>1. Len(es) \in Nat /\ Len(es) # 0
    BY <1>2, ListFacts DEF Listed
  <2>2. m.at[m.step] \in Nat
    BY ModalFields
  <2> DEFINE i == (m.at[m.step] + d) % Len(es)
             to == m.at[m.step] + d
             j == IF to < 0 THEN 0 ELSE Clamped(to, Len(es))
  <2>3. i \in Nat /\ j \in Nat
    <3>1. m.at[m.step] + d \in Int
      BY <2>2
    <3> QED BY <2>1, <3>1 DEF Clamped
  <2>4. Moved(m, es, d) = ScrolledTo(m, es, i) /\ Wheeled(m, es, d) = ScrolledTo(m, es, j)
    BY <1>2 DEF Moved, Wheeled
  <2> HIDE DEF i, j
  <2> QED BY <1>2, <2>3, <2>4, ScrolledRolls
<1> QED BY <1>1, <1>2

(**************************** what a modal becomes *************************)

\* The columns that are offered for a table are its own.
LEMMA ColumnsForTable ==
  ASSUME NEW t \in Items(Tables)
  PROVE  /\ ColumnsFor(t) \in Seq(Offered)
         /\ [i \in DOMAIN ColumnsFor(t) |-> ColumnsFor(t)[i].text] = Columns[t.text]
<1> DEFINE named == {i \in DOMAIN Tables : /\ Tables[i].name = t.name
                                           /\ t.space = None \/ Tables[i].space = t.space}
           first == CHOOSE i \in named : \A j \in named : i <= j
           names == Columns[Tables[first].text]
           cols == [i \in DOMAIN names |-> [text |-> names[i], ticked |-> TRUE]]
<1>1. IsList(Tables) /\ Len(Tables) \in Nat /\ DOMAIN Tables = 1 .. Len(Tables)
  BY ListModalsAssumptions, ListFacts
<1>2. PICK k \in DOMAIN Tables : Tables[k] = t
  BY DEF Items
<1>3. k \in named /\ named \in SUBSET Nat
  BY <1>1, <1>2
<1>4. first \in named
  <2> HIDE DEF named
  <2>1. \E i \in named : \A j \in named : i <= j
    BY <1>3, LeastNat
  <2> QED BY <2>1
<1>5. ColumnsFor(t) = cols
  BY DEF ColumnsFor
<1> HIDE DEF first
<1>6. first \in DOMAIN Tables /\ Tables[first].text = t.text
  <2>1. first \in DOMAIN Tables /\ Tables[k].name = Tables[first].name
        /\ Tables[k].space \in {None, Tables[first].space}
    BY <1>2, <1>4
  <2> QED BY <1>2, <2>1, ListModalsAssumptions
<1>7. IsList(names) /\ names = Columns[t.text]
  BY <1>6, ListModalsAssumptions
<1>8. \A i \in DOMAIN names : names[i] \in ColumnTexts
  BY <1>6 DEF ColumnTexts, Items
<1> HIDE DEF names
<1>9. Len(names) \in Nat /\ DOMAIN names = 1 .. Len(names)
  BY <1>7, ListFacts
<1>10. names = [i \in DOMAIN names |-> names[i]]
  BY <1>7 DEF IsList
<1>11. cols \in Seq(Offered)
  <2>1. cols \in [1 .. Len(names) -> Offered]
    BY <1>8, <1>9 DEF Offered
  <2> HIDE DEF cols
  <2> QED BY <1>9, <2>1
<1>12. [i \in DOMAIN cols |-> cols[i].text] = names
  BY <1>10
<1> QED BY <1>5, <1>7, <1>11, <1>12

LEMMA ChosenTarget ==
  ASSUME NEW m, m.kind = "wizard"
  PROVE  Chosen(m, "target") = Target(m)
<1>1. Entries(m, "target") = Ranked(m.targets, m.filter)
  BY EntriesOf DEF StepsOf
<1> QED BY <1>1 DEF Chosen, Under, Resolved, Target

\* The table a wizard has chosen is a table of the schema.
LEMMA ChosenIsTable ==
  ASSUME NEW m \in ModalTypes, m.kind = "wizard", history \in Seq(Completing),
         Entries(m, "target") # <<>>
  PROVE  Chosen(m, "target") \in Items(m.targets)
<1> DEFINE es == Entries(m, "target")
           i == Clamped(m.at["target"], Len(es)) + 1
<1>1. IsList(es) /\ Items(es) \subseteq Items(m.targets)
  BY EntriesAreLists DEF StepsOf
<1>2. Len(es) \in Nat /\ Len(es) # 0 /\ DOMAIN es = 1 .. Len(es)
  BY <1>1, ListFacts
<1>3. m.at["target"] \in Nat
  BY ModalFields DEF ModalSteps
<1>4. i \in DOMAIN es
  BY <1>2, <1>3 DEF Clamped
<1>5. Chosen(m, "target") = es[i]
  BY DEF Chosen, Under, Resolved
<1> QED BY <1>1, <1>4, <1>5 DEF Items

LEMMA FreshTypes ==
  ASSUME NEW kind \in Kinds, NEW step \in ModalSteps
  PROVE  /\ Fresh(kind, step) \in ModalTypes
         /\ Fresh(kind, step).kind = kind /\ Fresh(kind, step).step = step
         /\ Fresh(kind, step).filter = <<>>
         /\ Fresh(kind, step).targets = <<>> /\ Fresh(kind, step).columns = <<>>
         /\ Fresh(kind, step).direct = FALSE
         /\ \A s \in ModalSteps : Fresh(kind, step).at[s] = 0 /\ Fresh(kind, step).top[s] = 0
<1>1. <<>> \in Seq(Letters) /\ <<>> \in Seq(Offered)
  OBVIOUS
<1>2. [s \in ModalSteps |-> 0] \in [ModalSteps -> Nat]
  OBVIOUS
<1> QED BY <1>1, <1>2 DEF Fresh, ModalTypes

LEMMA FreshInv ==
  /\ \A kind \in Kinds \ {"wizard"} : ModalInv(Fresh(kind, "list"))
  /\ ModalInv(Fresh("wizard", "command"))
<1>1. \A kind \in Kinds : /\ kind # "wizard" => "list" \in StepsOf(kind)
                          /\ "list" \in ModalSteps /\ "command" \in ModalSteps
  BY DEF Kinds, StepsOf, ModalSteps
<1>2. "wizard" \in Kinds /\ "command" \in StepsOf("wizard")
  BY DEF Kinds, StepsOf
<1>3. \A kind \in Kinds \ {"wizard"} : ModalInv(Fresh(kind, "list"))
  BY <1>1, FreshTypes DEF ModalInv
<1>4. ModalInv(Fresh("wizard", "command"))
  <2> DEFINE f == Fresh("wizard", "command")
  <2>1. /\ f \in ModalTypes /\ f.kind = "wizard" /\ f.step = "command"
        /\ f.targets = <<>> /\ f.columns = <<>> /\ ~f.direct
    BY FreshTypes DEF Kinds, ModalSteps
  <2> HIDE DEF f
  <2> QED BY <1>2, <2>1 DEF f, ModalInv, WizardInv
<1> QED BY <1>3, <1>4

LEMMA DirectWizardInv ==
  ASSUME NEW c, \E j \in DOMAIN Commands : Commands[j].text = c
  PROVE  ModalInv(DirectWizard(c))
<1> DEFINE f == Fresh("wizard", "target")
           j == CHOOSE i \in DOMAIN Commands : Commands[i].text = c
           w == DirectWizard(c)
<1>1. f \in ModalTypes /\ f.kind = "wizard" /\ f.step = "target" /\ f.columns = <<>>
  BY FreshTypes DEF Kinds, ModalSteps
<1>2. j - 1 \in Nat
  <2>1. DOMAIN Commands = 1 .. Len(Commands) /\ Len(Commands) \in Nat
    BY ListModalsAssumptions, ListFacts
  <2>2. j \in DOMAIN Commands
    OBVIOUS
  <2> HIDE DEF j
  <2> QED BY <2>1, <2>2
<1>3. w = [f EXCEPT !.at["command"] = j - 1, !.targets = Tables, !.direct = TRUE]
  BY DEF DirectWizard
<1> HIDE DEF f, j, w
<1>4. /\ w.kind = "wizard" /\ w.step = "target" /\ w.columns = <<>> /\ w.targets = Tables
      /\ w \in ModalTypes
  BY <1>1, <1>2, <1>3 DEF ModalTypes
<1> QED BY <1>4 DEF w, ModalInv, WizardInv, StepsOf

LEMMA AtTargetsInv ==
  ASSUME NEW m \in ModalTypes
  PROVE  ModalInv(AtTargets(m))
<1> DEFINE f == Fresh("wizard", "target")
           w == AtTargets(m)
<1>1. f \in ModalTypes /\ f.kind = "wizard" /\ f.step = "target" /\ f.columns = <<>>
  BY FreshTypes DEF Kinds, ModalSteps
<1>2. m.at["command"] \in Nat /\ [m.top EXCEPT !["target"] = 0] \in [ModalSteps -> Nat]
  BY ModalFields DEF ModalSteps
<1>3. w = [f EXCEPT !.at["command"] = m.at["command"],
                    !.top = [m.top EXCEPT !["target"] = 0], !.targets = Tables]
  BY DEF AtTargets
<1> HIDE DEF f, w
<1>4. /\ w.kind = "wizard" /\ w.step = "target" /\ w.columns = <<>> /\ w.targets = Tables
      /\ w \in ModalTypes
  BY <1>1, <1>2, <1>3 DEF ModalTypes
<1> QED BY <1>4 DEF w, ModalInv, WizardInv, StepsOf

\* Going on to the columns, or staying among them, keeps the choice of the table.
LEMMA AtColumnsInv ==
  ASSUME NEW m, ModalInv(m), m.kind = "wizard", m.step = "target", history \in Seq(Completing),
         Entries(m, "target") # <<>>
  PROVE  ModalInv(AtColumns(m, Chosen(m, "target")))
<1> DEFINE t == Chosen(m, "target")
           w == AtColumns(m, t)
<1>1. m \in ModalTypes /\ m.targets = Tables
  BY DEF ModalInv, WizardInv
<1>2. t \in Items(Tables)
  BY <1>1, ChosenIsTable
<1>3. /\ ColumnsFor(t) \in Seq(Offered)
      /\ [i \in DOMAIN ColumnsFor(t) |-> ColumnsFor(t)[i].text] = Columns[t.text]
  BY <1>2, ColumnsForTable
<1>4. w = [m EXCEPT !.step = "column", !.columns = ColumnsFor(t),
                    !.at["column"] = 0, !.top["column"] = 0]
  BY DEF AtColumns
<1> HIDE DEF t, w
<1>5. /\ w \in ModalTypes
      /\ w.kind = "wizard" /\ w.step = "column" /\ w.columns = ColumnsFor(t)
      /\ w.targets = Tables /\ w.filter = m.filter /\ w.at["target"] = m.at["target"]
  <2>1. w \in ModalTypes
    BY <1>1, <1>3, <1>4 DEF ModalTypes, ModalSteps
  <2> QED BY <1>1, <1>4, <2>1 DEF ModalTypes, ModalSteps
<1>6. Target(w) = t
  <2>1. Target(w) = Target(m)
    BY <1>1, <1>5 DEF Target
  <2> QED BY <2>1, ChosenTarget DEF t
<1> QED BY <1>3, <1>5, <1>6 DEF w, t, ModalInv, WizardInv, StepsOf

LEMMA RolledInv ==
  ASSUME NEW m, ModalInv(m), NEW n, Rolled(m, n)
  PROVE  ModalInv(n)
<1>1. m \in ModalTypes /\ m.step \in StepsOf(m.kind)
  BY DEF ModalInv
<1>2. /\ n \in ModalTypes
      /\ n.kind = m.kind /\ n.step = m.step /\ n.filter = m.filter
      /\ n.targets = m.targets /\ n.columns = m.columns /\ n.direct = m.direct
      /\ \A s \in ModalSteps \ {m.step} : n.at[s] = m.at[s]
  BY <1>1, RolledTypes
<1>3. ASSUME m.kind = "wizard" PROVE WizardInv(n)
  <2>1. WizardInv(m)
    BY <1>3 DEF ModalInv
  <2>2. m.step = "column" => Target(n) = Target(m)
    <3>1. m.step = "column" => n.at["target"] = m.at["target"]
      BY <1>2 DEF ModalSteps
    <3> QED BY <1>2, <3>1 DEF Target
  <2> QED BY <1>2, <2>1, <2>2 DEF WizardInv
<1> QED BY <1>1, <1>2, <1>3 DEF ModalInv

LEMMA FilteredInv ==
  ASSUME NEW m, ModalInv(m), m.step \in Filtered, NEW f \in Seq(Letters)
  PROVE  ModalInv(FilteredBy(m, f))
<1> DEFINE n == FilteredBy(m, f)
<1>1. m \in ModalTypes /\ m.step \in StepsOf(m.kind) /\ m.step # "column"
  BY DEF ModalInv, Filtered
<1>2. n = [m EXCEPT !.filter = f, !.at[m.step] = 0, !.top[m.step] = 0]
  BY DEF FilteredBy
<1> HIDE DEF n
<1>3. /\ n \in ModalTypes /\ n.kind = m.kind /\ n.step = m.step
      /\ n.targets = m.targets /\ n.columns = m.columns /\ n.direct = m.direct
  BY <1>1, <1>2 DEF ModalTypes
<1> QED BY <1>1, <1>3 DEF n, ModalInv, WizardInv

\* Ticking columns leaves their names as they are.
LEMMA TickedInv ==
  ASSUME NEW m, ModalInv(m), m.step = "column", NEW cols \in Seq(Offered),
         DOMAIN cols = DOMAIN m.columns,
         \A i \in DOMAIN cols : cols[i].text = m.columns[i].text
  PROVE  ModalInv([m EXCEPT !.columns = cols])
<1> DEFINE n == [m EXCEPT !.columns = cols]
<1>1. m \in ModalTypes /\ m.kind = "wizard" /\ WizardInv(m)
  BY DEF ModalInv, StepsOf, ModalTypes, Kinds
<1>2. /\ n \in ModalTypes /\ n.kind = m.kind /\ n.step = m.step /\ n.filter = m.filter
      /\ n.targets = m.targets /\ n.columns = cols /\ n.at = m.at
  BY <1>1 DEF ModalTypes
<1> HIDE DEF n
<1>3. Target(n) = Target(m)
  BY <1>2 DEF Target
<1>4. [i \in DOMAIN n.columns |-> n.columns[i].text]
        = [i \in DOMAIN m.columns |-> m.columns[i].text]
  BY <1>2
<1> QED BY <1>1, <1>2, <1>3, <1>4 DEF n, ModalInv, WizardInv, StepsOf

LEMMA EscapedInv ==
  ASSUME NEW m, ModalInv(m), Escaped(m) # None
  PROVE  ModalInv(Escaped(m))
<1>1. m \in ModalTypes /\ m.step \in StepsOf(m.kind) /\ (m.kind = "wizard" => WizardInv(m))
  BY DEF ModalInv
<1>2. CASE m.step = "column"
  <2> DEFINE n == [m EXCEPT !.step = "target", !.columns = <<>>, !.at["column"] = 0]
  <2>1. Escaped(m) = n
    BY <1>2 DEF Escaped, Filtered
  <2>2. <<>> \in Seq(Offered) /\ m.kind = "wizard"
    BY <1>1, <1>2 DEF StepsOf, ModalTypes, Kinds
  <2>3. /\ n \in ModalTypes /\ n.kind = "wizard" /\ n.step = "target"
        /\ n.targets = m.targets /\ n.columns = <<>>
    BY <1>1, <2>2 DEF ModalTypes, ModalSteps
  <2> HIDE DEF n
  <2> QED BY <1>1, <1>2, <2>1, <2>2, <2>3 DEF ModalInv, WizardInv, StepsOf
<1>3. CASE m.step = "path"
  <2> DEFINE n == [m EXCEPT !.step = "list"]
  <2>1. Escaped(m) = n
    BY <1>3 DEF Escaped, Filtered
  <2>2. m.kind = "export"
    BY <1>1, <1>3 DEF StepsOf, ModalTypes, Kinds
  <2>3. n \in ModalTypes /\ n.kind = "export" /\ n.step = "list"
    BY <1>1, <2>2 DEF ModalTypes, ModalSteps
  <2> HIDE DEF n
  <2> QED BY <2>1, <2>3 DEF ModalInv, StepsOf
<1>4. CASE m.step \in Filtered /\ Trimmed(m.filter) # <<>>
  <2>1. Escaped(m) = FilteredBy(m, <<>>)
    BY <1>4 DEF Escaped, Filtered
  <2>2. <<>> \in Seq(Letters)
    OBVIOUS
  <2> QED BY <1>4, <2>1, <2>2, FilteredInv
<1>5. CASE m.step = "target" /\ ~m.direct /\ Trimmed(m.filter) = <<>>
  <2> DEFINE n == [m EXCEPT !.step = "command", !.targets = <<>>, !.at["target"] = 0]
  <2>1. Escaped(m) = n
    BY <1>5 DEF Escaped, Filtered
  <2>2. m.kind = "wizard" /\ m.columns = <<>>
    BY <1>1, <1>5 DEF StepsOf, ModalTypes, Kinds, WizardInv
  <2>3. /\ n \in ModalTypes /\ n.kind = "wizard" /\ n.step = "command"
        /\ n.targets = <<>> /\ n.columns = <<>> /\ ~n.direct
    BY <1>1, <1>5, <2>2 DEF ModalTypes, ModalSteps
  <2> HIDE DEF n
  <2> QED BY <2>1, <2>3 DEF ModalInv, WizardInv, StepsOf
<1>6. CASE /\ m.step # "column" /\ m.step # "path"
           /\ ~(m.step \in Filtered /\ Trimmed(m.filter) # <<>>)
           /\ ~(m.step = "target" /\ ~m.direct)
  BY <1>6 DEF Escaped, Filtered
<1> QED BY <1>2, <1>3, <1>4, <1>5, <1>6 DEF Filtered

LEMMA SubmittedOf ==
  ASSUME NEW m, m.kind \in Kinds, m.step \in StepsOf(m.kind)
  PROVE  /\ m.kind = "picker" => Submitted(m) = PickerSubmitted(m)
         /\ m.kind = "history" => Submitted(m) = HistorySubmitted(m)
         /\ m.kind = "help" => Submitted(m) = HelpSubmitted(m)
         /\ m.kind = "export" => Submitted(m) = ExportSubmitted(m)
         /\ m.kind = "wizard" /\ m.step = "command" => Submitted(m) = CommandSubmitted(m)
         /\ m.kind = "wizard" /\ m.step = "target" => Submitted(m) = TargetSubmitted(m)
         /\ m.kind = "wizard" /\ m.step = "column" => Submitted(m) = ColumnSubmitted(m)
BY DEF Submitted, StepsOf

\* A Help Row that opens the wizard does so for one of its commands.
LEMMA HelpOpensCommands ==
  ASSUME NEW m \in ModalTypes, m.kind = "help", m.step \in StepsOf(m.kind),
         history \in Seq(Completing),
         Entries(m, "list") # <<>>, Chosen(m, "list").does = "wizard"
  PROVE  \E j \in DOMAIN Commands : Commands[j].text = Chosen(m, "list").command
<1> DEFINE row == Chosen(m, "list")
           es == Entries(m, "list")
<1>1. IsList(es) /\ es = Ranked(HelpRows, m.filter)
  BY EntriesAreLists, EntriesOf DEF StepsOf
<1>2. Items(es) \subseteq Items(HelpRows)
  <2>1. IsList(m.filter)
    BY ModalFields, SeqIsList
  <2>2. Items(Ranked(HelpRows, m.filter)) \subseteq Items(HelpRows)
    BY <2>1, RankedHolds, ListModalsAssumptions
  <2> QED BY <1>1, <2>2
<1>3. row \in Items(es)
  <2>1. Highlighted(m, es) \in 1 .. Len(es)
    BY <1>1, ModalFields, HighlightedRange
  <2>2. m.step = "list"
    BY DEF StepsOf
  <2>3. row = es[Highlighted(m, es)]
    BY <2>2 DEF Chosen, Under, Highlighted
  <2>4. DOMAIN es = 1 .. Len(es)
    BY <1>1, ListFacts
  <2> QED BY <2>1, <2>3, <2>4 DEF Items
<1>4. PICK i \in DOMAIN HelpRows : HelpRows[i] = row
  BY <1>2, <1>3 DEF Items
<1> QED BY <1>4, ListModalsAssumptions

LEMMA SubmittedInv ==
  ASSUME NEW m, ModalInv(m), history \in Seq(Completing), NEW s \in Submitted(m)
  PROVE  s.modal = None \/ ModalInv(s.modal)
<1>1. m \in ModalTypes /\ m.step \in StepsOf(m.kind) /\ (m.kind = "wizard" => WizardInv(m))
      /\ m.kind \in Kinds
  BY ModalFields DEF ModalInv
<1>2. CASE m.kind = "picker"
  <2>1. s.modal = None \/ s.modal = m
    BY <1>1, <1>2, SubmittedOf DEF PickerSubmitted, Closed, Becomes
  <2> QED BY <2>1
<1>3. CASE m.kind = "history"
  <2>1. s.modal = None \/ s.modal = m
    BY <1>1, <1>3, SubmittedOf DEF HistorySubmitted, Becomes
  <2> QED BY <2>1
<1>4. CASE m.kind = "help"
  <2> DEFINE row == Chosen(m, "list")
  <2>1. s \in HelpSubmitted(m)
    BY <1>1, <1>4, SubmittedOf
  <2>2. CASE Entries(m, "list") = <<>> \/ row.does # "wizard"
    BY <2>1, <2>2 DEF HelpSubmitted, Closed, Becomes
  <2>3. CASE Entries(m, "list") # <<>> /\ row.does = "wizard"
    <3>1. s.modal = None \/ s.modal = DirectWizard(row.command)
      BY <2>1, <2>3 DEF HelpSubmitted, Closed, Becomes
    <3>2. \E j \in DOMAIN Commands : Commands[j].text = row.command
      BY <1>1, <1>4, <2>3, HelpOpensCommands
    <3> QED BY <3>1, <3>2, DirectWizardInv
  <2> QED BY <2>2, <2>3
<1>5. CASE m.kind = "export"
  <2>1. s.modal = None \/ s.modal = m \/ (m.step = "list" /\ s.modal = [m EXCEPT !.step = "path"])
    <3>1. s \in ExportSubmitted(m)
      BY <1>1, <1>5, SubmittedOf
    <3> QED BY <1>1, <1>5, <3>1 DEF ExportSubmitted, Becomes, StepsOf
  <2> DEFINE n == [m EXCEPT !.step = "path"]
  <2>2. n \in ModalTypes /\ n.kind = "export" /\ n.step = "path"
    BY <1>1, <1>5 DEF ModalTypes, ModalSteps
  <2> HIDE DEF n
  <2>3. ModalInv(n)
    BY <2>2 DEF ModalInv, StepsOf
  <2> QED BY <2>1, <2>3 DEF n
<1>6. CASE m.kind = "wizard" /\ m.step = "command"
  <2>1. s.modal = None \/ s.modal = AtTargets(m)
    <3>1. s \in CommandSubmitted(m)
      BY <1>1, <1>6, SubmittedOf
    <3> QED BY <3>1 DEF CommandSubmitted, Closed, Becomes
  <2> QED BY <1>1, <2>1, AtTargetsInv
<1>7. CASE m.kind = "wizard" /\ m.step = "target"
  <2>1. \/ s.modal = None \/ s.modal = m
        \/ (Entries(m, "target") # <<>> /\ s.modal = AtColumns(m, Chosen(m, "target")))
    <3>1. s \in TargetSubmitted(m)
      BY <1>1, <1>7, SubmittedOf
    <3> QED BY <3>1 DEF TargetSubmitted, Closed, Becomes
  <2> QED BY <1>7, <2>1, AtColumnsInv
<1>8. CASE m.kind = "wizard" /\ m.step = "column"
  <2>1. s.modal = None \/ s.modal = m
    <3>1. s \in ColumnSubmitted(m)
      BY <1>1, <1>8, SubmittedOf
    <3> QED BY <3>1 DEF ColumnSubmitted, Becomes
  <2> QED BY <2>1
<1>9. m.kind = "wizard" => m.step \in {"command", "target", "column"}
  BY <1>1 DEF StepsOf
<1> QED BY <1>1, <1>2, <1>3, <1>4, <1>5, <1>6, <1>7, <1>8, <1>9 DEF Kinds

(******************************* the invariant *****************************)

LEMMA ListsInit == Init => ListsInv
BY DEF Init, ListsInv

\* What the open modal lists, and what its keys make of it.
LEMMA ShownIsListed ==
  ASSUME ListsInv, modal # None
  PROVE  /\ modal \in ModalTypes /\ modal.step \in StepsOf(modal.kind)
         /\ Listed(modal, Shown)
<1>1. ModalInv(modal) /\ history \in Seq(Completing)
  BY DEF ListsInv
<1> QED BY <1>1, EntriesAreLists DEF ModalInv, Listed, Shown

LEMMA ClickedIndexType ==
  ASSUME ListsInv, modal # None, NEW row, ClickedIndex(modal, Shown, row) # None
  PROVE  /\ ClickedIndex(modal, Shown, row) \in Nat
         /\ ClickedIndex(modal, Shown, row) + 1 \in 1 .. Len(Shown)
         /\ LET k == ClickedIndex(modal, Shown, row) + 1
                from == StartRow(modal, Shown, k, ContentWidth)
            IN modal.top[modal.step] + row
                 \in from .. from + Rows(modal, Shown[k], ContentWidth) - 1
<1> DEFINE hit == {k \in DOMAIN Shown :
                     LET from == StartRow(modal, Shown, k, ContentWidth)
                     IN modal.top[modal.step] + row
                          \in from .. from + Rows(modal, Shown[k], ContentWidth) - 1}
           c == CHOOSE k \in hit : TRUE
<1>1. ClickedIndex(modal, Shown, row) = IF hit = {} THEN None ELSE c - 1
  BY DEF ClickedIndex
<1>2. hit # {} /\ ClickedIndex(modal, Shown, row) = c - 1
  BY <1>1
<1>3. c \in hit
  BY <1>2
<1>4. Len(Shown) \in Nat /\ DOMAIN Shown = 1 .. Len(Shown)
  BY ShownIsListed, ListFacts DEF Listed
<1>5. c \in 1 .. Len(Shown)
  BY <1>3, <1>4
<1>6. LET from == StartRow(modal, Shown, c, ContentWidth)
      IN modal.top[modal.step] + row
           \in from .. from + Rows(modal, Shown[c], ContentWidth) - 1
  BY <1>3
<1> HIDE DEF c
<1>7. c - 1 \in Nat /\ (c - 1) + 1 = c
  BY <1>4, <1>5
<1> QED BY <1>2, <1>5, <1>6, <1>7

LEMMA ListsNext == ListsInv /\ [Next]_lvars => ListsInv'
<1> SUFFICES ASSUME ListsInv, [Next]_lvars PROVE ListsInv'
  OBVIOUS
<1>1. history \in Seq(Completing) /\ width \in Widths /\ (modal # None => ModalInv(modal))
  BY DEF ListsInv
<1> DEFINE Steady == history' = history /\ width' = width
<1>2. ASSUME Steady, modal' # None => ModalInv(modal') PROVE ListsInv'
  BY <1>1, <1>2 DEF ListsInv
<1>3. CASE UNCHANGED lvars
  BY <1>1, <1>2, <1>3 DEF lvars
<1>4. ASSUME modal # None
      PROVE  /\ modal \in ModalTypes /\ modal.step \in StepsOf(modal.kind)
             /\ Listed(modal, Shown) /\ ModalInv(modal)
  BY <1>1, <1>4, ShownIsListed
<1>5. CASE OpenModal
  <2>1. Steady
    BY <1>5 DEF OpenModal, ByKey
  <2>2. \/ \E kind \in {"history", "picker", "help", "export"} : modal' = Fresh(kind, "list")
        \/ modal' = Fresh("wizard", "command")
        \/ \E i \in DOMAIN Commands : modal' = DirectWizard(Commands[i].text)
    BY <1>5 DEF OpenModal, Shows
  <2>3. ModalInv(modal')
    BY <2>2, FreshInv, DirectWizardInv DEF Kinds
  <2> QED BY <1>2, <2>1, <2>3
<1>6. ASSUME NEW d \in {-1, 1}, Move(d) \/ Wheel(d) PROVE ListsInv'
  <2>1. /\ Steady /\ modal # None
        /\ modal' = Moved(modal, Shown, d) \/ modal' = Wheeled(modal, Shown, d)
    BY <1>6 DEF Move, Wheel, ByKey, Shows
  <2>2. Rolled(modal, modal')
    BY <1>4, <2>1, MovedRolls
  <2>3. ModalInv(modal')
    BY <1>4, <2>1, <2>2, RolledInv
  <2> QED BY <1>2, <2>1, <2>3
<1>7. ASSUME NEW c \in Letters, Type(c) PROVE ListsInv'
  <2>1. /\ Steady /\ modal # None /\ modal.step \in Filtered
        /\ modal' = FilteredBy(modal, Append(modal.filter, c))
    BY <1>7 DEF Type, ByKey, Shows
  <2>2. Append(modal.filter, c) \in Seq(Letters)
    BY <1>4, <2>1, ModalFields
  <2>3. ModalInv(modal')
    BY <1>4, <2>1, <2>2, FilteredInv
  <2> QED BY <1>2, <2>1, <2>3
<1>8. CASE Backspace
  <2> DEFINE f == IF modal.filter = <<>> THEN <<>>
                  ELSE SubSeq(modal.filter, 1, Len(modal.filter) - 1)
  <2>1. /\ Steady /\ modal # None /\ modal.step \in Filtered
        /\ modal' = FilteredBy(modal, f)
    BY <1>8 DEF Backspace, ByKey, Shows
  <2>2. f \in Seq(Letters)
    <3>1. modal.filter \in Seq(Letters)
      BY <1>4, <2>1, ModalFields
    <3>2. modal.filter # <<>> => Len(modal.filter) - 1 \in 0 .. Len(modal.filter)
      BY <3>1
    <3> QED BY <3>1, <3>2
  <2> HIDE DEF f
  <2>3. ModalInv(modal')
    BY <1>4, <2>1, <2>2, FilteredInv
  <2> QED BY <1>2, <2>1, <2>3
<1>9. CASE Toggle
  <2> DEFINE k == Highlighted(modal, Shown)
             cols == [modal.columns EXCEPT ![k].ticked = ~@]
  <2>1. /\ Steady /\ modal # None /\ modal.step = "column" /\ modal.columns # <<>>
        /\ modal' = [modal EXCEPT !.columns = cols]
    BY <1>9 DEF Toggle, ByKey, Shows
  <2>2. modal.columns \in Seq(Offered)
    BY <1>4, <2>1, ModalFields
  <2>3. cols \in Seq(Offered) /\ DOMAIN cols = DOMAIN modal.columns
        /\ \A i \in DOMAIN cols : cols[i].text = modal.columns[i].text
    <3> HIDE DEF k
    <3>1. \A c \in Offered : /\ [c EXCEPT !.ticked = ~c.ticked] \in Offered
                             /\ [c EXCEPT !.ticked = ~c.ticked].text = c.text
      BY DEF Offered
    <3>2. \A i \in DOMAIN modal.columns : modal.columns[i] \in Offered
      BY <2>2
    <3>3. cols = [i \in DOMAIN modal.columns |->
                    IF i = k THEN [modal.columns[i] EXCEPT !.ticked = ~modal.columns[i].ticked]
                    ELSE modal.columns[i]]
      BY <2>2
    <3>4. \A i \in DOMAIN modal.columns : cols[i] \in Offered /\ cols[i].text = modal.columns[i].text
      BY <3>1, <3>2, <3>3
    <3>5. Len(modal.columns) \in Nat /\ DOMAIN modal.columns = 1 .. Len(modal.columns)
      BY <2>2
    <3>6. cols \in [1 .. Len(modal.columns) -> Offered]
      BY <3>3, <3>4, <3>5
    <3>7. cols \in Seq(Offered)
      <4> HIDE DEF cols
      <4> QED BY <3>5, <3>6
    <3> QED BY <3>3, <3>4, <3>7
  <2> HIDE DEF cols
  <2>4. ModalInv(modal')
    BY <1>4, <2>1, <2>3, TickedInv
  <2> QED BY <1>2, <2>1, <2>4
<1>10. CASE ToggleAll
  <2> DEFINE every == \A i \in DOMAIN modal.columns : modal.columns[i].ticked
             cols == [i \in DOMAIN modal.columns |-> [modal.columns[i] EXCEPT !.ticked = ~every]]
  <2>1. /\ Steady /\ modal # None /\ modal.step = "column"
        /\ modal' = [modal EXCEPT !.columns = cols]
    BY <1>10 DEF ToggleAll, ByKey, Shows
  <2>2. modal.columns \in Seq(Offered)
    BY <1>4, <2>1, ModalFields
  <2>3. cols \in Seq(Offered) /\ DOMAIN cols = DOMAIN modal.columns
        /\ \A i \in DOMAIN cols : cols[i].text = modal.columns[i].text
    <3>1. \A c \in Offered : /\ [c EXCEPT !.ticked = ~every] \in Offered
                             /\ [c EXCEPT !.ticked = ~every].text = c.text
      <4>1. PICK b \in BOOLEAN : b = ~every
        OBVIOUS
      <4> QED BY <4>1 DEF Offered
    <3> HIDE DEF every
    <3>2. \A i \in DOMAIN modal.columns : modal.columns[i] \in Offered
      BY <2>2
    <3>4. \A i \in DOMAIN modal.columns : cols[i] \in Offered /\ cols[i].text = modal.columns[i].text
      BY <3>1, <3>2
    <3>5. Len(modal.columns) \in Nat /\ DOMAIN modal.columns = 1 .. Len(modal.columns)
      BY <2>2
    <3>6. cols \in [1 .. Len(modal.columns) -> Offered]
      BY <3>4, <3>5
    <3>7. cols \in Seq(Offered)
      BY <3>5, <3>6
    <3> QED BY <3>4, <3>7
  <2> HIDE DEF cols
  <2>4. ModalInv(modal')
    BY <1>4, <2>1, <2>3, TickedInv
  <2> QED BY <1>2, <2>1, <2>4
<1>11. CASE Enter
  <2>1. Steady /\ modal # None
    BY <1>11 DEF Enter, ByKey
  <2>2. PICK s \in Submitted(modal) : modal' = s.modal
    BY <1>11 DEF Enter
  <2>3. modal' = None \/ ModalInv(modal')
    BY <1>1, <1>4, <2>1, <2>2, SubmittedInv
  <2> QED BY <1>2, <2>1, <2>3
<1>12. CASE Esc
  <2>1. Steady /\ modal # None /\ modal' = Escaped(modal)
    BY <1>12 DEF Esc, ByKey, Shows
  <2>2. modal' # None => ModalInv(modal')
    BY <1>4, <2>1, EscapedInv
  <2> QED BY <1>2, <2>1, <2>2
<1>13. CASE CtrlC
  BY <1>2, <1>13 DEF CtrlC, ByKey, Shows
<1>14. ASSUME NEW row, NEW double \in BOOLEAN, Click(row, double) PROVE ListsInv'
  <2> DEFINE i == ClickedIndex(modal, Shown, row)
             sel == SelectedAt(modal, i)
  <2>1. Steady /\ modal # None /\ i # None
    BY <1>14 DEF Click, ByClick
  <2>2. \/ \E s \in Submitted(sel) : modal' = s.modal
        \/ modal' = sel
    BY <1>14 DEF Click, Shows
  <2>3. ModalInv(sel)
    <3>1. i \in Nat
      BY <2>1, ClickedIndexType
    <3> HIDE DEF i
    <3> QED BY <1>4, <2>1, <3>1, SelectedRolls, RolledInv
  <2> HIDE DEF sel
  <2>4. modal' = None \/ ModalInv(modal')
    BY <1>1, <2>2, <2>3, SubmittedInv
  <2> QED BY <1>2, <2>1, <2>4
<1>15. ASSUME NEW s \in Completing, Complete(s) PROVE ListsInv'
  BY <1>1, <1>15 DEF Complete, ListsInv
<1>16. ASSUME NEW w \in Widths, Resize(w) PROVE ListsInv'
  BY <1>1, <1>16 DEF Resize, ListsInv
<1> QED
  BY <1>3, <1>5, <1>6, <1>7, <1>8, <1>9, <1>10, <1>11, <1>12, <1>13, <1>14, <1>15, <1>16 DEF Next

THEOREM ListsInvariant == LSpec => []ListsInv
BY ListsInit, ListsNext, PTL DEF LSpec

(*************************** columns, clicks, Enter ************************)

\* Whichever table was looked at before, and whatever other table has its name, the columns on
\* offer are those of the table they are chosen for.
THEOREM ColumnsFitTheirTable == LSpec => []ColumnsAreOfTheTable
<1>1. ListsInv => ColumnsAreOfTheTable
  <2> SUFFICES ASSUME ListsInv, modal # None, modal.step = "column"
               PROVE  [i \in DOMAIN modal.columns |-> modal.columns[i].text]
                        = Columns[Chosen(modal, "target").text]
    BY DEF ColumnsAreOfTheTable
  <2>1. ModalInv(modal)
    BY DEF ListsInv
  <2>2. modal.kind = "wizard"
    BY <2>1 DEF ModalInv, StepsOf
  <2>3. [i \in DOMAIN modal.columns |-> modal.columns[i].text] = Columns[Target(modal).text]
    BY <2>1, <2>2 DEF ModalInv, WizardInv
  <2> QED BY <2>2, <2>3, ChosenTarget
<1> QED BY <1>1, ListsInvariant, PTL

\* What a modal in any step hands over is what it shows.
LEMMA TakenIsShown ==
  ASSUME NEW m, ModalInv(m), history \in Seq(Completing), NEW s \in Submitted(m), s.taken # None
  PROVE  s.taken = ShownToBeTaken(m)
<1>1. m \in ModalTypes /\ m.step \in StepsOf(m.kind) /\ m.kind \in Kinds
      /\ (m.kind = "wizard" => WizardInv(m))
  BY ModalFields DEF ModalInv
<1>2. CASE m.kind \in {"picker", "history", "help"}
  <2>1. m.step = "list"
    BY <1>1, <1>2 DEF StepsOf
  <2>2. s \in PickerSubmitted(m) \/ s \in HistorySubmitted(m) \/ s \in HelpSubmitted(m)
    BY <1>1, <1>2, SubmittedOf
  <2>3. s.taken = Took(m, Chosen(m, "list"))
    BY <2>2 DEF PickerSubmitted, HistorySubmitted, HelpSubmitted, Closed, Becomes
  <2> QED BY <1>2, <2>1, <2>3 DEF ShownToBeTaken
<1>3. CASE m.kind = "export"
  <2> DEFINE n == [m EXCEPT !.step = "list"]
  <2>1. s \in ExportSubmitted(m)
    BY <1>1, <1>3, SubmittedOf
  <2>2. m.step = "path" /\ s.taken = Took(m, Chosen(n, "list"))
    BY <2>1 DEF ExportSubmitted, Becomes
  <2>3. n.kind = m.kind /\ n.filter = m.filter /\ n.at = m.at
    BY <1>1 DEF ModalTypes
  <2> HIDE DEF n
  <2>4. Entries(n, "list") = Entries(m, "list")
    BY <1>3, <2>3, EntriesOf DEF StepsOf
  <2>5. Chosen(n, "list") = Chosen(m, "list")
    BY <2>3, <2>4 DEF Chosen, Under, Resolved
  <2> QED BY <1>3, <2>2, <2>5 DEF ShownToBeTaken
<1>4. CASE m.kind = "wizard"
  <2>1. m.columns \in Seq(Offered)
    BY <1>1, ModalFields
  <2>2. m.step # "column" => m.columns = <<>>
    BY <1>1, <1>4 DEF WizardInv
  <2> DEFINE c == Chosen(m, "command")
             all == \A i \in DOMAIN m.columns : m.columns[i].ticked
             picked == IF all THEN <<"*">> ELSE TickedOf(m.columns)
             shown == [kind |-> "wizard", command |-> c.text,
                       table |-> IF m.step = "command" THEN None ELSE Target(m),
                       columns |-> picked]
  <2>3. ShownToBeTaken(m) = shown
    BY <1>4 DEF ShownToBeTaken, Target
  <2>4. \A t : Expanded(c, t, m.columns)
                 = [kind |-> "wizard", command |-> c.text, table |-> t, columns |-> picked]
    <3>1. Len(TickedOf(m.columns)) = Len(m.columns) <=> all
      BY <2>1, TickedFacts
    <3> HIDE DEF all
    <3> QED BY <3>1 DEF Expanded
  <2>5. Chosen(m, "target") = Target(m)
    BY <1>4, ChosenTarget
  <2>6. m.step \in {"command", "target", "column"}
    BY <1>1, <1>4 DEF StepsOf
  <2> HIDE DEF picked, c
  <2>7. CASE m.step = "command"
    <3>1. s \in CommandSubmitted(m)
      BY <1>1, <1>4, <2>7, SubmittedOf
    <3>2. s.taken = Expanded(c, None, <<>>)
      BY <3>1 DEF CommandSubmitted, Closed, Becomes, c
    <3> QED BY <2>2, <2>3, <2>4, <2>7, <3>2
  <2>8. CASE m.step = "target"
    <3>1. s \in TargetSubmitted(m)
      BY <1>1, <1>4, <2>8, SubmittedOf
    <3>2. s.taken = Expanded(c, Chosen(m, "target"), <<>>)
      BY <3>1 DEF TargetSubmitted, Closed, Becomes, c
    <3> QED BY <2>2, <2>3, <2>4, <2>5, <2>8, <3>2
  <2>9. CASE m.step = "column"
    <3>1. s \in ColumnSubmitted(m)
      BY <1>1, <1>4, <2>9, SubmittedOf
    <3>2. s.taken = Expanded(c, Chosen(m, "target"), m.columns)
      BY <3>1 DEF ColumnSubmitted, Becomes, c
    <3> QED BY <2>3, <2>4, <2>5, <2>9, <3>2
  <2> QED BY <2>6, <2>7, <2>8, <2>9
<1> QED BY <1>1, <1>2, <1>3, <1>4 DEF Kinds

\* Enter takes what the modal shows.
THEOREM EnterTakesTheShown == LSpec => EnterTakesWhatIsShown
<1>1. ListsInv /\ [Next]_lvars
        => [by' = "key" /\ taken' # None => taken' = ShownToBeTaken(modal)]_lvars
  <2> SUFFICES ASSUME ListsInv, Next, by' = "key", taken' # None
               PROVE  taken' = ShownToBeTaken(modal)
    OBVIOUS
  <2>1. Enter
    BY DEF Next, OpenModal, Move, Wheel, Type, Backspace, Toggle, ToggleAll, Esc, CtrlC, Shows,
           Click, ByClick, Complete, Resize
  <2>2. modal # None /\ \E s \in Submitted(modal) : taken' = s.taken
    BY <2>1 DEF Enter
  <2> QED BY <2>2, TakenIsShown DEF ListsInv
<1> QED BY <1>1, ListsInvariant, PTL DEF LSpec, EnterTakesWhatIsShown

(******************************* what is found *****************************)

\* Of the Statements that are equal but for their blanks, one is the newest.
LEMMA NewestOf ==
  ASSUME NEW h, IsList(h), NEW j \in DOMAIN h
  PROVE  \E k \in Newest(h) : Squeezed(h[k]) = Squeezed(h[j])
<1> DEFINE T == {k \in DOMAIN h : Squeezed(h[k]) = Squeezed(h[j])}
<1>1. Len(h) \in Nat /\ DOMAIN h = 1 .. Len(h)
  BY ListFacts
<1>2. T \in SUBSET (0 .. Len(h)) /\ j \in T
  BY <1>1
<1>3. PICK k \in T : \A l \in T : l <= k
  <2> HIDE DEF T
  <2> QED BY <1>1, <1>2, GreatestNat
<1>4. k \in DOMAIN h /\ Squeezed(h[k]) = Squeezed(h[j])
  OBVIOUS
<1>5. ASSUME NEW l \in k + 1 .. Len(h) PROVE Squeezed(h[l]) # Squeezed(h[k])
  <2>1. l \in DOMAIN h /\ ~(l <= k)
    BY <1>1, <1>4
  <2>2. l \notin T
    BY <1>3, <2>1
  <2> QED BY <1>4, <2>1, <2>2
<1> QED BY <1>4, <1>5 DEF Newest

LEMMA NewestIsOne ==
  ASSUME NEW h, IsList(h), NEW k \in Newest(h), NEW l \in Newest(h),
         Squeezed(h[k]) = Squeezed(h[l])
  PROVE  k = l
<1>1. Len(h) \in Nat /\ DOMAIN h = 1 .. Len(h) /\ k \in DOMAIN h /\ l \in DOMAIN h
  BY ListFacts DEF Newest
<1>2. k \in 1 .. Len(h) /\ l \in 1 .. Len(h)
  BY <1>1
<1>3. ~(l \in k + 1 .. Len(h)) /\ ~(k \in l + 1 .. Len(h))
  BY DEF Newest
<1> QED BY <1>1, <1>2, <1>3

\* The filter of the History Search hides a Statement exactly when its letters do not occur in it
\* in their order.
THEOREM FilterHidesNoMatch == LSpec => []FilterFindsAll
<1>1. ListsInv => FilterFindsAll
  <2> DEFINE h == history
             q == Trimmed(modal.filter)
             latest(j) == CHOOSE k \in DOMAIN history :
                            /\ Squeezed(history[k]) = Squeezed(history[j])
                            /\ \A l \in k + 1 .. Len(history) :
                                 Squeezed(history[l]) # Squeezed(history[j])
             found == {j \in DOMAIN history : Subsequence(q, history[latest(j)])}
  <2> SUFFICES ASSUME ListsInv, modal # None, modal.kind = "history"
               PROVE  {Squeezed(Shown[k].text) : k \in DOMAIN Shown}
                        = {Squeezed(history[i]) : i \in found}
    BY DEF FilterFindsAll
  <2>1. modal \in ModalTypes /\ modal.step = "list" /\ h \in Seq(Completing)
    BY DEF ListsInv, ModalInv, StepsOf
  <2>2. IsList(h) /\ IsList(modal.filter)
    BY <2>1, ModalFields, SeqIsList
  <2>3. \A i \in DOMAIN h : IsList(h[i])
    BY <2>1, ListModalsAssumptions
  <2>4. IsList(NewestFirst(h)) /\ Items(NewestFirst(h)) = {[text |-> h[i]] : i \in Newest(h)}
    BY <2>2, NewestFirstHolds
  <2>5. \A i \in DOMAIN NewestFirst(h) : IsList(NewestFirst(h)[i].text)
    <3>1. \A e \in Items(NewestFirst(h)) : IsList(e.text)
      BY <2>3, <2>4 DEF Newest
    <3> QED BY <3>1 DEF Items
  <2>6. Shown = Ranked(NewestFirst(h), modal.filter)
    BY <2>1, EntriesOf DEF Shown, StepsOf
  <2>7. Items(Shown) = {e \in Items(NewestFirst(h)) : Subsequence(q, e.text)}
    BY <2>2, <2>4, <2>5, <2>6, RankedHolds
  <2>8. ASSUME NEW j \in DOMAIN h
        PROVE  latest(j) \in Newest(h) /\ Squeezed(h[latest(j)]) = Squeezed(h[j])
    <3>1. PICK k \in Newest(h) : Squeezed(h[k]) = Squeezed(h[j])
      BY <2>2, NewestOf
    <3>2. k \in DOMAIN h /\ \A l \in k + 1 .. Len(h) : Squeezed(h[l]) # Squeezed(h[j])
      BY <3>1 DEF Newest
    <3>3. /\ latest(j) \in DOMAIN h /\ Squeezed(h[latest(j)]) = Squeezed(h[j])
          /\ \A l \in latest(j) + 1 .. Len(h) : Squeezed(h[l]) # Squeezed(h[j])
      BY <3>1, <3>2
    <3> HIDE DEF latest
    <3> QED BY <3>3 DEF Newest
  <2>9. ASSUME NEW j \in Newest(h) PROVE j \in DOMAIN h /\ latest(j) = j
    <3>1. j \in DOMAIN h
      BY DEF Newest
    <3> HIDE DEF latest
    <3> QED BY <2>2, <2>8, <3>1, NewestIsOne
  <2> HIDE DEF latest, q
  <2>10. ASSUME NEW k \in DOMAIN Shown
         PROVE  \E i \in found : Squeezed(Shown[k].text) = Squeezed(history[i])
    <3>1. Shown[k] \in Items(Shown)
      BY DEF Items
    <3>2. PICK i \in Newest(h) : Shown[k] = [text |-> h[i]]
      BY <2>4, <2>7, <3>1
    <3>3. Shown[k].text = h[i] /\ Subsequence(q, h[i])
      BY <2>7, <3>1, <3>2
    <3>4. i \in found
      BY <2>9, <3>3
    <3> QED BY <3>3, <3>4
  <2>11. ASSUME NEW i \in found
         PROVE  \E k \in DOMAIN Shown : Squeezed(Shown[k].text) = Squeezed(history[i])
    <3>1. i \in DOMAIN h /\ Subsequence(q, h[latest(i)])
      OBVIOUS
    <3>2. latest(i) \in Newest(h) /\ Squeezed(h[latest(i)]) = Squeezed(h[i])
      BY <2>8, <3>1
    <3>3. [text |-> h[latest(i)]] \in Items(Shown)
      BY <2>4, <2>7, <3>1, <3>2
    <3>4. PICK k \in DOMAIN Shown : Shown[k] = [text |-> h[latest(i)]]
      BY <3>3 DEF Items
    <3> QED BY <3>2, <3>4
  <2> HIDE DEF found
  <2> QED BY <2>10, <2>11
<1> QED BY <1>1, ListsInvariant, PTL

(*************************** what stays in sight ***************************)

\* A step of a modal, as HighlightInSight looks at it.
Stepped(m, s) == [m EXCEPT !.step = s]
Sees(m, s) == ShownWhole(Stepped(m, s), Entries(m, s))

LEMMA SteppedFields ==
  ASSUME NEW m \in ModalTypes, NEW s \in ModalSteps
  PROVE  /\ Stepped(m, s) \in ModalTypes
         /\ Stepped(m, s).kind = m.kind /\ Stepped(m, s).step = s
         /\ Stepped(m, s).at = m.at /\ Stepped(m, s).top = m.top
         /\ Stepped(m, s).direct = m.direct
         /\ Stepped(m, s).filter = m.filter /\ Stepped(m, s).targets = m.targets
         /\ Stepped(m, s).columns = m.columns
BY DEF Stepped, ModalTypes

\* Where the viewport starts no later than the highlighted entry, and ends no earlier.
Framed(m, es) ==
  LET k == Highlighted(m, es)
      start == StartRow(m, es, k, ContentWidth)
  IN /\ m.top[m.step] <= start
     /\ start + Rows(m, es[k], ContentWidth) <= m.top[m.step] + ListRows(m)

LEMMA FramedIsShown ==
  ASSUME NEW m \in ModalTypes, m.step \in StepsOf(m.kind), NEW es, Listed(m, es), es # <<>>,
         Framed(m, es), RowWidth(width) = ContentWidth
  PROVE  ShownWhole(m, es)
<1> DEFINE k == Highlighted(m, es)
           start == StartRow(m, es, k, ContentWidth)
           rows == Rows(m, es[k], ContentWidth)
           top == m.top[m.step]
           head == HeaderRows(m)
           box == BoxRows(m)
<1>1. k \in 1 .. Len(es)
  BY ModalFields, HighlightedRange DEF Listed
<1>2. start \in Nat /\ rows \in Nat \ {0} /\ top \in Nat
  <2>1. ContentWidth \in Nat \ {0} /\ SplitRows \in Nat
    BY ListModalsAssumptions
  <2> HIDE DEF k
  <2>2. start \in Nat /\ rows \in 1 .. SplitRows
    BY <1>1, <2>1, ScrollFacts
  <2> QED BY <2>1, <2>2, ModalFields
<1>3. head \in Nat /\ box \in Nat /\ ListRows(m) = box - head
  BY ListRowsRange DEF StepsOf
<1>4. top <= start /\ start + rows <= top + (box - head)
  BY <1>3 DEF Framed
<1>5. DrawnRows(m, es, k) =
        {r \in head .. box - 1 : r \in head + start - top .. head + start - top + rows - 1}
  BY DEF DrawnRows
<1> HIDE DEF k, start, rows, top, head, box
<1> DEFINE a == head + start - top
<1>6. a \in Int /\ a >= head /\ a + rows - 1 <= box - 1
  BY <1>2, <1>3, <1>4
<1>7. DrawnRows(m, es, k) = a .. a + rows - 1
  <2>1. \A r \in a .. a + rows - 1 : r \in head .. box - 1
    <3> HIDE DEF a
    <3> QED BY <1>2, <1>3, <1>6
  <2> QED BY <1>5, <2>1
<1> HIDE DEF a
<1>8. Cardinality(a .. a + rows - 1) = rows
  <2>1. a + rows - 1 \in Int /\ ~(a > a + rows - 1) /\ (a + rows - 1) - a + 1 = rows
    BY <1>2, <1>6
  <2> QED BY <1>6, <2>1, FS_Interval
<1> QED BY <1>7, <1>8 DEF ShownWhole, k, rows

\* Whether an entry is in sight depends on little of a modal.
LEMMA SameView ==
  ASSUME NEW m, NEW n, NEW es,
         n.kind = m.kind, n.step = m.step, n.direct = m.direct,
         n.at[m.step] = m.at[m.step], n.top[m.step] = m.top[m.step],
         ShownWhole(m, es)
  PROVE  ShownWhole(n, es)
<1>1. Highlighted(n, es) = Highlighted(m, es)
  BY DEF Highlighted, Resolved
<1>2. HeaderRows(n) = HeaderRows(m) /\ BoxRows(n) = BoxRows(m)
  BY DEF HeaderRows, BoxRows
<1>3. \A e, w : Rows(n, e, w) = Rows(m, e, w)
  BY DEF Rows
<1>4. \A k, w : StartRow(n, es, k, w) = StartRow(m, es, k, w)
  BY <1>3 DEF StartRow
<1>5. \A k : DrawnRows(n, es, k) = DrawnRows(m, es, k)
  BY <1>2, <1>3, <1>4 DEF DrawnRows
<1> QED BY <1>1, <1>3, <1>5 DEF ShownWhole

\* And where every entry takes a row, on little of the entries.
LEMMA SameLength ==
  ASSUME NEW m, m.kind # "history", NEW es, NEW fs, IsList(es), IsList(fs), Len(es) = Len(fs),
         ShownWhole(m, es)
  PROVE  ShownWhole(m, fs)
<1>1. Highlighted(m, es) = Highlighted(m, fs)
  BY DEF Highlighted, Resolved
<1>2. \A e, w : Rows(m, e, w) = 1
  BY DEF Rows
<1>3. \A k, w : StartRow(m, es, k, w) = StartRow(m, fs, k, w)
  BY <1>2 DEF StartRow
<1>4. \A k : DrawnRows(m, es, k) = DrawnRows(m, fs, k)
  BY <1>2, <1>3 DEF DrawnRows
<1>5. es = <<>> <=> fs = <<>>
  BY ListFacts
<1> QED BY <1>1, <1>2, <1>4, <1>5 DEF ShownWhole

LEMMA SeesSame ==
  ASSUME NEW m \in ModalTypes, NEW n \in ModalTypes, NEW s \in ModalSteps,
         n.kind = m.kind, n.direct = m.direct, n.at[s] = m.at[s], n.top[s] = m.top[s],
         Entries(n, s) = Entries(m, s), Sees(m, s)
  PROVE  Sees(n, s)
<1> DEFINE ms == Stepped(m, s)
           ns == Stepped(n, s)
<1>1. /\ ns.kind = ms.kind /\ ns.step = ms.step /\ ns.direct = ms.direct
      /\ ns.at[ms.step] = ms.at[ms.step] /\ ns.top[ms.step] = ms.top[ms.step]
  BY SteppedFields
<1> HIDE DEF ms, ns
<1>2. ShownWhole(ms, Entries(m, s))
  BY DEF Sees, ms
<1>3. ShownWhole(ns, Entries(m, s))
  BY <1>1, <1>2, SameView
<1> QED BY <1>3 DEF Sees, ns

LEMMA SeesNone ==
  ASSUME NEW m, NEW s, Entries(m, s) = <<>>
  PROVE  Sees(m, s)
BY DEF Sees, ShownWhole

\* At the top of a list the first entry is highlighted, and in sight.
LEMMA SeesTop ==
  ASSUME NEW m \in ModalTypes, NEW s \in StepsOf(m.kind), s \in ModalSteps,
         m.at[s] = 0, m.top[s] = 0,
         history \in Seq(Completing), RowWidth(width) = ContentWidth
  PROVE  Sees(m, s)
<1> DEFINE n == Stepped(m, s)
           es == Entries(m, s)
<1>1. /\ n \in ModalTypes /\ n.kind = m.kind /\ n.step = s /\ n.at = m.at /\ n.top = m.top
  BY SteppedFields
<1>2. Listed(n, es)
  BY <1>1, EntriesAreLists DEF Listed
<1> HIDE DEF n, es
<1>3. CASE es = <<>>
  BY <1>3, SeesNone DEF es
<1>4. CASE es # <<>>
  <2>1. Len(es) \in Nat /\ Len(es) # 0
    BY <1>2, <1>4, ListFacts DEF Listed
  <2>2. Highlighted(n, es) = 1
    <3>1. Clamped(0, Len(es)) = 0 /\ 0 % Len(es) = 0
      BY <2>1 DEF Clamped
    <3> QED BY <1>1, <3>1 DEF Highlighted, Resolved
  <2>3. StartRow(n, es, 1, ContentWidth) = 0 /\ Rows(n, es[1], ContentWidth) \in 1 .. SplitRows
    <3>1. 1 \in 1 .. Len(es) /\ ContentWidth \in Nat \ {0}
      BY <2>1, ListModalsAssumptions
    <3> QED BY <1>1, <1>2, <3>1, ScrollFacts
  <2>4. Rows(n, es[1], ContentWidth) <= ListRows(n) /\ ListRows(n) \in Nat
    <3>1. CASE n.kind # "wizard"
      BY <1>1, <2>3, <3>1, ListRowsRange, ListModalsAssumptions
    <3>2. CASE n.kind = "wizard"
      <4>1. ListRows(n) \in Nat \ {0}
        BY <1>1, <3>2, ListRowsRange DEF StepsOf
      <4>2. Rows(n, es[1], ContentWidth) = 1
        BY <3>2 DEF Rows
      <4> QED BY <4>1, <4>2
    <3> QED BY <3>1, <3>2
  <2>5. Framed(n, es)
    BY <1>1, <2>2, <2>3, <2>4 DEF Framed
  <2>6. ShownWhole(n, es)
    BY <1>1, <1>2, <1>4, <2>5, FramedIsShown
  <2> QED BY <2>6 DEF Sees, n, es
<1> QED BY <1>3, <1>4

LEMMA SightOfSteps ==
  ASSUME NEW m
  PROVE  HighlightInSight(m) <=>
           /\ m.kind # "wizard" => Sees(m, "list")
           /\ m.kind = "wizard" => Sees(m, "target") /\ Sees(m, "column")
           /\ m.kind = "wizard" /\ ~m.direct => Sees(m, "command")
BY DEF HighlightInSight, Sees, Stepped

LEMMA SameEntries ==
  ASSUME NEW m, NEW n, NEW s,
         n.kind = m.kind, n.filter = m.filter, n.targets = m.targets, n.columns = m.columns
  PROVE  Entries(n, s) = Entries(m, s)
BY DEF Entries

\* An entry of the Picker takes one row, so the k-th starts no lower than the row k - 1.
LEMMA OneRowEach ==
  ASSUME NEW m, m.kind # "history", NEW es, NEW k \in Nat \ {0}, NEW w
  PROVE  StartRow(m, es, k, w) <= k - 1
<1> DEFINE column == {1}
           grid == (1 .. k - 1) \X (1 .. SplitRows)
           first == (1 .. k - 1) \X column
           S == {c \in grid : c[2] <= Rows(m, es[c[1]], w)}
<1>1. k - 1 \in Nat /\ IsFiniteSet(1 .. k - 1) /\ Cardinality(1 .. k - 1) = k - 1
  <2>1. 1 \in Int /\ k - 1 \in Nat
    OBVIOUS
  <2>2. IF 1 > k - 1 THEN k - 1 = 0 ELSE (k - 1) - 1 + 1 = k - 1
    OBVIOUS
  <2> QED BY <2>1, <2>2, FS_Interval
<1>2. IsFiniteSet(column) /\ Cardinality(column) = 1
  BY FS_Singleton
<1> HIDE DEF column
<1>3. IsFiniteSet(first) /\ Cardinality(first) = k - 1
  <2>1. IsFiniteSet(first) /\ Cardinality(first) = Cardinality(1 .. k - 1) * Cardinality(column)
    BY <1>1, <1>2, FS_Product
  <2> QED BY <1>1, <1>2, <2>1
<1>4. S \subseteq first
  <2> SUFFICES ASSUME NEW c \in grid, c[2] <= Rows(m, es[c[1]], w)
               PROVE  c \in first
    OBVIOUS
  <2>1. Rows(m, es[c[1]], w) = 1
    BY DEF Rows
  <2>2. c[2] \in 1 .. SplitRows /\ SplitRows \in Nat
    BY ListModalsAssumptions
  <2>3. c[2] = 1
    BY <2>1, <2>2
  <2> QED BY <2>3 DEF column
<1>5. StartRow(m, es, k, w) = Cardinality(S)
  BY DEF StartRow
<1> HIDE DEF S, first
<1> QED BY <1>3, <1>4, <1>5, FS_Subset

\* Scrolling to an entry brings all its rows into the viewport.
LEMMA ScrolledIsFramed ==
  ASSUME NEW m \in ModalTypes, m.step \in StepsOf(m.kind), NEW es, Listed(m, es), es # <<>>,
         m.kind = "picker" => Len(es) <= SplitRows, NEW i \in Nat
  PROVE  Framed(ScrolledTo(m, es, i), es)
<1> DEFINE sel == SelectedAt(m, i)
           k == Highlighted(sel, es)
           n == ScrolledTo(m, es, i)
           start == StartRow(sel, es, k, ContentWidth)
           rows == Rows(sel, es[k], ContentWidth)
           top == m.top[m.step]
           most == ScrollRows(m)
           t == LazyScroll(sel, es, k)
<1>1. sel \in ModalTypes /\ sel.kind = m.kind /\ sel.step = m.step /\ sel.direct = m.direct
      /\ sel.top[m.step] = top
  <2>1. sel.top = m.top
    BY DEF ModalTypes, SelectedAt
  <2> QED BY <2>1, SelectedRolls, RolledTypes
<1>2. n \in ModalTypes /\ n.kind = m.kind /\ n.step = m.step /\ n.direct = m.direct
  BY ScrolledRolls, RolledTypes
<1>3. n = [sel EXCEPT !.top[m.step] = t]
  BY DEF ScrolledTo
<1> HIDE DEF sel, n, t
<1>4. n.at = sel.at /\ n.top[m.step] = t
  <2>1. sel.top \in [ModalSteps -> Nat] /\ m.step \in ModalSteps
    BY <1>1, ModalFields
  <2> QED BY <1>1, <1>3, <2>1 DEF ModalTypes
<1>5. k \in 1 .. Len(es) /\ Len(es) \in Nat /\ Listed(sel, es)
  BY <1>1, ModalFields, HighlightedRange, ListFacts DEF Listed
<1>6. Highlighted(n, es) = k
  BY <1>1, <1>2, <1>4 DEF Highlighted, Resolved
<1>7. \A e, w : Rows(n, e, w) = Rows(sel, e, w)
  BY <1>1, <1>2 DEF Rows
<1>8. \A w : StartRow(n, es, k, w) = StartRow(sel, es, k, w)
  BY <1>7 DEF StartRow
<1>9. ListRows(n) = ListRows(m) /\ ScrollRows(sel) = most
  BY <1>1, <1>2 DEF ListRows, ScrollRows, BoxRows, HeaderRows
<1>10. t = IF start < top THEN start
           ELSE IF start + rows > top + most THEN (start + rows) - most ELSE top
  BY <1>1, <1>9 DEF LazyScroll, t
<1>11. start \in Nat /\ rows \in 1 .. SplitRows /\ top \in Nat
  <2>1. ContentWidth \in Nat \ {0}
    BY ListModalsAssumptions
  <2> HIDE DEF k
  <2>2. start \in Nat /\ rows \in 1 .. SplitRows
    BY <1>1, <1>5, <2>1, ScrollFacts
  <2> QED BY <2>2, ModalFields
<1>12. ListRows(m) \in Nat \ {0} /\ rows <= ListRows(m)
  <2>1. CASE m.kind # "wizard"
    BY <1>11, <2>1, ListRowsRange, ListModalsAssumptions
  <2>2. CASE m.kind = "wizard"
    <3>1. rows = 1
      BY <1>1, <2>2 DEF Rows
    <3>2. ListRows(m) \in Nat \ {0}
      BY <2>2, ListRowsRange DEF StepsOf
    <3> QED BY <3>1, <3>2
  <2> QED BY <2>1, <2>2
<1>13. m.kind # "picker" => most = ListRows(m)
  BY DEF ScrollRows
<1>14. m.kind = "picker" => /\ most = PickerRows /\ PickerRows \in Nat \ {0}
                            /\ ListRows(m) = SplitRows /\ SplitRows \in Nat
                            /\ rows = 1 /\ start + rows <= SplitRows
  <2> SUFFICES ASSUME m.kind = "picker"
               PROVE  /\ most = PickerRows /\ PickerRows \in Nat \ {0}
                      /\ ListRows(m) = SplitRows /\ SplitRows \in Nat
                      /\ rows = 1 /\ start + rows <= SplitRows
    OBVIOUS
  <2>1. most = PickerRows /\ ListRows(m) = SplitRows
    BY ListRowsRange DEF ScrollRows
  <2>2. PickerRows \in Nat \ {0} /\ SplitRows \in Nat
    BY ListModalsAssumptions
  <2>3. rows = 1
    BY <1>1 DEF Rows
  <2> HIDE DEF k
  <2>4. start <= k - 1
    BY <1>1, <1>5, OneRowEach
  <2> QED BY <1>5, <1>11, <2>1, <2>2, <2>3, <2>4
<1> HIDE DEF k, start, rows, top, most
<1>15. t <= start /\ start + rows <= t + ListRows(m)
  <2>1. CASE m.kind # "picker"
    BY <1>10, <1>11, <1>12, <1>13, <2>1
  <2>2. CASE m.kind = "picker"
    BY <1>10, <1>11, <1>12, <1>14, <2>2
  <2> QED BY <2>1, <2>2
<1> QED BY <1>2, <1>4, <1>6, <1>7, <1>8, <1>9, <1>15 DEF Framed, n, start, rows

\* A key that moves the highlight keeps it in sight.
LEMMA MovedIsSeen ==
  ASSUME NEW m \in ModalTypes, m.step \in StepsOf(m.kind), history \in Seq(Completing),
         RowWidth(width) = ContentWidth, NEW n, NEW d \in {-1, 1},
         m.kind = "picker" => Len(Entries(m, m.step)) <= SplitRows,
         n \in {Moved(m, Entries(m, m.step), d), Wheeled(m, Entries(m, m.step), d)}
  PROVE  Sees(n, m.step)
<1> DEFINE es == Entries(m, m.step)
<1>1. Listed(m, es)
  BY EntriesAreLists DEF Listed
<1>2. CASE es = <<>>
  <2>1. n = m
    BY <1>2 DEF Moved, Wheeled
  <2> QED BY <1>2, <2>1, SeesNone
<1>3. CASE es # <<>>
  <2>1. Rolled(m, n)
    BY <1>1, MovedRolls
  <2>2. /\ n \in ModalTypes /\ n.kind = m.kind /\ n.step = m.step /\ n.filter = m.filter
        /\ n.targets = m.targets /\ n.columns = m.columns
    BY <2>1, RolledTypes
  <2>3. Entries(n, m.step) = es
    BY <2>2, SameEntries
  <2>4. Len(es) \in Nat /\ Len(es) # 0 /\ m.at[m.step] \in Nat
    BY <1>1, <1>3, ListFacts, ModalFields DEF Listed
  <2>5. \E i \in Nat : n = ScrolledTo(m, es, i)
    <3> DEFINE to == m.at[m.step] + d
               i == to % Len(es)
               j == IF to < 0 THEN 0 ELSE Clamped(to, Len(es))
    <3>1. i \in Nat /\ j \in Nat
      <4>1. to \in Int
        BY <2>4
      <4> QED BY <2>4, <4>1 DEF Clamped
    <3>2. n \in {ScrolledTo(m, es, i), ScrolledTo(m, es, j)}
      BY <1>3 DEF Moved, Wheeled
    <3> HIDE DEF i, j
    <3> QED BY <3>1, <3>2
  <2> HIDE DEF es
  <2>6. Framed(n, es)
    BY <1>1, <1>3, <2>5, ScrolledIsFramed DEF es
  <2>7. ShownWhole(n, es)
    <3>1. Listed(n, es) /\ n.step \in StepsOf(n.kind)
      BY <1>1, <2>2 DEF Listed
    <3> QED BY <1>3, <2>2, <2>6, <3>1, FramedIsShown
  <2>8. Stepped(n, m.step) = n
    BY <2>2 DEF Stepped, ModalTypes
  <2> QED BY <2>3, <2>7, <2>8 DEF Sees
<1> QED BY <1>2, <1>3

\* The steps a modal is looked at in are its own.
LEMMA SeenSteps ==
  ASSUME NEW m, ModalInv(m)
  PROVE  /\ m \in ModalTypes /\ m.kind \in Kinds /\ m.step \in StepsOf(m.kind)
         /\ m.kind # "wizard" => "list" \in StepsOf(m.kind)
         /\ m.kind = "wizard" => StepsOf(m.kind) = {"command", "target", "column"} /\ WizardInv(m)
         /\ StepsOf(m.kind) \subseteq ModalSteps
BY ModalFields DEF ModalInv, StepsOf, ModalSteps

LEMMA MovedInSight ==
  ASSUME NEW m, ModalInv(m), HighlightInSight(m), history \in Seq(Completing),
         RowWidth(width) = ContentWidth, NEW n, NEW d \in {-1, 1},
         m.kind = "picker" => Len(Entries(m, m.step)) <= SplitRows,
         n \in {Moved(m, Entries(m, m.step), d), Wheeled(m, Entries(m, m.step), d)}
  PROVE  HighlightInSight(n)
<1>1. /\ m \in ModalTypes /\ m.step \in StepsOf(m.kind) /\ m.step \in ModalSteps
      /\ Listed(m, Entries(m, m.step))
  BY SeenSteps, EntriesAreLists, ModalFields DEF Listed
<1>2. Rolled(m, n)
  BY <1>1, MovedRolls
<1>3. /\ n \in ModalTypes /\ n.kind = m.kind /\ n.filter = m.filter
      /\ n.targets = m.targets /\ n.columns = m.columns /\ n.direct = m.direct
      /\ \A s \in ModalSteps \ {m.step} : n.at[s] = m.at[s] /\ n.top[s] = m.top[s]
  BY <1>1, <1>2, RolledTypes
<1>4. Sees(n, m.step)
  BY <1>1, MovedIsSeen
<1>5. \A s \in ModalSteps : Sees(m, s) => Sees(n, s)
  <2> SUFFICES ASSUME NEW s \in ModalSteps, Sees(m, s), s # m.step PROVE Sees(n, s)
    BY <1>4
  <2>1. Entries(n, s) = Entries(m, s)
    BY <1>3, SameEntries
  <2> QED BY <1>1, <1>3, <2>1, SeesSame
<1>6. {"list", "command", "target", "column"} \subseteq ModalSteps
  BY DEF ModalSteps
<1> QED BY <1>3, <1>5, <1>6, SightOfSteps

\* A filter that changes goes back to the top of its list.
LEMMA FilteredInSight ==
  ASSUME NEW m, ModalInv(m), HighlightInSight(m), history \in Seq(Completing),
         RowWidth(width) = ContentWidth, m.step \in Filtered, NEW f \in Seq(Letters)
  PROVE  HighlightInSight(FilteredBy(m, f))
<1> DEFINE n == FilteredBy(m, f)
<1>1. /\ m \in ModalTypes /\ m.step \in StepsOf(m.kind) /\ m.step \in ModalSteps
      /\ StepsOf(m.kind) \subseteq ModalSteps
  BY SeenSteps
<1>2. n = [m EXCEPT !.filter = f, !.at[m.step] = 0, !.top[m.step] = 0]
  BY DEF FilteredBy
<1> HIDE DEF n
<1>3. /\ n \in ModalTypes /\ n.kind = m.kind /\ n.direct = m.direct
      /\ n.columns = m.columns
      /\ n.at = [m.at EXCEPT ![m.step] = 0] /\ n.top = [m.top EXCEPT ![m.step] = 0]
  BY <1>1, <1>2 DEF ModalTypes
<1>4. /\ n.at[m.step] = 0 /\ n.top[m.step] = 0
      /\ \A s \in ModalSteps \ {m.step} : n.at[s] = m.at[s] /\ n.top[s] = m.top[s]
  BY <1>1, <1>3, ModalFields
<1>5. Sees(n, m.step)
  BY <1>1, <1>3, <1>4, SeesTop
<1>6. m.kind # "wizard" => m.step = "list"
  BY <1>1 DEF Filtered, StepsOf
<1>7. ASSUME m.kind = "wizard"
      PROVE  /\ m.step = "target" /\ Sees(n, "column")
             /\ Sees(m, "command") => Sees(n, "command")
  <2>1. m.step = "target" /\ WizardInv(m)
    BY <1>1, <1>7, SeenSteps DEF Filtered
  <2>2. Entries(n, "column") = <<>>
    BY <1>3, <1>7, <2>1, EntriesOf DEF WizardInv, StepsOf
  <2>3. Entries(n, "command") = Entries(m, "command") /\ "command" \in ModalSteps
    BY <1>3, <1>7, EntriesOf DEF StepsOf, ModalSteps
  <2>4. Sees(m, "command") => Sees(n, "command")
    <3>1. n.at["command"] = m.at["command"] /\ n.top["command"] = m.top["command"]
      BY <1>4, <2>1, <2>3
    <3> QED BY <1>1, <1>3, <2>3, <3>1, SeesSame
  <2> QED BY <2>1, <2>2, <2>4, SeesNone
<1> QED BY <1>3, <1>5, <1>6, <1>7, SightOfSteps DEF n

LEMMA TickedInSight ==
  ASSUME NEW m, ModalInv(m), HighlightInSight(m), m.step = "column", NEW cols \in Seq(Offered),
         DOMAIN cols = DOMAIN m.columns
  PROVE  HighlightInSight([m EXCEPT !.columns = cols])
<1> DEFINE n == [m EXCEPT !.columns = cols]
<1>1. /\ m \in ModalTypes /\ m.kind = "wizard" /\ m.columns \in Seq(Offered)
      /\ {"command", "target", "column"} \subseteq ModalSteps
  BY ModalFields DEF ModalInv, StepsOf, Kinds, ModalSteps
<1>2. /\ n \in ModalTypes /\ n.kind = m.kind /\ n.direct = m.direct /\ n.filter = m.filter
      /\ n.targets = m.targets /\ n.columns = cols /\ n.at = m.at /\ n.top = m.top
  BY <1>1 DEF ModalTypes
<1> HIDE DEF n
<1>3. \A s \in {"command", "target"} : Entries(n, s) = Entries(m, s)
  BY <1>1, <1>2, EntriesOf DEF StepsOf
<1>4. \A s \in {"command", "target"} : Sees(m, s) => Sees(n, s)
  BY <1>1, <1>2, <1>3, SeesSame
<1>5. Sees(m, "column") => Sees(n, "column")
  <2> DEFINE ms == Stepped(m, "column")
             ns == Stepped(n, "column")
  <2>1. /\ ns.kind = ms.kind /\ ns.step = ms.step /\ ns.direct = ms.direct
        /\ ns.at[ms.step] = ms.at[ms.step] /\ ns.top[ms.step] = ms.top[ms.step]
        /\ ms.kind = "wizard"
    BY <1>1, <1>2, SteppedFields
  <2>2. Entries(m, "column") = m.columns /\ Entries(n, "column") = cols
    BY <1>1, <1>2, EntriesOf DEF StepsOf
  <2>3. IsList(m.columns) /\ IsList(cols)
    BY <1>1, SeqIsList
  <2>4. Len(m.columns) = Len(cols)
    BY <1>1
  <2> HIDE DEF ms, ns
  <2>5. ShownWhole(ms, m.columns) => ShownWhole(ms, cols)
    BY <2>1, <2>3, <2>4, SameLength
  <2>6. ShownWhole(ms, cols) => ShownWhole(ns, cols)
    BY <2>1, SameView
  <2> QED BY <2>2, <2>5, <2>6 DEF Sees, ms, ns
<1> QED BY <1>1, <1>2, <1>4, <1>5, SightOfSteps DEF n

\* What Enter leads to in a step of the same modal: its new lists are shown from their top, those
\* that can be gone back to stay as they are.
LEMMA AtTargetsInSight ==
  ASSUME NEW m, ModalInv(m), HighlightInSight(m), history \in Seq(Completing),
         RowWidth(width) = ContentWidth, m.kind = "wizard", m.step = "command"
  PROVE  HighlightInSight(AtTargets(m))
<1> DEFINE f == Fresh("wizard", "target")
           n == AtTargets(m)
<1>1. /\ m \in ModalTypes /\ ~m.direct
      /\ {"command", "target", "column"} \subseteq ModalSteps
  BY SeenSteps DEF WizardInv, ModalSteps
<1>2. /\ f \in ModalTypes /\ f.kind = "wizard" /\ f.columns = <<>> /\ f.direct = FALSE
      /\ f.at["target"] = 0
  BY FreshTypes DEF Kinds, ModalSteps
<1>3. n = [f EXCEPT !.at["command"] = m.at["command"],
                    !.top = [m.top EXCEPT !["target"] = 0], !.targets = Tables]
  BY DEF AtTargets
<1> HIDE DEF f, n
<1>4. /\ n.kind = "wizard" /\ n.columns = <<>> /\ ~n.direct
      /\ n.at = [f.at EXCEPT !["command"] = m.at["command"]]
      /\ n.top = [m.top EXCEPT !["target"] = 0]
  BY <1>2, <1>3 DEF ModalTypes
<1>5. n \in ModalTypes
  BY <1>1, AtTargetsInv DEF n, ModalInv
<1>6. f.at \in [ModalSteps -> Nat] /\ m.top \in [ModalSteps -> Nat]
  BY <1>1, <1>2, ModalFields
<1>7. /\ n.at["target"] = 0 /\ n.top["target"] = 0
      /\ n.at["command"] = m.at["command"] /\ n.top["command"] = m.top["command"]
  BY <1>1, <1>2, <1>4, <1>6
<1>8. Sees(n, "target")
  BY <1>1, <1>4, <1>5, <1>7, SeesTop DEF StepsOf
<1>9. Sees(n, "column")
  BY <1>4, EntriesOf, SeesNone DEF StepsOf
<1>10. Sees(m, "command") => Sees(n, "command")
  <2>1. Entries(n, "command") = Commands
    BY <1>4, EntriesOf DEF StepsOf
  <2>2. Entries(m, "command") = Commands
    BY EntriesOf DEF StepsOf
  <2>3. n.direct = m.direct
    BY <1>1, <1>4, <1>5, ModalFields
  <2> QED BY <1>1, <1>4, <1>5, <1>7, <2>1, <2>2, <2>3, SeesSame
<1> QED BY <1>1, <1>4, <1>8, <1>9, <1>10, SightOfSteps DEF n

LEMMA AtColumnsInSight ==
  ASSUME NEW m, ModalInv(m), HighlightInSight(m), history \in Seq(Completing),
         RowWidth(width) = ContentWidth, m.kind = "wizard", m.step = "target",
         Entries(m, "target") # <<>>
  PROVE  HighlightInSight(AtColumns(m, Chosen(m, "target")))
<1> DEFINE t == Chosen(m, "target")
           n == AtColumns(m, t)
<1>1. m \in ModalTypes /\ {"command", "target", "column"} \subseteq ModalSteps
  BY SeenSteps DEF ModalSteps
<1>2. n = [m EXCEPT !.step = "column", !.columns = ColumnsFor(t),
                    !.at["column"] = 0, !.top["column"] = 0]
  BY DEF AtColumns
<1>3. n \in ModalTypes
  BY AtColumnsInv DEF ModalInv
<1> HIDE DEF n, t
<1>4. /\ n.kind = m.kind /\ n.direct = m.direct /\ n.filter = m.filter /\ n.targets = m.targets
      /\ n.at = [m.at EXCEPT !["column"] = 0] /\ n.top = [m.top EXCEPT !["column"] = 0]
  BY <1>1, <1>2 DEF ModalTypes
<1>5. /\ n.at["column"] = 0 /\ n.top["column"] = 0
      /\ \A s \in {"command", "target"} : n.at[s] = m.at[s] /\ n.top[s] = m.top[s]
  BY <1>1, <1>4, ModalFields
<1>6. Sees(n, "column")
  BY <1>1, <1>3, <1>4, <1>5, SeesTop DEF StepsOf
<1>7. \A s \in {"command", "target"} : Entries(n, s) = Entries(m, s)
  BY <1>4, EntriesOf DEF StepsOf
<1>8. \A s \in {"command", "target"} : Sees(m, s) => Sees(n, s)
  BY <1>1, <1>3, <1>4, <1>5, <1>7, SeesSame
<1> QED BY <1>4, <1>6, <1>8, SightOfSteps DEF n, t

\* A wizard opened for a command starts at its tables.
LEMMA DirectWizardInSight ==
  ASSUME NEW c, \E j \in DOMAIN Commands : Commands[j].text = c,
         history \in Seq(Completing), RowWidth(width) = ContentWidth
  PROVE  HighlightInSight(DirectWizard(c))
<1> DEFINE f == Fresh("wizard", "target")
           j == CHOOSE i \in DOMAIN Commands : Commands[i].text = c
           n == DirectWizard(c)
<1>1. /\ f \in ModalTypes /\ f.kind = "wizard" /\ f.columns = <<>>
      /\ f.at["target"] = 0 /\ f.top["target"] = 0
  BY FreshTypes DEF Kinds, ModalSteps
<1>2. n = [f EXCEPT !.at["command"] = j - 1, !.targets = Tables, !.direct = TRUE]
  BY DEF DirectWizard
<1>3. n \in ModalTypes
  BY DirectWizardInv DEF ModalInv
<1> HIDE DEF f, j, n
<1>4. /\ n.kind = "wizard" /\ n.columns = <<>> /\ n.direct
      /\ n.at["target"] = 0 /\ n.top["target"] = 0
  BY <1>1, <1>2 DEF ModalTypes
<1>5. Sees(n, "target")
  BY <1>3, <1>4, SeesTop DEF StepsOf, ModalSteps
<1>6. Sees(n, "column")
  BY <1>4, EntriesOf, SeesNone DEF StepsOf
<1> QED BY <1>4, <1>5, <1>6, SightOfSteps DEF n

LEMMA SubmittedInSight ==
  ASSUME NEW m, ModalInv(m), HighlightInSight(m), history \in Seq(Completing),
         RowWidth(width) = ContentWidth, NEW s \in Submitted(m), s.modal # None,
         s.modal.kind = m.kind
  PROVE  HighlightInSight(s.modal)
<1>1. m \in ModalTypes /\ m.step \in StepsOf(m.kind) /\ m.kind \in Kinds
  BY SeenSteps
<1>2. CASE m.kind = "picker"
  <2>1. s.modal = m
    BY <1>1, <1>2, SubmittedOf DEF PickerSubmitted, Closed, Becomes
  <2> QED BY <2>1
<1>3. CASE m.kind = "history"
  <2>1. s.modal = m
    BY <1>1, <1>3, SubmittedOf DEF HistorySubmitted, Becomes
  <2> QED BY <2>1
<1>4. CASE m.kind = "help"
  <2>1. s \in HelpSubmitted(m)
    BY <1>1, <1>4, SubmittedOf
  <2>2. s.modal = DirectWizard(Chosen(m, "list").command)
    BY <2>1 DEF HelpSubmitted, Closed, Becomes
  <2>3. s.modal.kind = "wizard"
    BY <2>2, FreshTypes DEF DirectWizard, Fresh, Kinds, ModalSteps
  <2> QED BY <1>4, <2>3
<1>5. CASE m.kind = "export"
  <2> DEFINE n == [m EXCEPT !.step = "path"]
  <2>1. s \in ExportSubmitted(m)
    BY <1>1, <1>5, SubmittedOf
  <2>2. s.modal = m \/ s.modal = n
    BY <2>1 DEF ExportSubmitted, Becomes
  <2>3. Stepped(n, "list") = Stepped(m, "list") /\ n.kind = m.kind
    BY <1>1 DEF Stepped, ModalTypes
  <2>4. Entries(n, "list") = Entries(m, "list")
    <3>1. n.filter = m.filter /\ n.targets = m.targets /\ n.columns = m.columns
      BY <1>1 DEF ModalTypes
    <3> HIDE DEF n
    <3> QED BY <2>3, <3>1, SameEntries
  <2> HIDE DEF n
  <2>5. HighlightInSight(n)
    BY <1>5, <2>3, <2>4, SightOfSteps DEF Sees
  <2> QED BY <2>2, <2>5
<1>6. CASE m.kind = "wizard" /\ m.step = "command"
  <2>1. s \in CommandSubmitted(m)
    BY <1>1, <1>6, SubmittedOf
  <2>2. s.modal = AtTargets(m)
    BY <2>1 DEF CommandSubmitted, Closed, Becomes
  <2> QED BY <1>6, <2>2, AtTargetsInSight
<1>7. CASE m.kind = "wizard" /\ m.step = "target"
  <2>1. s \in TargetSubmitted(m)
    BY <1>1, <1>7, SubmittedOf
  <2>2. \/ s.modal = m
        \/ Entries(m, "target") # <<>> /\ s.modal = AtColumns(m, Chosen(m, "target"))
    BY <2>1 DEF TargetSubmitted, Closed, Becomes
  <2> QED BY <1>7, <2>2, AtColumnsInSight
<1>8. CASE m.kind = "wizard" /\ m.step = "column"
  <2>1. s \in ColumnSubmitted(m)
    BY <1>1, <1>8, SubmittedOf
  <2>2. s.modal = m
    BY <2>1 DEF ColumnSubmitted, Becomes
  <2> QED BY <2>2
<1>9. m.kind = "wizard" => m.step \in {"command", "target", "column"}
  BY <1>1 DEF StepsOf
<1> QED BY <1>1, <1>2, <1>3, <1>4, <1>5, <1>6, <1>7, <1>8, <1>9 DEF Kinds

LEMMA SubmittedElsewhere ==
  ASSUME NEW m, ModalInv(m), history \in Seq(Completing), RowWidth(width) = ContentWidth,
         NEW s \in Submitted(m), s.modal # None, s.modal.kind # m.kind
  PROVE  HighlightInSight(s.modal)
<1>1. m \in ModalTypes /\ m.step \in StepsOf(m.kind) /\ m.kind \in Kinds
  BY SeenSteps
<1>2. m.kind \in {"picker", "history", "export"} \/ (m.kind = "wizard" /\ m.step = "column")
        => s.modal.kind = m.kind
  <2>1. m.kind = "picker" => s.modal = m
    BY <1>1, SubmittedOf DEF PickerSubmitted, Closed, Becomes
  <2>2. m.kind = "history" => s.modal = m
    BY <1>1, SubmittedOf DEF HistorySubmitted, Becomes
  <2>3. m.kind = "export" => s.modal = m \/ s.modal = [m EXCEPT !.step = "path"]
    <3> SUFFICES ASSUME m.kind = "export"
                 PROVE  s.modal = m \/ s.modal = [m EXCEPT !.step = "path"]
      OBVIOUS
    <3>1. s \in ExportSubmitted(m)
      BY <1>1, SubmittedOf
    <3> QED BY <3>1 DEF ExportSubmitted, Becomes
  <2>4. m.kind = "wizard" /\ m.step = "column" => s.modal = m
    BY <1>1, SubmittedOf DEF ColumnSubmitted, Becomes
  <2>5. [m EXCEPT !.step = "path"].kind = m.kind
    BY <1>1 DEF ModalTypes
  <2> QED BY <2>1, <2>2, <2>3, <2>4, <2>5
<1>3. m.kind = "wizard" /\ m.step = "command" => s.modal.kind = "wizard"
  <2>1. AtTargets(m).kind = "wizard"
    BY DEF AtTargets, Fresh
  <2> QED BY <1>1, <2>1, SubmittedOf DEF CommandSubmitted, Closed, Becomes
<1>4. m.kind = "wizard" /\ m.step = "target" => s.modal.kind = "wizard"
  <2>1. m.kind = "wizard" => \A t : AtColumns(m, t).kind = "wizard"
    BY <1>1 DEF AtColumns, ModalTypes
  <2> QED BY <1>1, <2>1, SubmittedOf DEF TargetSubmitted, Closed, Becomes
<1>5. m.kind = "help"
  BY <1>1, <1>2, <1>3, <1>4 DEF Kinds, StepsOf
<1>6. s.modal = DirectWizard(Chosen(m, "list").command)
      /\ \E j \in DOMAIN Commands : Commands[j].text = Chosen(m, "list").command
  BY <1>1, <1>5, HelpOpensCommands, SubmittedOf DEF HelpSubmitted, Closed, Becomes
<1> QED BY <1>6, DirectWizardInSight

\* Esc goes back to a step that has kept its place, or to the top of the unfiltered list.
LEMMA EscapedInSight ==
  ASSUME NEW m, ModalInv(m), HighlightInSight(m), history \in Seq(Completing),
         RowWidth(width) = ContentWidth, Escaped(m) # None
  PROVE  HighlightInSight(Escaped(m))
<1>1. /\ m \in ModalTypes /\ m.step \in StepsOf(m.kind) /\ m.kind \in Kinds
      /\ {"command", "target", "column"} \subseteq ModalSteps
  BY SeenSteps DEF ModalSteps
<1>2. CASE m.step = "column"
  <2> DEFINE n == [m EXCEPT !.step = "target", !.columns = <<>>, !.at["column"] = 0]
  <2>1. Escaped(m) = n
    BY <1>2 DEF Escaped, Filtered
  <2>2. m.kind = "wizard"
    BY <1>1, <1>2 DEF StepsOf, Kinds
  <2>3. n \in ModalTypes
    BY <2>1, EscapedInv DEF ModalInv
  <2>4. /\ n.kind = m.kind /\ n.direct = m.direct /\ n.filter = m.filter
        /\ n.targets = m.targets /\ n.columns = <<>>
        /\ n.at = [m.at EXCEPT !["column"] = 0] /\ n.top = m.top
    BY <1>1 DEF ModalTypes
  <2> HIDE DEF n
  <2>5. \A s \in {"command", "target"} : n.at[s] = m.at[s] /\ n.top[s] = m.top[s]
    BY <1>1, <2>4, ModalFields
  <2>6. \A s \in {"command", "target"} : Entries(n, s) = Entries(m, s)
    BY <2>2, <2>4, EntriesOf DEF StepsOf
  <2>7. \A s \in {"command", "target"} : Sees(m, s) => Sees(n, s)
    BY <1>1, <2>3, <2>4, <2>5, <2>6, SeesSame
  <2>8. Sees(n, "column")
    BY <2>2, <2>4, EntriesOf, SeesNone DEF StepsOf
  <2> QED BY <2>1, <2>2, <2>4, <2>7, <2>8, SightOfSteps
<1>3. CASE m.step = "path"
  <2> DEFINE n == [m EXCEPT !.step = "list"]
  <2>1. Escaped(m) = n
    BY <1>3 DEF Escaped, Filtered
  <2>2. m.kind = "export"
    BY <1>1, <1>3 DEF StepsOf, Kinds
  <2>3. /\ Stepped(n, "list") = Stepped(m, "list") /\ n.kind = m.kind /\ n.filter = m.filter
        /\ n.targets = m.targets /\ n.columns = m.columns
    BY <1>1 DEF Stepped, ModalTypes
  <2> HIDE DEF n
  <2>4. Entries(n, "list") = Entries(m, "list")
    BY <2>3, SameEntries
  <2> QED BY <2>1, <2>2, <2>3, <2>4, SightOfSteps DEF Sees
<1>4. CASE m.step \in Filtered /\ Trimmed(m.filter) # <<>>
  <2>1. Escaped(m) = FilteredBy(m, <<>>) /\ <<>> \in Seq(Letters)
    BY <1>4 DEF Escaped, Filtered
  <2> QED BY <1>4, <2>1, FilteredInSight
<1>5. CASE m.step = "target" /\ ~m.direct /\ Trimmed(m.filter) = <<>>
  <2> DEFINE n == [m EXCEPT !.step = "command", !.targets = <<>>, !.at["target"] = 0]
  <2>1. Escaped(m) = n
    BY <1>5 DEF Escaped, Filtered
  <2>2. m.kind = "wizard"
    BY <1>1, <1>5 DEF StepsOf, Kinds
  <2>3. m.columns = <<>>
    BY <1>5, <2>2, SeenSteps DEF WizardInv
  <2>4. n \in ModalTypes
    BY <2>1, EscapedInv DEF ModalInv
  <2>5. /\ n.kind = m.kind /\ n.direct = m.direct /\ n.filter = m.filter
        /\ n.targets = <<>> /\ n.columns = m.columns
        /\ n.at = [m.at EXCEPT !["target"] = 0] /\ n.top = m.top
    BY <1>1 DEF ModalTypes
  <2> HIDE DEF n
  <2>6. n.at["command"] = m.at["command"]
    BY <1>1, <2>5, ModalFields
  <2>7. Entries(n, "command") = Commands /\ Entries(m, "command") = Commands
    BY <2>2, <2>5, EntriesOf DEF StepsOf
  <2>8. Sees(m, "command") => Sees(n, "command")
    BY <1>1, <2>4, <2>5, <2>6, <2>7, SeesSame
  <2>9. Entries(n, "target") = <<>> /\ Entries(n, "column") = <<>>
    <3>1. Entries(n, "target") = Ranked(<<>>, m.filter) /\ Entries(n, "column") = <<>>
      BY <2>2, <2>3, <2>5, EntriesOf DEF StepsOf
    <3>2. Ranked(<<>>, m.filter) = <<>>
      BY <1>5 DEF Ranked
    <3> QED BY <3>1, <3>2
  <2> QED BY <2>1, <2>2, <2>5, <2>8, <2>9, SeesNone, SightOfSteps
<1>6. CASE /\ m.step # "column" /\ m.step # "path"
           /\ ~(m.step \in Filtered /\ Trimmed(m.filter) # <<>>)
           /\ ~(m.step = "target" /\ ~m.direct)
  BY <1>6 DEF Escaped, Filtered
<1> QED BY <1>2, <1>3, <1>4, <1>5, <1>6 DEF Filtered

LEMMA KeyKeepsSight ==
  ASSUME ListsInv, Next, by' = "key", modal # None, modal' # None,
         RowWidth(width) = ContentWidth, modal'.kind = modal.kind => HighlightInSight(modal),
         NEW n, n = modal', ~PickerOverflows(n)
  PROVE  HighlightInSight(modal')
<1>1. /\ ModalInv(modal) /\ history \in Seq(Completing) /\ modal \in ModalTypes
      /\ modal.step \in StepsOf(modal.kind)
  BY DEF ListsInv, ModalInv
<1>2. modal.filter \in Seq(Letters) /\ modal.columns \in Seq(Offered)
  BY <1>1, ModalFields
<1>3. ASSUME NEW d \in {-1, 1}, Move(d) \/ Wheel(d) PROVE HighlightInSight(modal')
  <2>1. modal' = Moved(modal, Shown, d) \/ modal' = Wheeled(modal, Shown, d)
    BY <1>3 DEF Move, Wheel, Shows
  <2>2. Rolled(modal, modal')
    BY <1>1, <2>1, ShownIsListed, MovedRolls
  <2>3. HighlightInSight(modal)
    BY <1>1, <2>2, RolledTypes
  <2>4. modal.kind = "picker" => Len(Shown) <= SplitRows
    <3> SUFFICES ASSUME modal.kind = "picker" PROVE Len(Shown) <= SplitRows
      OBVIOUS
    <3>1. modal.step = "list"
      BY <1>1 DEF StepsOf
    <3>2. /\ n.kind = modal.kind /\ n.filter = modal.filter
          /\ n.targets = modal.targets /\ n.columns = modal.columns
      BY <1>1, <2>2, RolledTypes
    <3>3. Entries(n, "list") = Shown
      BY <3>1, <3>2, SameEntries DEF Shown
    <3>4. Len(Shown) \in Nat /\ SplitRows \in Nat
      BY ShownIsListed, ListFacts, ListModalsAssumptions DEF Listed
    <3> QED BY <3>2, <3>3, <3>4 DEF PickerOverflows
  <2> QED BY <1>1, <2>1, <2>3, <2>4, MovedInSight DEF Shown
<1>4. ASSUME modal.step \in Filtered, NEW f \in Seq(Letters), modal' = FilteredBy(modal, f)
      PROVE  HighlightInSight(modal')
  <2>1. modal'.kind = modal.kind
    BY <1>1, <1>4 DEF FilteredBy, ModalTypes
  <2> QED BY <1>1, <1>4, <2>1, FilteredInSight
<1>5. ASSUME NEW c \in Letters, Type(c) PROVE HighlightInSight(modal')
  <2>1. Append(modal.filter, c) \in Seq(Letters)
    BY <1>2
  <2> QED BY <1>4, <1>5, <2>1 DEF Type, Shows
<1>6. CASE Backspace
  <2> DEFINE f == IF modal.filter = <<>> THEN <<>>
                  ELSE SubSeq(modal.filter, 1, Len(modal.filter) - 1)
  <2>1. f \in Seq(Letters)
    <3>1. modal.filter # <<>> => Len(modal.filter) - 1 \in 0 .. Len(modal.filter)
      BY <1>2
    <3> QED BY <1>2, <3>1
  <2>2. modal.step \in Filtered /\ modal' = FilteredBy(modal, f)
    BY <1>6 DEF Backspace, Shows
  <2> HIDE DEF f
  <2> QED BY <1>4, <2>1, <2>2
<1>7. ASSUME modal.step = "column", NEW cols, DOMAIN cols = DOMAIN modal.columns,
             cols \in Seq(Offered), modal' = [modal EXCEPT !.columns = cols]
      PROVE  HighlightInSight(modal')
  <2>1. modal'.kind = modal.kind
    BY <1>1, <1>7 DEF ModalTypes
  <2> QED BY <1>1, <1>7, <2>1, TickedInSight
<1>8. ASSUME Toggle \/ ToggleAll
      PROVE  /\ modal.step = "column"
             /\ \E cols : /\ DOMAIN cols = DOMAIN modal.columns /\ cols \in Seq(Offered)
                          /\ modal' = [modal EXCEPT !.columns = cols]
  <2> DEFINE k == Highlighted(modal, Shown)
             every == \A i \in DOMAIN modal.columns : modal.columns[i].ticked
             one == [modal.columns EXCEPT ![k].ticked = ~@]
             all == [i \in DOMAIN modal.columns |-> [modal.columns[i] EXCEPT !.ticked = ~every]]
  <2>1. modal.step = "column" /\ \E cols \in {one, all} : modal' = [modal EXCEPT !.columns = cols]
    BY <1>8 DEF Toggle, ToggleAll, Shows
  <2>2. Len(modal.columns) \in Nat /\ DOMAIN modal.columns = 1 .. Len(modal.columns)
    BY <1>2
  <2>3. ASSUME NEW cols \in {one, all} PROVE DOMAIN cols = DOMAIN modal.columns
    BY <1>2
  <2>4. ASSUME NEW cols \in {one, all}, NEW i \in DOMAIN modal.columns PROVE cols[i] \in Offered
    <3>1. modal.columns[i] \in Offered
      BY <1>2
    <3>2. \A b \in BOOLEAN : [modal.columns[i] EXCEPT !.ticked = b] \in Offered
      BY <3>1 DEF Offered
    <3>3. PICK b \in BOOLEAN : b = ~every
      OBVIOUS
    <3>4. modal.columns[i].ticked \in BOOLEAN
      BY <3>1 DEF Offered
    <3>5. all[i] = [modal.columns[i] EXCEPT !.ticked = b]
      BY <3>3
    <3>6. one[i] = modal.columns[i]
          \/ one[i] = [modal.columns[i] EXCEPT !.ticked = ~modal.columns[i].ticked]
      <4> HIDE DEF k
      <4> QED BY <1>2
    <3> HIDE DEF one, all
    <3> QED BY <3>1, <3>2, <3>4, <3>5, <3>6
  <2>5. ASSUME NEW cols \in {one, all} PROVE cols = [i \in 1 .. Len(modal.columns) |-> cols[i]]
    BY <1>2, <2>2
  <2> HIDE DEF one, all
  <2>6. ASSUME NEW cols \in {one, all} PROVE cols \in Seq(Offered)
    <3>1. cols \in [1 .. Len(modal.columns) -> Offered]
      BY <2>2, <2>4, <2>5
    <3> QED BY <2>2, <3>1
  <2> QED BY <2>1, <2>3, <2>6
<1>9. CASE Toggle \/ ToggleAll
  BY <1>7, <1>8, <1>9
<1>10. CASE Enter
  <2>1. PICK s \in Submitted(modal) : modal' = s.modal
    BY <1>10 DEF Enter
  <2>2. CASE s.modal.kind = modal.kind
    BY <1>1, <2>1, <2>2, SubmittedInSight
  <2>3. CASE s.modal.kind # modal.kind
    BY <1>1, <2>1, <2>3, SubmittedElsewhere
  <2> QED BY <2>2, <2>3
<1>11. CASE Esc
  <2>1. modal' = Escaped(modal)
    BY <1>11 DEF Esc, Shows
  <2>2. modal'.kind = modal.kind
    BY <1>1, <2>1 DEF Escaped, FilteredBy, ModalTypes
  <2> QED BY <1>1, <2>1, <2>2, EscapedInSight
<1> QED BY <1>3, <1>5, <1>6, <1>9, <1>10, <1>11
        DEF Next, OpenModal, CtrlC, Shows, Click, ByClick, Complete, Resize

\* On a terminal no narrower than a modal no key and no turn of the wheel loses the highlighted
\* entry from the screen, but in a Connection Picker that lists more rows than its box has
\* (lazyScroll of each list and the resets of viewportStart).
THEOREM KeysKeepTheHighlight == LSpec => KeysKeepHighlight
<1>1. ListsInv /\ [Next]_lvars
        => [by' = "key" /\ modal # None /\ modal' # None /\ RowWidth(width) = ContentWidth
              /\ (modal'.kind = modal.kind => HighlightInSight(modal)) /\ ~PickerOverflows(modal')
            => HighlightInSight(modal')]_lvars
  BY KeyKeepsSight
<1> QED BY <1>1, ListsInvariant, PTL DEF LSpec, KeysKeepHighlight
=============================================================================
