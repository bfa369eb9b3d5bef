--------------------------- MODULE TransactionProofs ---------------------------
(***************************************************************************)
(* Theorems about transaction offers, for every set of offers, holders and *)
(* items used as SafeOffers asks: an acceptance that fails leaves nothing  *)
(* behind, and nothing is lost on the way.                                 *)
(***************************************************************************)
EXTENDS SafeOffers, FiniteSetTheorems, SequenceTheorems, WellFoundedInduction, TLAPS

-----------------------------------------------------------------------------
(* Rows: taking an item out of a sequence and putting it back.             *)

NoDup(s) == \A i, j \in DOMAIN s : s[i] = s[j] => i = j

\* A sequence without the item at one place.
LEMMA RemoveAtFacts ==
    ASSUME NEW S, NEW s \in Seq(S), NEW i \in 1..Len(s)
    PROVE  /\ RemoveAt(s, i) \in Seq(S)
           /\ Len(RemoveAt(s, i)) = Len(s) - 1
           /\ \A j \in 1..(Len(s) - 1) :
                  RemoveAt(s, i)[j] = IF j < i THEN s[j] ELSE s[j + 1]
<1> DEFINE n == Len(s)
           a == SubSeq(s, 1, i - 1)
           b == SubSeq(s, i + 1, n)
<1>1. n \in Nat /\ i \in 1..n /\ \A j \in 1..n : s[j] \in S
  BY LenProperties, ElementOfSeq
<1>2. RemoveAt(s, i) = a \o b
  BY DEF RemoveAt
<1> HIDE DEF n
<1>3. /\ a \in Seq(S) /\ Len(a) = i - 1
      /\ \A j \in 1..(i - 1) : a[j] = s[j]
  <2> DEFINE m == i - 1
  <2>1. m \in Int /\ 0 <= m /\ \A j \in 1..m : s[j] \in S
    BY <1>1
  <2> HIDE DEF m
  <2>2. /\ SubSeq(s, 1, m) \in Seq(S) /\ Len(SubSeq(s, 1, m)) = IF 1 <= m THEN m - 1 + 1 ELSE 0
        /\ \A j \in 1..(m - 1 + 1) : SubSeq(s, 1, m)[j] = s[1 + j - 1]
    BY <2>1, SubSeqProperties
  <2>3. Len(SubSeq(s, 1, m)) = m /\ \A j \in 1..m : SubSeq(s, 1, m)[j] = s[j]
    BY <2>1, <2>2
  <2> QED
    BY <2>2, <2>3 DEF m
<1>4. /\ b \in Seq(S) /\ Len(b) = n - i
      /\ \A j \in 1..(n - i) : b[j] = s[i + j]
  <2> DEFINE m == i + 1
  <2>1. m \in Int /\ m <= n + 1 /\ \A j \in m..n : s[j] \in S
    BY <1>1
  <2> HIDE DEF m
  <2>2. /\ SubSeq(s, m, n) \in Seq(S) /\ Len(SubSeq(s, m, n)) = IF m <= n THEN n - m + 1 ELSE 0
        /\ \A j \in 1..(n - m + 1) : SubSeq(s, m, n)[j] = s[m + j - 1]
    BY <1>1, <2>1, SubSeqProperties
  <2>3. /\ Len(SubSeq(s, m, n)) = n - i
        /\ \A j \in 1..(n - i) : SubSeq(s, m, n)[j] = s[i + j]
    BY <1>1, <2>1, <2>2 DEF m
  <2> QED
    BY <2>2, <2>3 DEF m
<1> HIDE DEF a, b
<1>5. /\ a \o b \in Seq(S) /\ Len(a \o b) = Len(a) + Len(b)
      /\ \A j \in 1..(Len(a) + Len(b)) :
             (a \o b)[j] = IF j <= Len(a) THEN a[j] ELSE b[j - Len(a)]
  BY <1>3, <1>4, ConcatProperties
<1>6. Len(a) + Len(b) = n - 1
  BY <1>1, <1>3, <1>4
<1>7. ASSUME NEW j \in 1..(n - 1)
      PROVE  (a \o b)[j] = IF j < i THEN s[j] ELSE s[j + 1]
  <2>1. (a \o b)[j] = IF j <= i - 1 THEN a[j] ELSE b[j - (i - 1)]
    BY <1>3, <1>5, <1>6
  <2>2. CASE j < i
    <3>1. j <= i - 1 /\ j \in 1..(i - 1)
      BY <1>1, <2>2
    <3> QED
      BY <1>3, <2>1, <2>2, <3>1
  <2>3. CASE ~(j < i)
    <3>1. ~(j <= i - 1) /\ j - (i - 1) \in 1..(n - i) /\ i + (j - (i - 1)) = j + 1
      BY <1>1, <2>3
    <3>2. b[j - (i - 1)] = s[i + (j - (i - 1))]
      BY <1>4, <3>1
    <3> QED
      BY <2>1, <2>3, <3>1, <3>2
  <2> QED
    BY <2>2, <2>3
<1> QED
  BY <1>2, <1>5, <1>6, <1>7 DEF n

\* A sequence with one item more at one place.
LEMMA InsertAtFacts ==
    ASSUME NEW S, NEW s \in Seq(S), NEW e \in S, NEW i \in 1..(Len(s) + 1)
    PROVE  /\ InsertAt(s, i, e) \in Seq(S)
           /\ Len(InsertAt(s, i, e)) = Len(s) + 1
           /\ \A j \in 1..(Len(s) + 1) :
                  InsertAt(s, i, e)[j] =
                      IF j < i THEN s[j] ELSE IF j = i THEN e ELSE s[j - 1]
<1> DEFINE n == Len(s)
           a == SubSeq(s, 1, i - 1)
           b == SubSeq(s, i, n)
           c == a \o <<e>>
<1>1. n \in Nat /\ i \in 1..(n + 1) /\ \A j \in 1..n : s[j] \in S
  BY LenProperties, ElementOfSeq
<1>2. InsertAt(s, i, e) = c \o b
  BY DEF InsertAt
<1> HIDE DEF n
<1>3. /\ a \in Seq(S) /\ Len(a) = i - 1
      /\ \A j \in 1..(i - 1) : a[j] = s[j]
  <2> DEFINE m == i - 1
  <2>1. m \in Int /\ 0 <= m /\ \A j \in 1..m : s[j] \in S
    BY <1>1
  <2> HIDE DEF m
  <2>2. /\ SubSeq(s, 1, m) \in Seq(S) /\ Len(SubSeq(s, 1, m)) = IF 1 <= m THEN m - 1 + 1 ELSE 0
        /\ \A j \in 1..(m - 1 + 1) : SubSeq(s, 1, m)[j] = s[1 + j - 1]
    BY <2>1, SubSeqProperties
  <2>3. Len(SubSeq(s, 1, m)) = m /\ \A j \in 1..m : SubSeq(s, 1, m)[j] = s[j]
    BY <2>1, <2>2
  <2> QED
    BY <2>2, <2>3 DEF m
<1>4. /\ b \in Seq(S) /\ Len(b) = n - i + 1
      /\ \A j \in 1..(n - i + 1) : b[j] = s[i + j - 1]
  <2>1. i \in Int /\ \A j \in i..n : s[j] \in S
    BY <1>1
  <2>2. /\ b \in Seq(S) /\ Len(b) = IF i <= n THEN n - i + 1 ELSE 0
        /\ \A j \in 1..(n - i + 1) : b[j] = s[i + j - 1]
    BY <1>1, <2>1, SubSeqProperties
  <2> HIDE DEF b
  <2> QED
    BY <1>1, <2>2
<1> HIDE DEF a, b
<1>5. /\ c \in Seq(S) /\ Len(c) = i
      /\ \A j \in 1..i : c[j] = IF j < i THEN s[j] ELSE e
  <2>1. c = Append(a, e)
    BY <1>3, AppendIsConcat
  <2>2. /\ Append(a, e) \in Seq(S) /\ Len(Append(a, e)) = Len(a) + 1
        /\ \A j \in 1..Len(a) : Append(a, e)[j] = a[j]
        /\ Append(a, e)[Len(a) + 1] = e
    BY <1>3, AppendProperties
  <2> HIDE DEF c
  <2> QED
    BY <1>1, <1>3, <2>1, <2>2
<1> HIDE DEF c
<1>6. /\ c \o b \in Seq(S) /\ Len(c \o b) = Len(c) + Len(b)
      /\ \A j \in 1..(Len(c) + Len(b)) :
             (c \o b)[j] = IF j <= Len(c) THEN c[j] ELSE b[j - Len(c)]
  BY <1>4, <1>5, ConcatProperties
<1>7. Len(c) + Len(b) = n + 1
  BY <1>1, <1>4, <1>5
<1>8. ASSUME NEW j \in 1..(n + 1)
      PROVE  (c \o b)[j] = IF j < i THEN s[j] ELSE IF j = i THEN e ELSE s[j - 1]
  <2>1. (c \o b)[j] = IF j <= i THEN c[j] ELSE b[j - i]
    BY <1>5, <1>6, <1>7
  <2>2. CASE j <= i
    <3>1. j \in 1..i
      BY <1>1, <2>2
    <3> QED
      BY <1>1, <1>5, <2>1, <2>2, <3>1
  <2>3. CASE ~(j <= i)
    <3>1. j - i \in 1..(n - i + 1) /\ i + (j - i) - 1 = j - 1
      BY <1>1, <2>3
    <3>2. b[j - i] = s[i + (j - i) - 1]
      BY <1>4, <3>1
    <3>3. ~(j < i) /\ j # i
      BY <1>1, <2>3
    <3> QED
      BY <2>1, <2>3, <3>1, <3>2, <3>3
  <2> QED
    BY <2>2, <2>3
<1> QED
  BY <1>2, <1>6, <1>7, <1>8 DEF n

\* Taking an item out of a row and putting it in again at its place.
LEMMA RemoveThenInsert ==
    ASSUME NEW S, NEW s \in Seq(S), NEW i \in 1..Len(s), NoDup(s)
    PROVE  /\ RemoveAt(s, i) \in Seq(S) /\ Len(RemoveAt(s, i)) = Len(s) - 1
           /\ InsertAt(RemoveAt(s, i), i, s[i]) = s
           /\ Range(RemoveAt(s, i)) = Range(s) \ {s[i]}
           /\ NoDup(RemoveAt(s, i))
<1> DEFINE r == RemoveAt(s, i)
           n == Len(s)
           e == s[i]
<1>1. n \in Nat /\ DOMAIN s = 1..n /\ i \in 1..n /\ e \in S
  BY LenProperties, ElementOfSeq
<1>2. /\ r \in Seq(S) /\ Len(r) = n - 1
      /\ \A j \in 1..(n - 1) : r[j] = IF j < i THEN s[j] ELSE s[j + 1]
  BY RemoveAtFacts
<1>3. DOMAIN r = 1..(n - 1)
  BY <1>2, LenProperties
<1> HIDE DEF r, n
<1>4. InsertAt(r, i, e) = s
  <2>1. i \in 1..(Len(r) + 1) /\ Len(r) + 1 = n
    BY <1>1, <1>2
  <2> HIDE DEF e
  <2>2. /\ InsertAt(r, i, e) \in Seq(S) /\ Len(InsertAt(r, i, e)) = Len(r) + 1
        /\ \A j \in 1..(Len(r) + 1) : InsertAt(r, i, e)[j] =
               IF j < i THEN r[j] ELSE IF j = i THEN e ELSE r[j - 1]
    BY <1>1, <1>2, <2>1, InsertAtFacts
  <2>3. \A j \in 1..n : InsertAt(r, i, e)[j] = s[j]
    <3> TAKE j \in 1..n
    <3>1. InsertAt(r, i, e)[j] = IF j < i THEN r[j] ELSE IF j = i THEN e ELSE r[j - 1]
      BY <2>1, <2>2
    <3>2. CASE j < i
      BY <1>1, <1>2, <3>1, <3>2
    <3>3. CASE j = i
      BY <1>1, <3>1, <3>3 DEF e
    <3>4. CASE j > i
      <4>1. j - 1 \in 1..(n - 1) /\ ~(j - 1 < i) /\ (j - 1) + 1 = j /\ ~(j < i) /\ j # i
        BY <1>1, <3>4
      <4>2. r[j - 1] = s[(j - 1) + 1]
        BY <1>2, <4>1
      <4> QED
        BY <3>1, <4>1, <4>2
    <3> QED
      BY <1>1, <3>2, <3>3, <3>4
  <2>4. Len(InsertAt(r, i, e)) = Len(s)
    BY <2>1, <2>2 DEF n
  <2> QED
    BY <2>2, <2>3, <2>4, SeqEqual DEF n
<1>5. ASSUME NEW j \in 1..(n - 1)
      PROVE  \E k \in 1..n : k # i /\ r[j] = s[k] /\ k = IF j < i THEN j ELSE j + 1
  BY <1>1, <1>2
<1>6. ASSUME NEW k \in 1..n, k # i
      PROVE  \E j \in 1..(n - 1) : r[j] = s[k]
  <2>1. CASE k < i
    <3>1. k \in 1..(n - 1)
      BY <1>1, <2>1
    <3> QED
      BY <1>2, <2>1, <3>1
  <2>2. CASE k > i
    <3>1. k - 1 \in 1..(n - 1) /\ ~(k - 1 < i) /\ (k - 1) + 1 = k
      BY <1>1, <2>2
    <3> QED
      BY <1>2, <3>1
  <2> QED
    BY <1>1, <1>6, <2>1, <2>2
<1>7. Range(r) = Range(s) \ {e}
  <2>1. \A x : x \in Range(r) <=> \E j \in 1..(n - 1) : r[j] = x
    BY <1>3 DEF Range
  <2>2. \A x : x \in Range(s) <=> \E k \in 1..n : s[k] = x
    BY <1>1 DEF Range
  <2>3. \A k \in 1..n : s[k] = e <=> k = i
    BY <1>1 DEF NoDup, e
  <2> QED
    BY SMTT(30), <1>5, <1>6, <2>1, <2>2, <2>3
<1>8. NoDup(r)
  <2> SUFFICES ASSUME NEW j \in 1..(n - 1), NEW k \in 1..(n - 1), r[j] = r[k]
               PROVE  j = k
    BY <1>3 DEF NoDup
  <2>1. (IF j < i THEN j ELSE j + 1) = (IF k < i THEN k ELSE k + 1)
    BY <1>1, <1>5 DEF NoDup
  <2> QED
    BY <1>1, <2>1
<1> QED
  BY <1>2, <1>4, <1>7, <1>8 DEF r, n, e

\* Putting a new item into a row and taking it out.
LEMMA InsertThenRemove ==
    ASSUME NEW S, NEW s \in Seq(S), NEW e \in S, NEW i \in 1..(Len(s) + 1), e \notin Range(s)
    PROVE  /\ InsertAt(s, i, e) \in Seq(S) /\ Len(InsertAt(s, i, e)) = Len(s) + 1
           /\ i \in DOMAIN InsertAt(s, i, e)
           /\ InsertAt(s, i, e)[i] = e
           /\ RemoveAt(InsertAt(s, i, e), i) = s
           /\ \A j \in DOMAIN InsertAt(s, i, e) : InsertAt(s, i, e)[j] = e => j = i
           /\ Range(InsertAt(s, i, e)) = Range(s) \cup {e}
           /\ NoDup(s) => NoDup(InsertAt(s, i, e))
<1> DEFINE r == InsertAt(s, i, e)
           n == Len(s)
<1>1. n \in Nat /\ DOMAIN s = 1..n /\ i \in 1..(n + 1)
  BY LenProperties
<1>2. /\ r \in Seq(S) /\ Len(r) = n + 1
      /\ \A j \in 1..(n + 1) : r[j] = IF j < i THEN s[j] ELSE IF j = i THEN e ELSE s[j - 1]
  <2>1. i \in 1..(Len(s) + 1)
    OBVIOUS
  <2>2. /\ InsertAt(s, i, e) \in Seq(S) /\ Len(InsertAt(s, i, e)) = Len(s) + 1
        /\ \A j \in 1..(Len(s) + 1) : InsertAt(s, i, e)[j] =
               IF j < i THEN s[j] ELSE IF j = i THEN e ELSE s[j - 1]
    BY <2>1, InsertAtFacts
  <2> QED
    BY <2>2
<1>3. DOMAIN r = 1..(n + 1)
  BY <1>2, LenProperties
<1> HIDE DEF r, n
<1>4. RemoveAt(r, i) = s
  <2>1. i \in 1..Len(r) /\ Len(r) - 1 = n
    BY <1>1, <1>2
  <2>2. /\ RemoveAt(r, i) \in Seq(S) /\ Len(RemoveAt(r, i)) = Len(r) - 1
        /\ \A j \in 1..(Len(r) - 1) : RemoveAt(r, i)[j] = IF j < i THEN r[j] ELSE r[j + 1]
    BY <1>2, <2>1, RemoveAtFacts
  <2>3. \A j \in 1..n : RemoveAt(r, i)[j] = s[j]
    <3> TAKE j \in 1..n
    <3>1. RemoveAt(r, i)[j] = IF j < i THEN r[j] ELSE r[j + 1]
      BY <2>1, <2>2
    <3>2. CASE j < i
      BY <1>1, <1>2, <3>1, <3>2
    <3>3. CASE ~(j < i)
      <4>1. j + 1 \in 1..(n + 1) /\ ~(j + 1 < i) /\ j + 1 # i /\ (j + 1) - 1 = j
        BY <1>1, <3>3
      <4>2. r[j + 1] = s[(j + 1) - 1]
        BY <1>2, <4>1
      <4> QED
        BY <3>1, <3>3, <4>1, <4>2
    <3> QED
      BY <3>2, <3>3
  <2>4. Len(RemoveAt(r, i)) = Len(s)
    BY <2>1, <2>2 DEF n
  <2> QED
    BY <2>2, <2>3, <2>4, SeqEqual DEF n
<1>5. r[i] = e
  BY <1>1, <1>2
<1>6. ASSUME NEW j \in 1..(n + 1), j # i
      PROVE  \E k \in 1..n : r[j] = s[k] /\ k = IF j < i THEN j ELSE j - 1
  BY <1>1, <1>2, <1>6
<1>7. \A j \in 1..(n + 1) : r[j] = e => j = i
  BY <1>1, <1>6 DEF Range
<1>8. ASSUME NEW k \in 1..n
      PROVE  \E j \in 1..(n + 1) : r[j] = s[k]
  <2>1. CASE k < i
    <3>1. k \in 1..(n + 1)
      BY <1>1
    <3> QED
      BY <1>2, <2>1, <3>1
  <2>2. CASE ~(k < i)
    <3>1. k + 1 \in 1..(n + 1) /\ ~(k + 1 < i) /\ k + 1 # i /\ (k + 1) - 1 = k
      BY <1>1, <2>2
    <3> QED
      BY <1>2, <3>1
  <2> QED
    BY <2>1, <2>2
<1>9. Range(r) = Range(s) \cup {e}
  <2>1. \A x : x \in Range(r) <=> \E j \in 1..(n + 1) : r[j] = x
    BY <1>3 DEF Range
  <2>2. \A x : x \in Range(s) <=> \E k \in 1..n : s[k] = x
    BY <1>1 DEF Range
  <2>3. \A x : (\E j \in 1..(n + 1) : r[j] = x) <=> x = e \/ \E k \in 1..n : s[k] = x
    BY <1>1, <1>5, <1>6, <1>8
  <2> QED
    BY <2>1, <2>2, <2>3
<1>10. ASSUME NoDup(s) PROVE NoDup(r)
  <2> SUFFICES ASSUME NEW j \in 1..(n + 1), NEW k \in 1..(n + 1), r[j] = r[k]
               PROVE  j = k
    BY <1>3 DEF NoDup
  <2>1. CASE j = i \/ k = i
    BY <1>5, <1>7, <2>1
  <2>2. CASE j # i /\ k # i
    <3>1. (IF j < i THEN j ELSE j - 1) = (IF k < i THEN k ELSE k - 1)
      BY <1>1, <1>6, <1>10, <2>2 DEF NoDup
    <3> QED
      BY <1>1, <2>2, <3>1
  <2> QED
    BY <2>1, <2>2
<1> QED
  BY <1>1, <1>2, <1>3, <1>4, <1>5, <1>7, <1>9, <1>10 DEF r, n
-----------------------------------------------------------------------------
(* What taking an item from a holder and giving one to it change.          *)

\* The types of the fields of a world.
LEMMA WorldFields ==
    ASSUME NEW w \in Worlds
    PROVE  /\ w.purse \in [Purses -> Nat] /\ w.value \in [Pools -> Int \cup {Absent}]
           /\ w.row \in [Rows -> Seq(Tokens)] /\ w.dict \in [Dicts -> SUBSET Tokens]
           /\ w.registry \subseteq Tokens /\ w.recall \in [Rows -> [Tokens -> Nat]]
           /\ \A p \in Holders : Contents(w, p) \subseteq Tokens
           /\ \A p \in Rows : Range(w.row[p]) \subseteq Tokens
           /\ \A p \in Rows : Contents(w, p) = Range(w.row[p])
           /\ \A p \in Dicts : Contents(w, p) = w.dict[p]
<1>1. /\ w.purse \in [Purses -> Nat] /\ w.value \in [Pools -> Int \cup {Absent}]
      /\ w.row \in [Rows -> Seq(Tokens)] /\ w.dict \in [Dicts -> SUBSET Tokens]
      /\ w.registry \subseteq Tokens /\ w.recall \in [Rows -> [Tokens -> Nat]]
  BY DEF Worlds
<1>2. \A p \in Rows : Range(w.row[p]) \subseteq Tokens
  <2> TAKE p \in Rows
  <2>1. w.row[p] \in Seq(Tokens)
    BY <1>1
  <2>2. \A i \in DOMAIN w.row[p] : w.row[p][i] \in Tokens
    BY <2>1, LenProperties, ElementOfSeq
  <2> QED
    BY <2>2 DEF Range
<1>3. Dicts \cap Rows = {} /\ Holders = Rows \cup Dicts
  BY TransactionAssumption DEF Holders
<1>4. /\ \A p \in Rows : Contents(w, p) = Range(w.row[p])
      /\ \A p \in Dicts : Contents(w, p) = w.dict[p]
  BY <1>3 DEF Contents
<1> QED
  BY <1>1, <1>2, <1>3, <1>4

\* The slots among the holders keep an order, the dicts do not.
LEMMA HolderKinds ==
    /\ Holders = Rows \cup Dicts /\ Dicts \cap Rows = {}
    /\ Slots \subseteq Rows /\ Slots \subseteq Holders /\ Homes \subseteq Holders
BY TransactionAssumption DEF Holders, Rows, Homes

\* The rows and dicts of a world without an item of a holder, and with it.
RowsWithout(w, p, t) == [w.row EXCEPT ![p] = RemoveAt(w.row[p], Place(w, p, t))]
RowsWith(w, p, t) == [w.row EXCEPT ![p] = InsertAt(w.row[p], Spot(w, p, t), t)]
DictsWithout(w, p, t) == [w.dict EXCEPT ![p] = w.dict[p] \ {t}]
DictsWith(w, p, t) ==
    [w.dict EXCEPT ![p] = {u \in w.dict[p] : KeyOf[u] # KeyOf[t]} \cup {t}]
Recalling(w, p, t, i) == [w.recall EXCEPT ![p][t] = i]

\* remove_asset takes the item out, and a row remembers the place.
LEMMA TakenFacts ==
    ASSUME NEW w \in Worlds, NEW p \in Holders, NEW t \in Contents(w, p)
    PROVE  /\ Taken(w, p, t) \in Worlds
           /\ Taken(w, p, t).purse = w.purse /\ Taken(w, p, t).value = w.value
           /\ Taken(w, p, t).registry = w.registry
           /\ p \in Dicts =>
                 /\ Taken(w, p, t).dict = DictsWithout(w, p, t)
                 /\ Taken(w, p, t).row = w.row /\ Taken(w, p, t).recall = w.recall
           /\ p \in Rows =>
                 /\ Place(w, p, t) \in 1..Len(w.row[p]) /\ w.row[p][Place(w, p, t)] = t
                 /\ Taken(w, p, t).dict = w.dict
                 /\ Taken(w, p, t).row = RowsWithout(w, p, t)
                 /\ Taken(w, p, t).recall = Recalling(w, p, t, Place(w, p, t))
           /\ t \in Tokens
<1>1. /\ w.purse \in [Purses -> Nat] /\ w.value \in [Pools -> Int \cup {Absent}]
      /\ w.row \in [Rows -> Seq(Tokens)] /\ w.dict \in [Dicts -> SUBSET Tokens]
      /\ w.registry \subseteq Tokens /\ w.recall \in [Rows -> [Tokens -> Nat]]
      /\ t \in Tokens
  BY WorldFields
<1>2. CASE p \in Dicts
  <2> DEFINE v == [w EXCEPT !.dict[p] = @ \ {t}]
  <2>1. Taken(w, p, t) = v
    BY <1>2 DEF Taken
  <2>2. /\ v.purse = w.purse /\ v.value = w.value /\ v.registry = w.registry
        /\ v.dict = [w.dict EXCEPT ![p] = @ \ {t}] /\ v.row = w.row /\ v.recall = w.recall
    BY DEF Worlds
  <2>3. v \in Worlds
    BY <1>1, <1>2 DEF Worlds
  <2>4. p \notin Rows
    BY <1>2, HolderKinds
  <2> QED
    BY <1>1, <1>2, <2>1, <2>2, <2>3, <2>4 DEF DictsWithout
<1>3. CASE p \in Rows
  <2> DEFINE i == Place(w, p, t)
             v == [w EXCEPT !.row[p] = RemoveAt(@, i), !.recall[p][t] = i]
  <2>1. p \notin Dicts
    BY <1>3, HolderKinds
  <2>2. Taken(w, p, t) = v
    BY <2>1 DEF Taken
  <2>3. w.row[p] \in Seq(Tokens) /\ DOMAIN w.row[p] = 1..Len(w.row[p]) /\ Len(w.row[p]) \in Nat
    BY <1>1, <1>3, LenProperties
  <2>4. i \in 1..Len(w.row[p]) /\ w.row[p][i] = t
    <3>1. \E j \in DOMAIN w.row[p] : w.row[p][j] = t
      BY <1>3, WorldFields DEF Range
    <3> QED
      BY <2>3, <3>1 DEF Place
  <2>5. RemoveAt(w.row[p], i) \in Seq(Tokens) /\ i \in Nat
    BY <2>3, <2>4, RemoveAtFacts
  <2> HIDE DEF i
  <2>6. /\ v.purse = w.purse /\ v.value = w.value /\ v.registry = w.registry
        /\ v.dict = w.dict
        /\ v.row = [w.row EXCEPT ![p] = RemoveAt(w.row[p], i)]
        /\ v.recall = [w.recall EXCEPT ![p][t] = i]
    BY DEF Worlds
  <2>7. v \in Worlds
    <3>1. [w.row EXCEPT ![p] = RemoveAt(w.row[p], i)] \in [Rows -> Seq(Tokens)]
      BY <1>1, <1>3, <2>5
    <3>2. [w.recall EXCEPT ![p][t] = i] \in [Rows -> [Tokens -> Nat]]
      BY <1>1, <1>3, <2>5
    <3> QED
      BY <1>1, <2>6, <3>1, <3>2 DEF Worlds
  <2> QED
    BY <1>1, <1>3, <2>1, <2>2, <2>4, <2>6, <2>7 DEF i, RowsWithout, Recalling
<1> QED
  BY <1>2, <1>3, HolderKinds

\* add_asset puts the item in: a row at the place it remembers, a dict under
\* its key; a slot registers it.
LEMMA AddedFacts ==
    ASSUME NEW w \in Worlds, NEW p \in Holders, NEW t \in Tokens, t \notin Contents(w, p)
    PROVE  /\ Added(w, p, t) \in Worlds
           /\ Added(w, p, t).purse = w.purse /\ Added(w, p, t).value = w.value
           /\ Added(w, p, t).registry = IF p \in Slots THEN w.registry \cup {t} ELSE w.registry
           /\ p \in Dicts =>
                 /\ Added(w, p, t).dict = DictsWith(w, p, t)
                 /\ Added(w, p, t).row = w.row /\ Added(w, p, t).recall = w.recall
           /\ p \in Rows =>
                 /\ Spot(w, p, t) \in 1..(Len(w.row[p]) + 1)
                 /\ Added(w, p, t).dict = w.dict
                 /\ Added(w, p, t).row = RowsWith(w, p, t)
                 /\ Added(w, p, t).recall = Recalling(w, p, t, 0)
<1>1. /\ w.purse \in [Purses -> Nat] /\ w.value \in [Pools -> Int \cup {Absent}]
      /\ w.row \in [Rows -> Seq(Tokens)] /\ w.dict \in [Dicts -> SUBSET Tokens]
      /\ w.registry \subseteq Tokens /\ w.recall \in [Rows -> [Tokens -> Nat]]
  BY WorldFields
<1>2. CASE p \in Dicts
  <2> DEFINE d == {u \in w.dict[p] : KeyOf[u] # KeyOf[t]} \cup {t}
             v == [w EXCEPT !.dict[p] = {u \in @ : KeyOf[u] # KeyOf[t]} \cup {t}]
  <2>1. Added(w, p, t) = v /\ p \notin Rows /\ p \notin Slots
    BY <1>2, HolderKinds DEF Added
  <2>2. d \in SUBSET Tokens
    BY <1>1, <1>2
  <2>3. /\ v.purse = w.purse /\ v.value = w.value /\ v.registry = w.registry
        /\ v.dict = [w.dict EXCEPT ![p] = {u \in @ : KeyOf[u] # KeyOf[t]} \cup {t}]
        /\ v.row = w.row /\ v.recall = w.recall
    BY DEF Worlds
  <2>4. v \in Worlds
    <3>1. [w.dict EXCEPT ![p] = d] \in [Dicts -> SUBSET Tokens]
      BY <1>1, <1>2, <2>2
    <3> QED
      BY <1>1, <2>3, <3>1 DEF Worlds
  <2> QED
    BY <1>2, <2>1, <2>3, <2>4 DEF DictsWith
<1>3. CASE p \in Rows
  <2> DEFINE i == Spot(w, p, t)
             g == IF p \in Slots THEN w.registry \cup {t} ELSE w.registry
             v == [w EXCEPT !.row[p] = InsertAt(@, i, t),
                            !.recall[p][t] = 0,
                            !.registry = IF p \in Slots THEN @ \cup {t} ELSE @]
  <2>1. p \notin Dicts /\ t \notin Range(w.row[p])
    BY <1>3, HolderKinds, WorldFields
  <2>2. Added(w, p, t) = v
    BY <2>1 DEF Added
  <2>3. w.row[p] \in Seq(Tokens) /\ Len(w.row[p]) \in Nat
    BY <1>1, <1>3, LenProperties
  <2>4. i \in 1..(Len(w.row[p]) + 1)
    BY <2>3 DEF Spot
  <2>5. InsertAt(w.row[p], i, t) \in Seq(Tokens)
    BY <2>3, <2>4, InsertAtFacts
  <2> HIDE DEF i
  <2>6. /\ v.purse = w.purse /\ v.value = w.value /\ v.registry = g
        /\ v.dict = w.dict
        /\ v.row = [w.row EXCEPT ![p] = InsertAt(w.row[p], i, t)]
        /\ v.recall = [w.recall EXCEPT ![p][t] = 0]
    BY DEF Worlds
  <2>7. v \in Worlds
    <3>1. [w.row EXCEPT ![p] = InsertAt(w.row[p], i, t)] \in [Rows -> Seq(Tokens)]
      BY <1>1, <1>3, <2>5
    <3>2. [w.recall EXCEPT ![p][t] = 0] \in [Rows -> [Tokens -> Nat]]
      BY <1>1, <1>3
    <3>3. g \subseteq Tokens
      BY <1>1
    <3> QED
      BY <1>1, <2>6, <3>1, <3>2, <3>3 DEF Worlds
  <2> QED
    BY <1>3, <2>1, <2>2, <2>4, <2>6, <2>7 DEF i, RowsWith, Recalling
<1> QED
  BY <1>2, <1>3, HolderKinds

\* A holder has one item under a key, and a row an item once.
TidyAt(w, p) ==
    /\ \A t, u \in Contents(w, p) : KeyOf[t] = KeyOf[u] => t = u
    /\ p \in Rows => NoDup(w.row[p])

\* What an item that is taken out leaves.
LEMMA ContentsTaken ==
    ASSUME NEW w \in Worlds, NEW p \in Holders, NEW t \in Contents(w, p), TidyAt(w, p)
    PROVE  /\ Contents(Taken(w, p, t), p) = Contents(w, p) \ {t}
           /\ \A q \in Holders : q # p => Contents(Taken(w, p, t), q) = Contents(w, q)
           /\ TidyAt(Taken(w, p, t), p)
           /\ p \in Rows => Len(Taken(w, p, t).row[p]) = Len(w.row[p]) - 1
<1> DEFINE v == Taken(w, p, t)
<1>1. v \in Worlds /\ t \in Tokens
  BY TakenFacts
<1>2. CASE p \in Dicts
  <2>1. v.dict = DictsWithout(w, p, t) /\ v.row = w.row
    BY <1>2, TakenFacts
  <2>2. w.dict \in [Dicts -> SUBSET Tokens] /\ p \notin Rows
    BY <1>2, WorldFields, HolderKinds
  <2> HIDE DEF v
  <2>3. v.dict[p] = w.dict[p] \ {t} /\ \A q \in Dicts : q # p => v.dict[q] = w.dict[q]
    BY <1>2, <2>1, <2>2 DEF DictsWithout
  <2>4. Contents(v, p) = Contents(w, p) \ {t}
    BY <1>2, <2>3 DEF Contents
  <2>5. \A q \in Holders : q # p => Contents(v, q) = Contents(w, q)
    BY <2>1, <2>3 DEF Contents
  <2>6. TidyAt(v, p)
    BY <2>2, <2>4 DEF TidyAt
  <2> QED
    BY <2>2, <2>4, <2>5, <2>6 DEF v
<1>3. CASE p \in Rows
  <2> DEFINE i == Place(w, p, t)
  <2>1. /\ i \in 1..Len(w.row[p]) /\ w.row[p][i] = t
        /\ v.dict = w.dict /\ v.row = RowsWithout(w, p, t)
    BY <1>3, TakenFacts
  <2>2. w.row \in [Rows -> Seq(Tokens)] /\ p \notin Dicts /\ w.row[p] \in Seq(Tokens)
    BY <1>3, WorldFields, HolderKinds
  <2>3. NoDup(w.row[p])
    BY <1>3 DEF TidyAt
  <2> HIDE DEF i, v
  <2>4. /\ Len(RemoveAt(w.row[p], i)) = Len(w.row[p]) - 1
        /\ Range(RemoveAt(w.row[p], i)) = Range(w.row[p]) \ {w.row[p][i]}
        /\ NoDup(RemoveAt(w.row[p], i))
    BY <2>1, <2>2, <2>3, RemoveThenInsert
  <2>5. v.row[p] = RemoveAt(w.row[p], i) /\ \A q \in Rows : q # p => v.row[q] = w.row[q]
    BY <1>3, <2>1, <2>2 DEF RowsWithout, i
  <2>6. Contents(v, p) = Contents(w, p) \ {t}
    BY <2>1, <2>2, <2>4, <2>5 DEF Contents
  <2>7. \A q \in Holders : q # p => Contents(v, q) = Contents(w, q)
    BY <2>1, <2>5, HolderKinds DEF Contents
  <2>8. TidyAt(v, p)
    BY <2>4, <2>5, <2>6 DEF TidyAt
  <2> QED
    BY <2>4, <2>5, <2>6, <2>7, <2>8 DEF v
<1> QED
  BY <1>2, <1>3, HolderKinds

\* What an item that is put in is added to.
LEMMA ContentsAdded ==
    ASSUME NEW w \in Worlds, NEW p \in Holders, NEW t \in Tokens, t \notin Contents(w, p),
           KeyFree(w, p, KeyOf[t], t)
    PROVE  /\ Contents(Added(w, p, t), p) = Contents(w, p) \cup {t}
           /\ \A q \in Holders : q # p => Contents(Added(w, p, t), q) = Contents(w, q)
           /\ TidyAt(w, p) => TidyAt(Added(w, p, t), p)
           /\ p \in Rows => Len(Added(w, p, t).row[p]) = Len(w.row[p]) + 1
<1> DEFINE v == Added(w, p, t)
<1>1. \A u \in Contents(w, p) : KeyOf[u] # KeyOf[t]
  BY DEF KeyFree
<1>2. CASE p \in Dicts
  <2>1. v.dict = DictsWith(w, p, t) /\ v.row = w.row
    BY <1>2, AddedFacts
  <2>2. w.dict \in [Dicts -> SUBSET Tokens] /\ p \notin Rows /\ Contents(w, p) = w.dict[p]
    BY <1>2, WorldFields, HolderKinds
  <2> HIDE DEF v
  <2>3. /\ v.dict[p] = {u \in w.dict[p] : KeyOf[u] # KeyOf[t]} \cup {t}
        /\ \A q \in Dicts : q # p => v.dict[q] = w.dict[q]
    BY <1>2, <2>1, <2>2 DEF DictsWith
  <2>4. {u \in w.dict[p] : KeyOf[u] # KeyOf[t]} = w.dict[p]
    BY <1>1, <2>2
  <2>5. Contents(v, p) = Contents(w, p) \cup {t}
    BY <1>2, <2>3, <2>4 DEF Contents
  <2>6. \A q \in Holders : q # p => Contents(v, q) = Contents(w, q)
    BY <2>1, <2>3 DEF Contents
  <2>7. TidyAt(w, p) => TidyAt(v, p)
    BY <1>1, <2>2, <2>5 DEF TidyAt
  <2> QED
    BY <2>2, <2>5, <2>6, <2>7 DEF v
<1>3. CASE p \in Rows
  <2> DEFINE i == Spot(w, p, t)
             s == w.row[p]
             r == InsertAt(s, i, t)
  <2>1. /\ i \in 1..(Len(s) + 1)
        /\ v.dict = w.dict /\ v.row = RowsWith(w, p, t)
    BY <1>3, AddedFacts
  <2>2. /\ w.row \in [Rows -> Seq(Tokens)] /\ p \notin Dicts /\ s \in Seq(Tokens)
        /\ Contents(w, p) = Range(s)
    BY <1>3, WorldFields, HolderKinds
  <2> HIDE DEF i, v, s
  <2>3. /\ Len(r) = Len(s) + 1 /\ Range(r) = Range(s) \cup {t}
        /\ NoDup(s) => NoDup(r)
    BY <2>1, <2>2, InsertThenRemove
  <2>4. v.row[p] = r /\ \A q \in Rows : q # p => v.row[q] = w.row[q]
    BY <1>3, <2>1, <2>2 DEF RowsWith, i, s
  <2> HIDE DEF r
  <2>5. Contents(v, p) = Contents(w, p) \cup {t}
    BY <2>2, <2>3, <2>4 DEF Contents
  <2>6. \A q \in Holders : q # p => Contents(v, q) = Contents(w, q)
    BY <2>1, <2>4, HolderKinds DEF Contents
  <2>7. TidyAt(w, p) => TidyAt(v, p)
    BY <1>1, <2>3, <2>4, <2>5 DEF TidyAt, s
  <2> QED
    BY <2>3, <2>4, <2>5, <2>6, <2>7 DEF v, s
<1> QED
  BY <1>2, <1>3, HolderKinds

\* Two worlds that differ at most in what the adapters remember.
Same(v, w) == Holdings(v) = Holdings(w)

\* Field by field.
LEMMA SameFields ==
    ASSUME NEW v, NEW w
    PROVE  /\ Same(v, w) <=> /\ v.purse = w.purse /\ v.value = w.value /\ v.row = w.row
                             /\ v.dict = w.dict /\ v.registry = w.registry
           /\ v.row = w.row /\ v.dict = w.dict => \A p : Contents(v, p) = Contents(w, p)
BY DEF Same, Holdings, Contents

\* An item that was taken out is put back where it was.
LEMMA GivenBackIsSame ==
    ASSUME NEW w \in Worlds, NEW p \in Holders, NEW t \in Contents(w, p), TidyAt(w, p),
           NEW x \in Worlds, Same(x, Taken(w, p, t)),
           p \in Rows => x.recall[p][t] = Place(w, p, t),
           p \in Slots => t \in w.registry
    PROVE  /\ t \notin Contents(x, p) /\ KeyFree(x, p, KeyOf[t], t)
           /\ Same(Added(x, p, t), w)
<1>1. /\ x.purse = w.purse /\ x.value = w.value /\ x.registry = w.registry
      /\ x.row = Taken(w, p, t).row /\ x.dict = Taken(w, p, t).dict /\ t \in Tokens
  BY SameFields, TakenFacts
<1>2. Contents(x, p) = Contents(w, p) \ {t}
  BY <1>1, SameFields, ContentsTaken
<1>3. KeyFree(x, p, KeyOf[t], t) /\ t \notin Contents(x, p)
  BY <1>2 DEF KeyFree, TidyAt
<1> DEFINE v == Added(x, p, t)
<1>4. /\ v.purse = w.purse /\ v.value = w.value /\ v.registry = w.registry
  <2>1. /\ v.purse = x.purse /\ v.value = x.value
        /\ v.registry = IF p \in Slots THEN x.registry \cup {t} ELSE x.registry
    BY <1>1, <1>3, AddedFacts
  <2>2. p \in Slots => w.registry \cup {t} = w.registry
    OBVIOUS
  <2> QED
    BY <1>1, <2>1, <2>2
<1>5. CASE p \in Dicts
  <2>1. v.dict = DictsWith(x, p, t) /\ v.row = x.row
    BY <1>1, <1>3, <1>5, AddedFacts
  <2>2. x.dict = DictsWithout(w, p, t) /\ x.row = w.row
    BY <1>1, <1>5, TakenFacts
  <2>3. w.dict \in [Dicts -> SUBSET Tokens] /\ Contents(w, p) = w.dict[p]
    BY <1>5, WorldFields
  <2>4. {u \in w.dict[p] \ {t} : KeyOf[u] # KeyOf[t]} \cup {t} = w.dict[p]
    BY <2>3 DEF TidyAt
  <2> HIDE DEF v
  <2>5. v.dict = w.dict
    BY <1>5, <2>1, <2>2, <2>3, <2>4 DEF DictsWith, DictsWithout
  <2> QED
    BY <1>3, <1>4, <2>1, <2>2, <2>5, SameFields DEF v
<1>6. CASE p \in Rows
  <2> DEFINE i == Place(w, p, t)
             s == w.row[p]
             r == RemoveAt(s, i)
  <2>1. /\ i \in 1..Len(s) /\ s[i] = t /\ w.row \in [Rows -> Seq(Tokens)]
        /\ x.row = RowsWithout(w, p, t) /\ x.dict = w.dict
    BY <1>1, <1>6, TakenFacts, WorldFields
  <2>2. s \in Seq(Tokens) /\ NoDup(s) /\ Len(s) \in Nat
    BY <1>6, <2>1, LenProperties DEF TidyAt
  <2>3. x.row = [w.row EXCEPT ![p] = r] /\ x.row[p] = r
    BY <1>6, <2>1 DEF RowsWithout
  <2> HIDE DEF i, s
  <2>4. /\ r \in Seq(Tokens) /\ Len(r) = Len(s) - 1 /\ InsertAt(r, i, s[i]) = s
    BY <2>1, <2>2, RemoveThenInsert
  <2> HIDE DEF r
  <2>5. Spot(x, p, t) = i
    <3>1. x.recall[p][t] = i
      BY <1>6 DEF i
    <3>2. i \in 1..(Len(r) + 1) /\ Len(r) \in Nat
      BY <2>1, <2>2, <2>4
    <3> QED
      BY <2>3, <3>1, <3>2 DEF Spot
  <2>6. v.dict = x.dict /\ v.row = RowsWith(x, p, t)
    BY <1>1, <1>3, <1>6, AddedFacts
  <2> HIDE DEF v
  <2>7. v.row = [x.row EXCEPT ![p] = s]
    BY <2>1, <2>3, <2>4, <2>5, <2>6 DEF RowsWith
  <2>8. v.row = w.row
    BY <1>6, <2>1, <2>3, <2>7 DEF s
  <2> QED
    BY <1>3, <1>4, <2>1, <2>6, <2>8, SameFields DEF v
<1> QED
  BY <1>5, <1>6, HolderKinds

\* An item that was put in is taken out again.
LEMMA TakenBackIsSame ==
    ASSUME NEW y \in Worlds, NEW p \in Holders, NEW t \in Tokens, t \notin Contents(y, p),
           KeyFree(y, p, KeyOf[t], t),
           NEW x \in Worlds, Same(x, Added(y, p, t))
    PROVE  /\ t \in Contents(x, p)
           /\ Taken(x, p, t).purse = y.purse /\ Taken(x, p, t).value = y.value
           /\ Taken(x, p, t).row = y.row /\ Taken(x, p, t).dict = y.dict
           /\ Taken(x, p, t).registry = IF p \in Slots THEN y.registry \cup {t} ELSE y.registry
<1>1. /\ x.purse = y.purse /\ x.value = y.value
      /\ x.registry = IF p \in Slots THEN y.registry \cup {t} ELSE y.registry
      /\ x.row = Added(y, p, t).row /\ x.dict = Added(y, p, t).dict
  <2> DEFINE z == Added(y, p, t)
  <2>1. /\ z.purse = y.purse /\ z.value = y.value
        /\ z.registry = IF p \in Slots THEN y.registry \cup {t} ELSE y.registry
    BY AddedFacts
  <2>2. /\ x.purse = z.purse /\ x.value = z.value /\ x.registry = z.registry
        /\ x.row = z.row /\ x.dict = z.dict
    BY SameFields
  <2> QED
    BY <2>1, <2>2
<1>2. Contents(x, p) = Contents(y, p) \cup {t}
  BY <1>1, SameFields, ContentsAdded
<1> DEFINE v == Taken(x, p, t)
<1>3. t \in Contents(x, p)
  BY <1>2
<1>4. v.purse = x.purse /\ v.value = x.value /\ v.registry = x.registry
  BY <1>3, TakenFacts
<1>5. CASE p \in Dicts
  <2>1. v.dict = DictsWithout(x, p, t) /\ v.row = x.row
    BY <1>3, <1>5, TakenFacts
  <2>2. x.dict = DictsWith(y, p, t) /\ x.row = y.row
    BY <1>1, <1>5, AddedFacts
  <2>3. y.dict \in [Dicts -> SUBSET Tokens] /\ Contents(y, p) = y.dict[p]
    BY <1>5, WorldFields
  <2>4. ({u \in y.dict[p] : KeyOf[u] # KeyOf[t]} \cup {t}) \ {t} = y.dict[p]
    BY <2>3 DEF KeyFree
  <2> HIDE DEF v
  <2>5. v.dict = y.dict
    BY <1>5, <2>1, <2>2, <2>3, <2>4 DEF DictsWith, DictsWithout
  <2> QED
    BY <1>1, <1>3, <1>4, <2>1, <2>2, <2>5 DEF v
<1>6. CASE p \in Rows
  <2> DEFINE i == Spot(y, p, t)
             s == y.row[p]
             r == InsertAt(s, i, t)
  <2>1. /\ i \in 1..(Len(s) + 1) /\ y.row \in [Rows -> Seq(Tokens)]
        /\ x.row = RowsWith(y, p, t) /\ x.dict = y.dict
    <3>1. /\ Spot(y, p, t) \in 1..(Len(y.row[p]) + 1)
          /\ Added(y, p, t).dict = y.dict /\ Added(y, p, t).row = RowsWith(y, p, t)
      BY <1>6, AddedFacts
    <3>2. y.row \in [Rows -> Seq(Tokens)]
      BY WorldFields
    <3> QED
      BY <1>1, <3>1, <3>2
  <2>2. s \in Seq(Tokens) /\ t \notin Range(s)
    BY <1>6, <2>1, WorldFields
  <2>3. x.row = [y.row EXCEPT ![p] = r] /\ x.row[p] = r
    BY <1>6, <2>1 DEF RowsWith
  <2> HIDE DEF i, s
  <2>4. /\ r \in Seq(Tokens) /\ i \in DOMAIN r /\ r[i] = t
        /\ RemoveAt(r, i) = s /\ \A j \in DOMAIN r : r[j] = t => j = i
    BY <2>1, <2>2, InsertThenRemove
  <2> HIDE DEF r
  <2>5. Place(x, p, t) = i
    BY <2>3, <2>4 DEF Place
  <2>6. v.dict = x.dict /\ v.row = RowsWithout(x, p, t)
    BY <1>3, <1>6, TakenFacts
  <2> HIDE DEF v
  <2>7. v.row = [x.row EXCEPT ![p] = s]
    BY <2>3, <2>4, <2>5, <2>6 DEF RowsWithout
  <2>8. v.row = y.row
    BY <1>6, <2>1, <2>3, <2>7 DEF s
  <2> QED
    BY <1>1, <1>3, <1>4, <2>1, <2>6, <2>8 DEF v
<1> QED
  BY <1>5, <1>6, HolderKinds

-----------------------------------------------------------------------------
(* Payments neither make coins nor lose any.                               *)

Purse(f) == UNION {{p} \X (1..f[p]) : p \in Purses}

\* A coin is in one purse, at one place.
LEMMA CoinPlaces ==
    ASSUME NEW f \in [Purses -> Nat]
    PROVE  /\ \A c \in Purse(f) : /\ c = <<c[1], c[2]>> /\ c[1] \in Purses
                                  /\ c[2] \in 1..f[c[1]]
           /\ \A p \in Purses : \A i \in 1..f[p] : <<p, i>> \in Purse(f)
           /\ IsFiniteSet(Purse(f))
<1>1. \A c \in Purse(f) : c = <<c[1], c[2]>> /\ c[1] \in Purses /\ c[2] \in 1..f[c[1]]
  BY DEF Purse
<1>2. \A p \in Purses : \A i \in 1..f[p] : <<p, i>> \in Purse(f)
  <2> TAKE p \in Purses
  <2> TAKE i \in 1..f[p]
  <2>1. <<p, i>> \in {p} \X (1..f[p])
    OBVIOUS
  <2> QED
    BY <2>1 DEF Purse
<1>3. IsFiniteSet(Purse(f))
  <2> DEFINE parts == {{p} \X (1..f[p]) : p \in Purses}
  <2>1. IsFiniteSet(parts)
    <3> DEFINE part == [p \in Purses |-> {p} \X (1..f[p])]
    <3>1. part \in Surjection(Purses, parts)
      BY DEF Surjection
    <3> HIDE DEF parts, part
    <3> QED
      BY <3>1, TransactionAssumption, FS_Surjection
  <2>2. \A part \in parts : IsFiniteSet(part)
    <3> SUFFICES ASSUME NEW p \in Purses PROVE IsFiniteSet({p} \X (1..f[p]))
      OBVIOUS
    <3>1. IsFiniteSet({p})
      BY FS_Singleton
    <3>2. IsFiniteSet(1..f[p])
      <4>1. f[p] \in Int
        OBVIOUS
      <4> QED
        BY <4>1, FS_Interval
    <3> QED
      BY <3>1, <3>2, FS_Product
  <2> QED
    BY <2>1, <2>2, FS_UNION DEF Purse
<1> QED
  BY <1>1, <1>2, <1>3

\* As many coins as one pays, the other gets.
LEMMA PayKeepsCoins ==
    ASSUME NEW f \in [Purses -> Nat], NEW g \in Purses, NEW r \in Purses,
           NEW n \in Nat, n <= f[g]
    PROVE  /\ Pay(f, g, r, n) \in [Purses -> Nat]
           /\ Cardinality(Purse(Pay(f, g, r, n))) = Cardinality(Purse(f))
           /\ n <= Pay(f, g, r, n)[r]
           /\ Pay(Pay(f, g, r, n), r, g, n) = f
<1> DEFINE h == Pay(f, g, r, n)
<1>1. CASE g = r
  <2>1. f[g] \in Nat /\ (f[g] - n) + n = f[g] /\ (f[g] + n) - n = f[g]
    OBVIOUS
  <2>2. h \in [Purses -> Nat] /\ \A p \in Purses : h[p] = f[p]
    BY <1>1, <2>1 DEF Pay
  <2> HIDE DEF h
  <2>3. h = f
    BY <2>2
  <2> QED
    BY <1>1, <2>3 DEF h
<1>2. CASE g # r
  <2>1. /\ h \in [Purses -> Nat] /\ h[g] = f[g] - n /\ h[r] = f[r] + n
        /\ \A p \in Purses : p # g /\ p # r => h[p] = f[p]
    BY <1>2 DEF Pay
  <2> HIDE DEF h
  <2>2. Pay(h, r, g, n) = f
    <3> DEFINE e == Pay(h, r, g, n)
    <3>1. f[g] \in Nat /\ f[r] \in Nat /\ (f[g] - n) + n = f[g] /\ (f[r] + n) - n = f[r]
      OBVIOUS
    <3>2. e \in [Purses -> Nat] /\ \A p \in Purses : e[p] = f[p]
      BY <1>2, <2>1, <3>1 DEF Pay
    <3> HIDE DEF e
    <3>3. e = f
      BY <3>2
    <3> QED
      BY <3>3 DEF e
  <2> DEFINE a == f[g] - n
             moved == [c \in Purse(f) |->
                         IF c[1] = g /\ c[2] > a THEN <<r, f[r] + (c[2] - a)>> ELSE c]
  <2>3. a \in Nat /\ f[r] \in Nat /\ f[g] = a + n
    OBVIOUS
  <2> HIDE DEF a
  <2>4. \A c \in Purse(f) : moved[c] \in Purse(h)
    <3> TAKE c \in Purse(f)
    <3>1. c = <<c[1], c[2]>> /\ c[1] \in Purses /\ c[2] \in 1..f[c[1]]
      BY CoinPlaces
    <3>2. CASE c[1] = g /\ c[2] > a
      <4>1. f[r] + (c[2] - a) \in 1..h[r]
        BY <2>1, <2>3, <3>1, <3>2
      <4>2. <<r, f[r] + (c[2] - a)>> \in Purse(h)
        BY <2>1, <4>1, CoinPlaces
      <4> QED
        BY <3>2, <4>2
    <3>3. CASE ~(c[1] = g /\ c[2] > a)
      <4>1. c[2] \in 1..h[c[1]]
        BY <1>2, <2>1, <2>3, <3>1, <3>3 DEF a
      <4>2. <<c[1], c[2]>> \in Purse(h)
        BY <2>1, <3>1, <4>1, CoinPlaces
      <4>3. moved[c] = c
        BY <3>3
      <4> QED
        BY <3>1, <4>2, <4>3
    <3> QED
      BY <3>2, <3>3
  <2>5. \A c, d \in Purse(f) : moved[c] = moved[d] => c = d
    <3> SUFFICES ASSUME NEW c \in Purse(f), NEW d \in Purse(f), moved[c] = moved[d]
                 PROVE  c = d
      OBVIOUS
    <3>1. /\ c = <<c[1], c[2]>> /\ c[2] \in 1..f[c[1]] /\ c[2] \in Int
          /\ d = <<d[1], d[2]>> /\ d[2] \in 1..f[d[1]] /\ d[2] \in Int
      BY CoinPlaces
    <3>2. CASE (c[1] = g /\ c[2] > a) /\ (d[1] = g /\ d[2] > a)
      <4>1. <<r, f[r] + (c[2] - a)>> = <<r, f[r] + (d[2] - a)>>
        BY <3>2
      <4>2. c[2] = d[2]
        BY <2>3, <3>1, <4>1
      <4> QED
        BY <3>1, <3>2, <4>2
    <3>3. CASE (c[1] = g /\ c[2] > a) /\ ~(d[1] = g /\ d[2] > a)
      <4>1. <<r, f[r] + (c[2] - a)>> = d
        BY <3>3
      <4>2. d[1] = r /\ d[2] = f[r] + (c[2] - a)
        BY <4>1
      <4>3. d[2] > f[r]
        BY <2>3, <3>1, <3>3, <4>2
      <4> QED
        BY <2>3, <3>1, <4>2, <4>3
    <3>4. CASE ~(c[1] = g /\ c[2] > a) /\ (d[1] = g /\ d[2] > a)
      <4>1. <<r, f[r] + (d[2] - a)>> = c
        BY <3>4
      <4>2. c[1] = r /\ c[2] = f[r] + (d[2] - a)
        BY <4>1
      <4>3. c[2] > f[r]
        BY <2>3, <3>1, <3>4, <4>2
      <4> QED
        BY <2>3, <3>1, <4>2, <4>3
    <3>5. CASE ~(c[1] = g /\ c[2] > a) /\ ~(d[1] = g /\ d[2] > a)
      BY <3>5
    <3> QED
      BY <3>2, <3>3, <3>4, <3>5
  <2>6. \A e \in Purse(h) : \E c \in Purse(f) : moved[c] = e
    <3> TAKE e \in Purse(h)
    <3>1. e = <<e[1], e[2]>> /\ e[1] \in Purses /\ e[2] \in 1..h[e[1]] /\ e[2] \in Int
      BY <2>1, CoinPlaces
    <3>2. CASE e[1] = r /\ e[2] > f[r]
      <4> DEFINE i == a + (e[2] - f[r])
      <4>1. i \in 1..f[g] /\ i > a /\ f[r] + (i - a) = e[2]
        BY <2>1, <2>3, <3>1, <3>2
      <4> HIDE DEF i
      <4>2. <<g, i>> \in Purse(f)
        BY <4>1, CoinPlaces
      <4>3. moved[<<g, i>>] = <<r, f[r] + (i - a)>>
        BY <4>1, <4>2
      <4> QED
        BY <3>1, <3>2, <4>1, <4>2, <4>3
    <3>3. CASE ~(e[1] = r /\ e[2] > f[r])
      <4>1. e[2] \in 1..f[e[1]] /\ ~(e[1] = g /\ e[2] > a)
        BY <1>2, <2>1, <2>3, <3>1, <3>3 DEF a
      <4>2. <<e[1], e[2]>> \in Purse(f)
        BY <3>1, <4>1, CoinPlaces
      <4>3. e \in Purse(f)
        BY <3>1, <4>2
      <4>4. moved[e] = e
        BY <4>1, <4>3
      <4> QED
        BY <4>3, <4>4
    <3> QED
      BY <3>2, <3>3
  <2> HIDE DEF moved
  <2>7. moved \in Bijection(Purse(f), Purse(h))
    <3>1. moved \in [Purse(f) -> Purse(h)]
      BY <2>4 DEF moved
    <3> QED
      BY <2>5, <2>6, <3>1 DEF Bijection, Injection, Surjection, IsInjective
  <2>8. ExistsBijection(Purse(f), Purse(h))
    BY <2>7 DEF ExistsBijection
  <2>9. Cardinality(Purse(h)) = Cardinality(Purse(f))
    BY <2>8, CoinPlaces, FS_Bijection
  <2>10. n <= h[r]
    BY <2>1, <2>3
  <2> QED
    BY <2>1, <2>2, <2>9, <2>10 DEF h
<1> QED
  BY <1>1, <1>2

-----------------------------------------------------------------------------
(* The inductive invariant.                                                *)

\* What a leg noted of the value it was going to change.
Noted(l, m, w) ==
    m.value = Reading(w, l.pool) /\ (m.had <=> w.value[l.pool] # Absent)

\* The leg took effect, and noted what its rollback needs.
Did(l, m, w, v) ==
    /\ l.kind = "transfer" => l.amount <= w.purse[l.giver] /\ Same(v, Paid(w, l))
    /\ l.kind = "delta" =>
          /\ Noted(l, m, w) /\ Same(v, Changed(w, l))
          /\ l.of # "mapping" => w.value[l.pool] # Absent
    /\ l.kind = "call" => Noted(l, m, w) /\ Same(v, Called(w, l))
    /\ l.kind = "move" =>
          /\ l.token \in Contents(w, l.giver)
          /\ KeyFree(w, l.receiver, KeyOf[l.token], l.token)
          /\ Same(v, Moved(w, l))
    /\ l.kind = "create" =>
          /\ m.made \in Supply(w, l) /\ KeyFree(w, l.receiver, l.key, NoToken)
          /\ Same(v, Created(w, l, m.made))
    /\ l.kind = "register" =>
          /\ l.token \notin w.registry
          /\ Same(v, [w EXCEPT !.registry = @ \cup {l.token}])
    /\ l.kind = "mount" =>
          /\ Ready(w, l.slot) /\ Same(v, MountedOn(w, l)) /\ m.row = w.row[l.slot]
          /\ m.made = IF l.token \in w.registry THEN NoToken ELSE l.token

Left(l, m, w, v) == IF m.committed THEN Did(l, m, w, v) ELSE Same(v, w)

Held(w) == {t \in Tokens : \E p \in Homes : t \in Contents(w, p)}

\* A world that an offer may be accepted in.
Sound(w) ==
    /\ w \in Worlds /\ Tidy(w)
    /\ Opening.registry \subseteq w.registry /\ Held(Opening) \subseteq Held(w)
    /\ Coins(w) = Coins(Opening)

Running == phase \in {"applying", "undoing"}
Clean(m) == ~m.committed /\ m.made = NoToken

\* The legs of an offer whose memory is as it was at first.
Fresh(o) == IF o # cur \/ ~Running THEN DOMAIN Legs[o]
            ELSE IF phase = "applying" THEN at..Len(Legs[o])
            ELSE (at + 1)..Len(Legs[o])

\* The giver of each item moved so far remembers its place.
PlacesKept(n) ==
    \A k \in 1..n :
        LET l == Legs[cur][k] IN
        l.kind = "move" /\ memo[cur][k].committed /\ l.giver \in Rows
            => world.recall[l.giver][l.token] = Place(was[k], l.giver, l.token)

\* Each leg before the present one has led from one world to the next.
ChainOK == \A k \in 1..(at - 1) : Left(Legs[cur][k], memo[cur][k], was[k], was[k + 1])

Halfway ==
    /\ cur \notin spent /\ MovesPlanned(cur) /\ at \in 1..Len(was)
    /\ ChainOK
    /\ phase = "applying" => world = was[at] /\ PlacesKept(at - 1)
    /\ phase = "undoing" => Left(leg, own, was[at], world) /\ PlacesKept(at)

TransactionInv ==
    /\ TypeOK /\ memo = [o \in Offers |-> memo[o]]
    /\ Sound(world) /\ \A k \in 1..Len(was) : Sound(was[k])
    /\ errors = {}
    /\ \A o \in Offers : \A i \in DOMAIN Legs[o] :
          ~memo[o][i].committed => memo[o][i].made = NoToken
    /\ \A o \in Offers \ spent : \A i \in Fresh(o) : Clean(memo[o][i])
    /\ Running => Halfway
    /\ phase = "undone" => was # << >> /\ Same(world, was[1])

-----------------------------------------------------------------------------
(* What each kind of leg makes of a sound world.                           *)

\* The fields a leg has for its kind.
LEMMA LegTypes ==
    ASSUME NEW l \in AnyLeg
    PROVE  /\ l.kind = "transfer" => l \in Transfers
           /\ l.kind = "delta" => l \in Deltas
           /\ l.kind = "move" => l \in Moves
           /\ l.kind = "create" => l \in Creations
           /\ l.kind = "register" => l \in Additions
           /\ l.kind = "mount" => l \in Mountings
           /\ l.kind = "call" => l \in Callbacks
           /\ l.kind \in {"transfer", "delta", "move", "create", "register", "mount", "call"}
BY DEF AnyLeg, Transfers, Deltas, Moves, Creations, Additions, Mountings, Callbacks

\* The legs of an offer, and the holders they move items between.
LEMMA OfferLegs ==
    ASSUME NEW o \in Offers
    PROVE  /\ Len(Legs[o]) \in Nat /\ Len(Legs[o]) > 0
           /\ DOMAIN Legs[o] = 1..Len(Legs[o])
           /\ \A i \in DOMAIN Legs[o] :
                 /\ Legs[o][i] \in AnyLeg
                 /\ Legs[o][i].kind = "move" =>
                       /\ Legs[o][i].giver \in Homes /\ Legs[o][i].receiver \in Homes
                       /\ Legs[o][i].giver # Legs[o][i].receiver
                       /\ Legs[o][i].giver \in Slots => Prerequisites[Legs[o][i].giver] = {}
                       /\ Legs[o][i].receiver \in Slots =>
                             Legs[o][i].token \in Opening.registry
                       /\ Legs[o][i].token \in Mentioned
                 /\ Legs[o][i].kind = "create" =>
                       /\ Legs[o][i].receiver \in Homes
                       /\ Legs[o][i].receiver \in Slots => Legs[o][i].register
                 /\ Legs[o][i].kind = "mount" => Legs[o][i].slot \notin Homes
<1>1. Legs[o] \in Seq(AnyLeg) /\ Legs[o] # << >>
  BY TransactionAssumption
<1>2. /\ Len(Legs[o]) \in Nat /\ Len(Legs[o]) > 0 /\ DOMAIN Legs[o] = 1..Len(Legs[o])
  BY <1>1, LenProperties, EmptySeq
<1> SUFFICES ASSUME NEW i \in DOMAIN Legs[o]
             PROVE  /\ Legs[o][i] \in AnyLeg
                    /\ Legs[o][i].kind = "move" =>
                          /\ Legs[o][i].giver \in Homes /\ Legs[o][i].receiver \in Homes
                          /\ Legs[o][i].giver # Legs[o][i].receiver
                          /\ Legs[o][i].giver \in Slots =>
                                Prerequisites[Legs[o][i].giver] = {}
                          /\ Legs[o][i].receiver \in Slots =>
                                Legs[o][i].token \in Opening.registry
                          /\ Legs[o][i].token \in Mentioned
                    /\ Legs[o][i].kind = "create" =>
                          /\ Legs[o][i].receiver \in Homes
                          /\ Legs[o][i].receiver \in Slots => Legs[o][i].register
                    /\ Legs[o][i].kind = "mount" => Legs[o][i].slot \notin Homes
  BY <1>2
<1>3. Legs[o][i] \in AnyLeg
  BY <1>1, <1>2, ElementOfSeq
<1>4. ASSUME Legs[o][i].kind = "move"
      PROVE  /\ Legs[o][i].giver \in Homes /\ Legs[o][i].receiver \in Homes
             /\ Legs[o][i].token \in Mentioned
  <2>1. Legs[o][i] \in Moves
    BY <1>3, <1>4, LegTypes
  <2>2. /\ Legs[o][i].giver \in Holders /\ Legs[o][i].receiver \in Holders
        /\ Legs[o][i].token \in Tokens
    BY <2>1 DEF Moves
  <2>3. Legs[o][i].giver \in Homes /\ Legs[o][i].receiver \in Homes
    BY <1>4, <2>2 DEF Homes
  <2> QED
    BY <1>4, <2>2, <2>3 DEF Mentioned
<1>5. ASSUME Legs[o][i].kind = "move"
      PROVE  /\ Legs[o][i].giver # Legs[o][i].receiver
             /\ Legs[o][i].giver \in Slots => Prerequisites[Legs[o][i].giver] = {}
             /\ Legs[o][i].receiver \in Slots => Legs[o][i].token \in Opening.registry
  BY <1>5, SafeOffersAssumption DEF OneWay, Reassignable, Registered, Kind
<1>6. ASSUME Legs[o][i].kind = "create"
      PROVE  /\ Legs[o][i].receiver \in Homes
             /\ Legs[o][i].receiver \in Slots => Legs[o][i].register
  <2>1. Legs[o][i].receiver \in Holders
    BY <1>3, <1>6, LegTypes DEF Creations
  <2>2. Legs[o][i].receiver \in Homes
    BY <1>6, <2>1 DEF Homes
  <2> QED
    BY <1>6, <2>2, SafeOffersAssumption DEF Registered, Kind
<1>7. Legs[o][i].kind = "mount" => Legs[o][i].slot \notin Homes
  BY SafeOffersAssumption DEF SlotsApart, Kind
<1> QED
  BY <1>3, <1>4, <1>5, <1>6, <1>7

\* Where items are decides whether a world is tidy, and what is held.
LEMMA SameIsTidy ==
    ASSUME NEW w, Tidy(w), NEW v, v.row = w.row, v.dict = w.dict,
           w.registry \subseteq v.registry
    PROVE  Tidy(v) /\ Held(v) = Held(w)
<1>1. \A p : Contents(v, p) = Contents(w, p)
  BY DEF Contents
<1>2. Mounted(v) = Mounted(w)
  BY DEF Mounted
<1>3. Held(v) = Held(w)
  BY <1>1 DEF Held
<1>4. Tidy(v)
  BY <1>1, <1>2 DEF Tidy
<1> QED
  BY <1>3, <1>4

\* Soundness is a matter of what is held.
LEMMA SameIsSound ==
    ASSUME NEW w, Sound(w), NEW v \in Worlds, Same(v, w)
    PROVE  Sound(v)
<1>1. /\ v.purse = w.purse /\ v.value = w.value /\ v.row = w.row
      /\ v.dict = w.dict /\ v.registry = w.registry
  BY SameFields
<1>2. Tidy(v) /\ Held(v) = Held(w)
  BY <1>1, SameIsTidy DEF Sound
<1>3. Coins(v) = Coins(w)
  BY <1>1 DEF Coins
<1> QED
  BY <1>1, <1>2, <1>3 DEF Sound

\* A sound world's holders are tidy one by one.
LEMMA SoundHolders ==
    ASSUME NEW w, Sound(w), NEW p \in Homes
    PROVE  /\ w \in Worlds /\ p \in Holders /\ TidyAt(w, p)
           /\ \A q \in Homes : Contents(w, p) \cap Contents(w, q) # {} => p = q
BY HolderKinds DEF Sound, Tidy, TidyAt, NoDup

\* A payment.
LEMMA PaidIsSound ==
    ASSUME NEW w, Sound(w), NEW l \in Transfers, l.amount <= w.purse[l.giver]
    PROVE  Paid(w, l) \in Worlds /\ Sound(Paid(w, l))
<1> DEFINE v == Paid(w, l)
           f == Pay(w.purse, l.giver, l.receiver, l.amount)
<1>1. w \in Worlds /\ l.giver \in Purses /\ l.receiver \in Purses /\ l.amount \in Nat
  BY DEF Sound, Transfers
<1>2. w.purse \in [Purses -> Nat]
  BY <1>1, WorldFields
<1>3. f \in [Purses -> Nat] /\ Cardinality(Purse(f)) = Cardinality(Purse(w.purse))
  BY <1>1, <1>2, PayKeepsCoins
<1> HIDE DEF f
<1>4. /\ v = [w EXCEPT !.purse = f] /\ v \in Worlds
      /\ v.purse = f /\ v.value = w.value /\ v.row = w.row
      /\ v.dict = w.dict /\ v.registry = w.registry
  BY <1>1, <1>3 DEF Paid, Worlds, f
<1> HIDE DEF v
<1>5. Coins(v) = Coins(w)
  BY <1>3, <1>4 DEF Coins, Purse
<1>6. Tidy(v) /\ Held(v) = Held(w)
  BY <1>4, SameIsTidy DEF Sound
<1> QED
  BY <1>4, <1>5, <1>6 DEF Sound, v

\* A change of a number.
LEMMA ValueIsSound ==
    ASSUME NEW w, Sound(w), NEW x \in [Pools -> Int \cup {Absent}]
    PROVE  [w EXCEPT !.value = x] \in Worlds /\ Sound([w EXCEPT !.value = x])
<1> DEFINE v == [w EXCEPT !.value = x]
<1>1. /\ v \in Worlds /\ v.purse = w.purse /\ v.row = w.row
      /\ v.dict = w.dict /\ v.registry = w.registry
  BY DEF Sound, Worlds
<1> HIDE DEF v
<1>2. Coins(v) = Coins(w)
  BY <1>1 DEF Coins
<1>3. Tidy(v) /\ Held(v) = Held(w)
  BY <1>1, SameIsTidy DEF Sound
<1> QED
  BY <1>1, <1>2, <1>3 DEF Sound, v

\* Items that are registered.
LEMMA RegisteredIsSound ==
    ASSUME NEW w, Sound(w), NEW more \in SUBSET Tokens
    PROVE  /\ [w EXCEPT !.registry = @ \cup more] \in Worlds
           /\ Sound([w EXCEPT !.registry = @ \cup more])
<1> DEFINE v == [w EXCEPT !.registry = @ \cup more]
<1>1. /\ v \in Worlds /\ v.purse = w.purse /\ v.row = w.row
      /\ v.dict = w.dict /\ v.registry = w.registry \cup more
  BY DEF Sound, Worlds
<1> HIDE DEF v
<1>2. Coins(v) = Coins(w)
  BY <1>1 DEF Coins
<1>3. Tidy(v) /\ Held(v) = Held(w)
  BY <1>1, SameIsTidy DEF Sound
<1> QED
  BY <1>1, <1>2, <1>3 DEF Sound, v

\* An item that is taken out of the world's homes.
LEMMA TakenIsTidy ==
    ASSUME NEW w \in Worlds, Tidy(w), NEW p \in Homes, NEW t \in Contents(w, p)
    PROVE  /\ Taken(w, p, t) \in Worlds /\ Tidy(Taken(w, p, t))
           /\ \A q \in Homes : t \notin Contents(Taken(w, p, t), q)
           /\ Held(w) \subseteq Held(Taken(w, p, t)) \cup {t}
           /\ Coins(Taken(w, p, t)) = Coins(w)
           /\ Taken(w, p, t).registry = w.registry
           /\ Mounted(Taken(w, p, t)) \subseteq Mounted(w)
<1> DEFINE v == Taken(w, p, t)
<1>1. p \in Holders /\ TidyAt(w, p) /\ Homes \subseteq Holders /\ Slots \subseteq Rows
  BY HolderKinds DEF Tidy, TidyAt, NoDup
<1>2. /\ v \in Worlds /\ v.purse = w.purse /\ v.registry = w.registry
      /\ p \in Dicts => v.row = w.row
      /\ p \in Rows => v.row = RowsWithout(w, p, t)
  BY <1>1, TakenFacts
<1>3. /\ Contents(v, p) = Contents(w, p) \ {t}
      /\ \A q \in Holders : q # p => Contents(v, q) = Contents(w, q)
      /\ TidyAt(v, p)
      /\ p \in Rows => Len(v.row[p]) = Len(w.row[p]) - 1
  BY <1>1, ContentsTaken
<1>4. /\ w.row \in [Rows -> Seq(Tokens)]
      /\ \A s \in Rows : Contents(w, s) = Range(w.row[s])
  BY WorldFields
<1> HIDE DEF v
<1>5. \A s \in Rows : Contents(v, s) = Range(v.row[s])
  BY <1>2, WorldFields
<1>6. \A s \in Rows : s # p => v.row[s] = w.row[s]
  BY <1>1, <1>2, <1>4, HolderKinds DEF RowsWithout
<1>7. \A q \in Homes : t \notin Contents(v, q)
  BY <1>1, <1>3 DEF Tidy
<1>8. Mounted(v) \subseteq Mounted(w) /\ Mounted(v) \in Affordable
  <2>1. \A s \in Slots : Range(v.row[s]) \subseteq Range(w.row[s])
    BY <1>1, <1>3, <1>4, <1>5, HolderKinds
  <2>2. Mounted(v) \subseteq Mounted(w)
    BY <2>1 DEF Mounted
  <2> QED
    BY <2>2, TransactionAssumption DEF Tidy
<1>9. Tidy(v)
  <2>1. \A q \in Homes : \A a, b \in Contents(v, q) : KeyOf[a] = KeyOf[b] => a = b
    BY <1>1, <1>3 DEF Tidy
  <2>2. \A q \in Homes \cap Rows : NoDup(v.row[q])
    BY <1>3, <1>6 DEF Tidy, TidyAt, NoDup
  <2>3. \A q, r \in Homes : Contents(v, q) \cap Contents(v, r) # {} => q = r
    BY <1>1, <1>3 DEF Tidy
  <2>4. \A s \in Slots : /\ Len(v.row[s]) <= Capacity[s]
                         /\ Range(v.row[s]) \subseteq Selects[s] \cap v.registry
    <3> TAKE s \in Slots
    <3>1. Len(w.row[s]) <= Capacity[s] /\ Range(w.row[s]) \subseteq Selects[s] \cap w.registry
      BY DEF Tidy
    <3>2. Len(w.row[s]) \in Nat /\ Capacity[s] \in Nat
      BY <1>1, <1>4, LenProperties, TransactionAssumption
    <3>3. Len(v.row[s]) <= Capacity[s]
      BY <1>1, <1>3, <1>6, <3>1, <3>2
    <3>4. Range(v.row[s]) \subseteq Range(w.row[s])
      BY <1>1, <1>3, <1>4, <1>5, HolderKinds
    <3> QED
      BY <1>2, <3>1, <3>3, <3>4
  <2> QED
    BY <1>8, <2>1, <2>2, <2>3, <2>4 DEF Tidy, NoDup
<1>10. Held(w) \subseteq Held(v) \cup {t}
  BY <1>1, <1>3 DEF Held
<1>11. Coins(v) = Coins(w)
  BY <1>2 DEF Coins
<1> QED
  BY <1>2, <1>7, <1>8, <1>9, <1>10, <1>11 DEF v

\* An item nobody has is given to a holder who takes it.
LEMMA AddedIsTidy ==
    ASSUME NEW w \in Worlds, Tidy(w), NEW p \in Homes, NEW t \in Tokens,
           \A q \in Homes : t \notin Contents(w, q), KeyFree(w, p, KeyOf[t], t),
           p \in Slots => CanAssign(w, p, t)
    PROVE  /\ Added(w, p, t) \in Worlds /\ Tidy(Added(w, p, t))
           /\ Held(Added(w, p, t)) = Held(w) \cup {t}
           /\ Coins(Added(w, p, t)) = Coins(w)
           /\ w.registry \subseteq Added(w, p, t).registry
<1> DEFINE v == Added(w, p, t)
<1>1. /\ p \in Holders /\ TidyAt(w, p) /\ Homes \subseteq Holders /\ Slots \subseteq Rows
      /\ t \notin Contents(w, p)
  BY HolderKinds DEF Tidy, TidyAt, NoDup
<1>2. /\ v \in Worlds /\ v.purse = w.purse
      /\ v.registry = IF p \in Slots THEN w.registry \cup {t} ELSE w.registry
      /\ p \in Dicts => v.row = w.row
      /\ p \in Rows => v.row = RowsWith(w, p, t)
  BY <1>1, AddedFacts
<1>3. /\ Contents(v, p) = Contents(w, p) \cup {t}
      /\ \A q \in Holders : q # p => Contents(v, q) = Contents(w, q)
      /\ TidyAt(v, p)
      /\ p \in Rows => Len(v.row[p]) = Len(w.row[p]) + 1
  BY <1>1, ContentsAdded
<1>4. /\ w.row \in [Rows -> Seq(Tokens)]
      /\ \A s \in Rows : Contents(w, s) = Range(w.row[s])
  BY WorldFields
<1> HIDE DEF v
<1>5. \A s \in Rows : Contents(v, s) = Range(v.row[s])
  BY <1>2, WorldFields
<1>6. \A s \in Rows : s # p => v.row[s] = w.row[s]
  BY <1>1, <1>2, <1>4, HolderKinds DEF RowsWith
<1>7. Mounted(v) \in Affordable
  <2>1. /\ p \in Slots => Range(v.row[p]) = Range(w.row[p]) \cup {t}
        /\ \A s \in Slots : s # p => Range(v.row[s]) = Range(w.row[s])
    BY <1>1, <1>3, <1>4, <1>5, HolderKinds
  <2>2. ASSUME p \in Slots PROVE Mounted(v) = Mounted(w) \cup {<<p, t>>}
    <3>1. \A m \in Slots \X Tokens :
              m[2] \in Range(v.row[m[1]]) <=> m[2] \in Range(w.row[m[1]]) \/ m = <<p, t>>
      <4> TAKE m \in Slots \X Tokens
      <4>1. m = <<m[1], m[2]>> /\ m[1] \in Slots
        OBVIOUS
      <4>2. m = <<p, t>> <=> m[1] = p /\ m[2] = t
        BY <4>1
      <4> QED
        BY <2>1, <2>2, <4>1, <4>2
    <3>2. <<p, t>> \in Slots \X Tokens
      BY <2>2
    <3> QED
      BY <3>1, <3>2 DEF Mounted
  <2>3. p \notin Slots => Mounted(v) = Mounted(w)
    BY <2>1 DEF Mounted
  <2> QED
    BY <2>2, <2>3 DEF Tidy, CanAssign
<1>8. Tidy(v)
  <2>1. \A q \in Homes : \A a, b \in Contents(v, q) : KeyOf[a] = KeyOf[b] => a = b
    BY <1>1, <1>3 DEF Tidy, TidyAt
  <2>2. \A q \in Homes \cap Rows : NoDup(v.row[q])
    BY <1>3, <1>6 DEF Tidy, TidyAt, NoDup
  <2>3. \A q, r \in Homes : Contents(v, q) \cap Contents(v, r) # {} => q = r
    BY <1>1, <1>3 DEF Tidy
  <2>4. \A s \in Slots : /\ Len(v.row[s]) <= Capacity[s]
                         /\ Range(v.row[s]) \subseteq Selects[s] \cap v.registry
    <3> TAKE s \in Slots
    <3>1. Len(w.row[s]) <= Capacity[s] /\ Range(w.row[s]) \subseteq Selects[s] \cap w.registry
      BY DEF Tidy
    <3>2. Len(w.row[s]) \in Nat /\ Capacity[s] \in Nat
      BY <1>1, <1>4, LenProperties, TransactionAssumption
    <3>3. CASE s = p
      <4>1. t \in Selects[s] /\ Len(w.row[s]) < Capacity[s]
        BY <3>3 DEF CanAssign
      <4>2. Range(v.row[s]) = Range(w.row[s]) \cup {t}
        BY <1>1, <1>3, <1>4, <1>5, <3>3
      <4>3. Len(v.row[s]) = Len(w.row[s]) + 1
        BY <1>1, <1>3, <3>3
      <4> QED
        BY <1>2, <3>1, <3>2, <3>3, <4>1, <4>2, <4>3
    <3>4. CASE s # p
      BY <1>1, <1>2, <1>6, <3>1, <3>4
    <3> QED
      BY <3>3, <3>4
  <2> QED
    BY <1>7, <2>1, <2>2, <2>3, <2>4 DEF Tidy, NoDup
<1>9. Held(v) = Held(w) \cup {t}
  BY <1>1, <1>3 DEF Held
<1>10. Coins(v) = Coins(w)
  BY <1>2 DEF Coins
<1> QED
  BY <1>2, <1>8, <1>9, <1>10 DEF v

\* An item that is moved.
LEMMA MovedIsSound ==
    ASSUME NEW w, Sound(w), NEW l \in Moves, l.giver \in Homes, l.receiver \in Homes,
           l.token \in Contents(w, l.giver), l.giver # l.receiver,
           KeyFree(w, l.receiver, KeyOf[l.token], l.token),
           CanAdd(Taken(w, l.giver, l.token), l.receiver, l.token)
    PROVE  Moved(w, l) \in Worlds /\ Sound(Moved(w, l))
<1> DEFINE t == l.token
           y == Taken(w, l.giver, t)
           v == Added(y, l.receiver, t)
<1>1. w \in Worlds /\ Tidy(w) /\ t \in Tokens
  BY DEF Sound, Moves
<1>2. /\ y \in Worlds /\ Tidy(y) /\ \A q \in Homes : t \notin Contents(y, q)
      /\ Held(w) \subseteq Held(y) \cup {t} /\ Coins(y) = Coins(w)
      /\ y.registry = w.registry
  BY <1>1, TakenIsTidy
<1>3. KeyFree(y, l.receiver, KeyOf[t], t)
  <2>1. l.giver \in Holders /\ l.receiver \in Holders /\ TidyAt(w, l.giver)
    BY SoundHolders
  <2>2. Contents(y, l.receiver) = Contents(w, l.receiver)
    BY <1>1, <2>1, ContentsTaken
  <2> QED
    BY <2>2 DEF KeyFree
<1> HIDE DEF t, y
<1>4. l.receiver \in Slots => CanAssign(y, l.receiver, t)
  BY <1>2 DEF CanAdd, CanReceive, t, y
<1>5. /\ v \in Worlds /\ Tidy(v) /\ Held(v) = Held(y) \cup {t}
      /\ Coins(v) = Coins(y) /\ y.registry \subseteq v.registry
  BY <1>1, <1>2, <1>3, <1>4, AddedIsTidy
<1>6. Moved(w, l) = v
  BY DEF Moved, y, t
<1> HIDE DEF v
<1> QED
  BY <1>2, <1>5, <1>6 DEF Sound

\* An item that is made.
LEMMA CreatedIsSound ==
    ASSUME NEW w, Sound(w), NEW l \in Creations, l.receiver \in Homes,
           NEW t \in Supply(w, l), KeyFree(w, l.receiver, l.key, NoToken),
           CanReceive(w, l.receiver, t)
    PROVE  Created(w, l, t) \in Worlds /\ Sound(Created(w, l, t))
<1> DEFINE y == [w EXCEPT !.registry = IF l.register THEN @ \cup {t} ELSE @]
           v == Added(y, l.receiver, t)
<1>1. /\ w \in Worlds /\ Tidy(w) /\ t \in Tokens /\ KeyOf[t] = l.key
      /\ \A q \in Homes : t \notin Contents(w, q)
  BY HolderKinds DEF Sound, Supply
<1>2. /\ y \in Worlds /\ y.purse = w.purse /\ y.row = w.row /\ y.dict = w.dict
      /\ w.registry \subseteq y.registry
  BY <1>1 DEF Worlds
<1> HIDE DEF y
<1>3. Tidy(y) /\ Held(y) = Held(w) /\ \A q : Contents(y, q) = Contents(w, q)
  BY <1>1, <1>2, SameIsTidy DEF Contents
<1>4. KeyFree(y, l.receiver, KeyOf[t], t)
  <2>1. Contents(w, l.receiver) \subseteq Tokens /\ NoToken \notin Tokens
    BY <1>1, WorldFields, HolderKinds, TransactionAssumption
  <2> QED
    BY <1>1, <1>3, <2>1 DEF KeyFree
<1>5. l.receiver \in Slots => CanAssign(y, l.receiver, t)
  <2>1. CanAssign(w, l.receiver, t) => CanAssign(y, l.receiver, t)
    BY <1>2 DEF CanAssign, Ready, Mounted
  <2> QED
    BY <1>1, <2>1 DEF CanReceive
<1>6. /\ v \in Worlds /\ Tidy(v) /\ Held(v) = Held(y) \cup {t}
      /\ Coins(v) = Coins(y) /\ y.registry \subseteq v.registry
  BY <1>1, <1>2, <1>3, <1>4, <1>5, AddedIsTidy
<1>7. Created(w, l, t) = v
  BY DEF Created, y
<1>8. Coins(y) = Coins(w)
  BY <1>2 DEF Coins
<1> HIDE DEF v
<1> QED
  BY <1>2, <1>3, <1>6, <1>7, <1>8 DEF Sound

\* What an assignment changes.
LEMMA MountedFacts ==
    ASSUME NEW w \in Worlds, NEW l \in Mountings
    PROVE  /\ MountedOn(w, l) \in Worlds
           /\ MountedOn(w, l).purse = w.purse /\ MountedOn(w, l).value = w.value
           /\ MountedOn(w, l).dict = w.dict /\ MountedOn(w, l).recall = w.recall
           /\ MountedOn(w, l).registry = w.registry \cup {l.token}
           /\ MountedOn(w, l).row[l.slot] = Append(Cleared(w, l).row[l.slot], l.token)
           /\ \A r \in Rows : r # l.slot => /\ MountedOn(w, l).row[r] = w.row[r]
                                            /\ Cleared(w, l).row[r] = w.row[r]
           /\ Cleared(w, l).row \in [Rows -> Seq(Tokens)]
           /\ Cleared(w, l).row[l.slot] \in {w.row[l.slot], << >>}
<1> DEFINE c == Cleared(w, l)
           s == l.slot
           t == l.token
           v == MountedOn(w, l)
           a == Append(c.row[s], t)
           b == [c.row EXCEPT ![s] = a]
           g == w.registry \cup {t}
<1>1. /\ s \in Rows /\ t \in Tokens
  BY HolderKinds DEF Mountings
<1>2. w.row \in [Rows -> Seq(Tokens)] /\ w.registry \subseteq Tokens
  BY WorldFields
<1>3. /\ c \in Worlds /\ c.purse = w.purse /\ c.value = w.value /\ c.dict = w.dict
      /\ c.registry = w.registry /\ c.recall = w.recall
      /\ \A r \in Rows : r # s => c.row[r] = w.row[r]
      /\ c.row[s] \in {w.row[s], << >>}
  <2>1. CASE c = w
    BY <1>1, <2>1
  <2>2. CASE c = Emptied(w, s)
    <3> DEFINE e == [w.row EXCEPT ![s] = << >>]
    <3>1. e \in [Rows -> Seq(Tokens)]
      BY <1>2, EmptySeq
    <3>2. c = [w EXCEPT !.row = e]
      BY <2>2 DEF Emptied
    <3>3. e[s] = << >> /\ \A r \in Rows : r # s => e[r] = w.row[r]
      BY <1>1, <1>2
    <3> HIDE DEF c, e
    <3>4. /\ c \in Worlds /\ c.purse = w.purse /\ c.value = w.value /\ c.dict = w.dict
          /\ c.registry = w.registry /\ c.recall = w.recall /\ c.row = e
      BY <3>1, <3>2 DEF Worlds
    <3> QED
      BY <3>3, <3>4
  <2> QED
    BY <2>1, <2>2 DEF Cleared
<1>4. v = [c EXCEPT !.row = b, !.registry = g]
  BY <1>3 DEF MountedOn
<1> HIDE DEF c, s, t
<1>5. c.row \in [Rows -> Seq(Tokens)] /\ c.row[s] \in Seq(Tokens)
  BY <1>1, <1>3, WorldFields
<1>6. a \in Seq(Tokens)
  BY <1>1, <1>5, AppendProperties
<1> HIDE DEF a
<1>7. b \in [Rows -> Seq(Tokens)] /\ b[s] = a /\ \A r \in Rows : r # s => b[r] = w.row[r]
  BY <1>1, <1>3, <1>5, <1>6
<1>8. g \subseteq Tokens
  BY <1>1, <1>2
<1> HIDE DEF b, g, v
<1>9. v \in Worlds
  BY <1>3, <1>4, <1>7, <1>8 DEF Worlds
<1>10. /\ v.row = b /\ v.registry = g /\ v.purse = c.purse /\ v.value = c.value
       /\ v.dict = c.dict /\ v.recall = c.recall
  BY <1>3, <1>4 DEF Worlds
<1> QED
  BY <1>3, <1>5, <1>7, <1>9, <1>10 DEF a, c, g, s, t, v

\* A component is assigned to a slot that nothing is moved in or out of, with
\* or without the one that was there.
LEMMA MountedIsSound ==
    ASSUME NEW w, Sound(w), NEW l \in Mountings, l.slot \notin Homes, Mountable(w, l)
    PROVE  MountedOn(w, l) \in Worlds /\ Sound(MountedOn(w, l))
<1> DEFINE c == Cleared(w, l)
           s == l.slot
           t == l.token
           v == MountedOn(w, l)
           a == Append(c.row[s], t)
<1>1. w \in Worlds /\ Tidy(w) /\ s \in Slots /\ t \in Tokens /\ s \in Rows
  BY HolderKinds DEF Sound, Mountings
<1>2. w.row \in [Rows -> Seq(Tokens)]
  BY <1>1, WorldFields
<1>3. /\ v \in Worlds /\ v.purse = w.purse /\ v.dict = w.dict
      /\ v.registry = w.registry \cup {t} /\ v.row[s] = a
      /\ \A r \in Rows : r # s => v.row[r] = w.row[r] /\ c.row[r] = w.row[r]
      /\ c.row \in [Rows -> Seq(Tokens)] /\ c.row[s] \in {w.row[s], << >>}
  BY <1>1, MountedFacts
<1>4. CanAssign(c, s, t)
  BY DEF Mountable
<1> HIDE DEF a, c, s, t, v
<1>5. c.row[s] \in Seq(Tokens)
  BY <1>1, <1>3
<1>6. a \in Seq(Tokens) /\ Len(a) = Len(c.row[s]) + 1 /\ Range(a) = Range(c.row[s]) \cup {t}
  <2>1. /\ a \in Seq(Tokens) /\ Len(a) = Len(c.row[s]) + 1 /\ a[Len(c.row[s]) + 1] = t
        /\ \A i \in 1..Len(c.row[s]) : a[i] = c.row[s][i]
    BY <1>1, <1>5, AppendProperties DEF a
  <2>2. /\ DOMAIN a = 1..(Len(c.row[s]) + 1) /\ DOMAIN c.row[s] = 1..Len(c.row[s])
        /\ Len(c.row[s]) \in Nat
    BY <1>5, <2>1, LenProperties
  <2>3. DOMAIN a = DOMAIN c.row[s] \cup {Len(c.row[s]) + 1}
    BY <2>2
  <2>4. \A u : u \in Range(a) <=> u \in Range(c.row[s]) \cup {t}
    BY <2>1, <2>2, <2>3 DEF Range
  <2> QED
    BY <2>1, <2>4
<1>7. v.registry = w.registry \cup {t} /\ v.purse = w.purse /\ v.dict = w.dict /\ v \in Worlds
  BY <1>3
<1>8. v.row[s] = a /\ \A r \in Rows : r # s => v.row[r] = w.row[r]
  BY <1>3
<1>9. s \notin Homes
  BY DEF s
<1>10. \A q \in Homes : Contents(v, q) = Contents(w, q)
  BY <1>7, <1>8, <1>9, HolderKinds DEF Contents
<1>11. Mounted(v) \in Affordable
  <2>1. /\ Range(v.row[s]) = Range(c.row[s]) \cup {t}
        /\ \A q \in Slots : q # s => Range(v.row[q]) = Range(c.row[q])
    BY <1>3, <1>6, <1>8, HolderKinds
  <2>2. Mounted(v) = Mounted(c) \cup {<<s, t>>}
    <3>1. \A m \in Slots \X Tokens :
              m[2] \in Range(v.row[m[1]]) <=> m[2] \in Range(c.row[m[1]]) \/ m = <<s, t>>
      <4> TAKE m \in Slots \X Tokens
      <4>1. m = <<m[1], m[2]>> /\ m[1] \in Slots
        OBVIOUS
      <4>2. m = <<s, t>> <=> m[1] = s /\ m[2] = t
        BY <4>1
      <4> QED
        BY <2>1, <4>1, <4>2
    <3>2. <<s, t>> \in Slots \X Tokens
      BY <1>1
    <3> QED
      BY <3>1, <3>2 DEF Mounted
  <2> QED
    BY <1>4, <2>2 DEF CanAssign
<1>12. Tidy(v)
  <2>1. \A q \in Homes : \A x, y \in Contents(v, q) : KeyOf[x] = KeyOf[y] => x = y
    BY <1>1, <1>10 DEF Tidy
  <2>2. \A q \in Homes \cap Rows : NoDup(v.row[q])
    BY <1>1, <1>8, <1>9 DEF Tidy, NoDup
  <2>3. \A q, r \in Homes : Contents(v, q) \cap Contents(v, r) # {} => q = r
    BY <1>1, <1>10 DEF Tidy
  <2>4. \A q \in Slots : /\ Len(v.row[q]) <= Capacity[q]
                         /\ Range(v.row[q]) \subseteq Selects[q] \cap v.registry
    <3> TAKE q \in Slots
    <3>1. Len(w.row[q]) <= Capacity[q] /\ Range(w.row[q]) \subseteq Selects[q] \cap w.registry
      BY <1>1 DEF Tidy
    <3>2. CASE q = s
      <4>1. /\ t \in Selects[s] /\ Len(c.row[s]) < Capacity[s]
            /\ Len(c.row[s]) \in Nat /\ Capacity[s] \in Nat
        BY <1>1, <1>4, <1>5, LenProperties, TransactionAssumption DEF CanAssign
      <4>2. Range(c.row[s]) \subseteq Range(w.row[s])
        BY <1>3, EmptySeq DEF Range
      <4> QED
        BY <1>6, <1>7, <1>8, <3>1, <3>2, <4>1, <4>2
    <3>3. CASE q # s
      BY <1>7, <1>8, <3>1, <3>3, HolderKinds
    <3> QED
      BY <3>2, <3>3
  <2> QED
    BY <1>11, <2>1, <2>2, <2>3, <2>4 DEF Tidy, NoDup
<1>13. Held(v) = Held(w)
  BY <1>10 DEF Held
<1>14. Coins(v) = Coins(w)
  BY <1>7 DEF Coins
<1> QED
  BY <1>7, <1>12, <1>13, <1>14 DEF Sound, v

-----------------------------------------------------------------------------
(* What the rollback of each kind of leg brings back.                      *)

\* A holder's memory changes for the item it gives or takes only.
LEMMA RecallTaken ==
    ASSUME NEW w \in Worlds, NEW p \in Holders, NEW t \in Contents(w, p)
    PROVE  /\ \A q \in Rows : \A u \in Tokens :
                 q # p \/ u # t => Taken(w, p, t).recall[q][u] = w.recall[q][u]
           /\ p \in Rows => Taken(w, p, t).recall[p][t] = Place(w, p, t)
<1> DEFINE r == Taken(w, p, t).recall
           i == Place(w, p, t)
<1>1. w.recall \in [Rows -> [Tokens -> Nat]] /\ t \in Tokens
  BY WorldFields
<1>2. CASE p \in Dicts
  <2>1. r = w.recall /\ p \notin Rows
    BY <1>2, TakenFacts, HolderKinds
  <2> QED
    BY <2>1
<1>3. CASE p \in Rows
  <2>1. r = [w.recall EXCEPT ![p][t] = i]
    BY <1>3, TakenFacts DEF Recalling
  <2> HIDE DEF r, i
  <2>2. \A q \in Rows : \A u \in Tokens : q # p \/ u # t => r[q][u] = w.recall[q][u]
    BY <1>1, <1>3, <2>1
  <2>3. r[p][t] = i
    BY <1>1, <1>3, <2>1
  <2> QED
    BY <2>2, <2>3 DEF r, i
<1> QED
  BY <1>2, <1>3, HolderKinds

\* The same for an item that is given.
LEMMA RecallAdded ==
    ASSUME NEW w \in Worlds, NEW p \in Holders, NEW t \in Tokens, t \notin Contents(w, p)
    PROVE  \A q \in Rows : \A u \in Tokens :
               q # p \/ u # t => Added(w, p, t).recall[q][u] = w.recall[q][u]
<1> DEFINE r == Added(w, p, t).recall
<1>1. w.recall \in [Rows -> [Tokens -> Nat]]
  BY WorldFields
<1>2. CASE p \in Dicts
  <2>1. r = w.recall
    BY <1>2, AddedFacts
  <2> QED
    BY <2>1
<1>3. CASE p \in Rows
  <2>1. r = [w.recall EXCEPT ![p][t] = 0]
    <3>1. r = Recalling(w, p, t, 0)
      BY <1>3, AddedFacts
    <3> QED
      BY <3>1 DEF Recalling
  <2> HIDE DEF r
  <2>2. \A q \in Rows : \A u \in Tokens : q # p \/ u # t => r[q][u] = w.recall[q][u]
    BY <1>1, <1>3, <2>1
  <2> QED
    BY <2>2 DEF r
<1> QED
  BY <1>2, <1>3, HolderKinds

\* The giver of an item takes it back.
LEMMA GiverTakesBack ==
    ASSUME NEW w, Sound(w), NEW p \in Homes, NEW t \in Contents(w, p),
           p \in Slots => Prerequisites[p] = {},
           NEW x \in Worlds, Same(x, Taken(w, p, t)),
           p \in Rows => x.recall[p][t] = Place(w, p, t)
    PROVE  /\ CanAdd(x, p, t) /\ t \notin Contents(x, p)
           /\ Added(x, p, t) \in Worlds /\ Same(Added(x, p, t), w)
           /\ \A q \in Rows : \A u \in Tokens :
                  q # p \/ u # t => Added(x, p, t).recall[q][u] = x.recall[q][u]
<1>1. /\ w \in Worlds /\ p \in Holders /\ TidyAt(w, p) /\ Tidy(w)
      /\ t \in Tokens /\ Slots \subseteq Rows
  BY SoundHolders, WorldFields, HolderKinds DEF Sound
<1>2. p \in Slots => /\ Range(w.row[p]) \subseteq Selects[p] \cap w.registry
                     /\ Len(w.row[p]) <= Capacity[p]
                     /\ Contents(w, p) = Range(w.row[p])
  BY <1>1, WorldFields DEF Tidy
<1>3. /\ t \notin Contents(x, p) /\ KeyFree(x, p, KeyOf[t], t)
      /\ Same(Added(x, p, t), w)
  <2>1. p \in Slots => t \in w.registry
    BY <1>2
  <2> QED
    BY <1>1, <2>1, GivenBackIsSame
<1>4. ASSUME p \in Slots PROVE CanAssign(x, p, t)
  <2> DEFINE y == Taken(w, p, t)
  <2>1. x.row = y.row
    BY SameFields
  <2>2. /\ y \in Worlds /\ Mounted(y) \subseteq Mounted(w)
    BY <1>1, TakenIsTidy
  <2>3. Len(y.row[p]) = Len(w.row[p]) - 1
    BY <1>1, <1>4, ContentsTaken
  <2> HIDE DEF y
  <2>4. Mounted(x) \subseteq Mounted(w)
    BY <2>1, <2>2 DEF Mounted
  <2>5. <<p, t>> \in Mounted(w)
    BY <1>1, <1>2, <1>4 DEF Mounted
  <2>6. Mounted(x) \cup {<<p, t>>} \in Affordable
    <3> DEFINE fit == Mounted(x) \cup {<<p, t>>}
    <3>1. Mounted(w) \in Affordable /\ SUBSET Mounted(w) \subseteq Affordable
      BY <1>1, TransactionAssumption DEF Tidy
    <3>2. fit \subseteq Mounted(w)
      BY <2>4, <2>5
    <3> QED
      BY <3>1, <3>2
  <2>7. Len(w.row[p]) \in Nat /\ Capacity[p] \in Nat
    <3>1. w.row[p] \in Seq(Tokens)
      BY <1>1, <1>4, WorldFields
    <3> QED
      BY <1>4, <3>1, LenProperties, TransactionAssumption
  <2>8. Len(x.row[p]) < Capacity[p]
    BY <1>2, <1>4, <2>1, <2>3, <2>7
  <2>9. t \in Selects[p] /\ Ready(x, p)
    BY <1>2, <1>4 DEF Ready
  <2> QED
    BY <2>6, <2>8, <2>9 DEF CanAssign
<1>5. CanAdd(x, p, t)
  BY <1>3, <1>4 DEF CanAdd, CanReceive
<1>6. Added(x, p, t) \in Worlds
  BY <1>1, <1>3, AddedFacts
<1>7. \A q \in Rows : \A u \in Tokens :
          q # p \/ u # t => Added(x, p, t).recall[q][u] = x.recall[q][u]
  BY <1>1, <1>3, RecallAdded
<1> QED
  BY <1>3, <1>5, <1>6, <1>7

\* The giver of an item that was moved gets it back from the receiver.
LEMMA MovedBack ==
    ASSUME NEW w, Sound(w), NEW l \in Moves, l.giver \in Homes, l.receiver \in Homes,
           l.token \in Contents(w, l.giver), l.giver # l.receiver,
           KeyFree(w, l.receiver, KeyOf[l.token], l.token),
           l.giver \in Slots => Prerequisites[l.giver] = {},
           l.receiver \in Slots => l.token \in Opening.registry,
           NEW x \in Worlds, Same(x, Moved(w, l)),
           l.giver \in Rows => x.recall[l.giver][l.token] = Place(w, l.giver, l.token)
    PROVE  LET back == Taken(x, l.receiver, l.token) IN
           /\ l.token \in Contents(x, l.receiver) /\ CanAdd(back, l.giver, l.token)
           /\ Added(back, l.giver, l.token) \in Worlds
           /\ Same(Added(back, l.giver, l.token), w)
           /\ \A q \in Rows : \A u \in Tokens :
                  (q # l.giver /\ q # l.receiver) \/ u # l.token
                  => Added(back, l.giver, l.token).recall[q][u] = x.recall[q][u]
<1> DEFINE g == l.giver
           r == l.receiver
           t == l.token
           y == Taken(w, g, t)
           back == Taken(x, r, t)
           v == Added(back, g, t)
<1>1. /\ w \in Worlds /\ g \in Holders /\ r \in Holders /\ t \in Tokens
      /\ TidyAt(w, g) /\ Tidy(w) /\ Opening.registry \subseteq w.registry
  BY SoundHolders DEF Sound, Moves
<1>2. /\ y \in Worlds /\ y.registry = w.registry /\ \A q \in Homes : t \notin Contents(y, q)
  BY <1>1, TakenIsTidy
<1>3. KeyFree(y, r, KeyOf[t], t)
  <2>1. Contents(y, r) = Contents(w, r)
    BY <1>1, ContentsTaken
  <2> QED
    BY <2>1 DEF KeyFree
<1>4. g \in Homes /\ r \in Homes /\ g # r /\ t \in Contents(w, g)
  OBVIOUS
<1>5. r \in Slots => t \in w.registry
  BY <1>1
<1>6. Same(x, Added(y, r, t))
  BY DEF Moved
<1> HIDE DEF y, t, g, r
<1>7. /\ t \in Contents(x, r)
      /\ back.purse = y.purse /\ back.value = y.value /\ back.row = y.row
      /\ back.dict = y.dict
      /\ back.registry = IF r \in Slots THEN y.registry \cup {t} ELSE y.registry
  <2>1. y \in Worlds /\ r \in Holders /\ t \in Tokens /\ t \notin Contents(y, r)
    BY <1>1, <1>2, <1>4
  <2> HIDE DEF back
  <2>2. back = Taken(x, r, t)
    BY DEF back
  <2> QED
    BY <1>3, <1>6, <2>1, <2>2, TakenBackIsSame
<1>8. Same(back, y)
  <2>1. back.registry = y.registry
    BY <1>2, <1>5, <1>7
  <2> QED
    BY <1>7, <2>1, SameFields
<1>9. /\ back \in Worlds
      /\ \A q \in Rows : \A u \in Tokens :
             q # r \/ u # t => back.recall[q][u] = x.recall[q][u]
  BY <1>1, <1>7, TakenFacts, RecallTaken
<1>10. g \in Rows => back.recall[g][t] = Place(w, g, t)
  BY <1>1, <1>4, <1>9 DEF g, r, t
<1> HIDE DEF back
<1>11. g \in Slots => Prerequisites[g] = {}
  BY DEF g
<1>12. Same(back, Taken(w, g, t))
  BY <1>8 DEF y
<1>13. /\ CanAdd(back, g, t) /\ v \in Worlds /\ Same(v, w)
       /\ \A q \in Rows : \A u \in Tokens :
              q # g \/ u # t => v.recall[q][u] = back.recall[q][u]
  BY <1>4, <1>9, <1>10, <1>11, <1>12, GiverTakesBack
<1>14. \A q \in Rows : \A u \in Tokens :
          (q # g /\ q # r) \/ u # t => v.recall[q][u] = x.recall[q][u]
  BY <1>9, <1>13
<1> HIDE DEF v
<1> QED
  BY <1>7, <1>13, <1>14 DEF back, v, g, r, t

\* What was made is gone again.
LEMMA CreatedBack ==
    ASSUME NEW w, Sound(w), NEW l \in Creations, l.receiver \in Homes,
           l.receiver \in Slots => l.register,
           NEW t \in Supply(w, l), KeyFree(w, l.receiver, l.key, NoToken),
           NEW x \in Worlds, Same(x, Created(w, l, t))
    PROVE  LET back == [Taken(x, l.receiver, t) EXCEPT
                           !.registry = IF l.register THEN @ \ {t} ELSE @] IN
           /\ t \in Contents(x, l.receiver) /\ back \in Worlds /\ Same(back, w)
           /\ \A q \in Rows : \A u \in Tokens : u # t => back.recall[q][u] = x.recall[q][u]
<1> DEFINE r == l.receiver
           y == [w EXCEPT !.registry = IF l.register THEN @ \cup {t} ELSE @]
           out == Taken(x, r, t)
           g == IF l.register THEN out.registry \ {t} ELSE out.registry
           back == [out EXCEPT !.registry = IF l.register THEN @ \ {t} ELSE @]
<1>1. /\ w \in Worlds /\ t \in Tokens /\ KeyOf[t] = l.key /\ t \notin w.registry
      /\ r \in Holders /\ t \notin Contents(w, r) /\ NoToken \notin Tokens
  BY HolderKinds, TransactionAssumption DEF Sound, Supply
<1>2. /\ y \in Worlds /\ y.purse = w.purse /\ y.row = w.row /\ y.dict = w.dict
      /\ y.value = w.value
      /\ y.registry = IF l.register THEN w.registry \cup {t} ELSE w.registry
  BY <1>1 DEF Worlds
<1>3. Same(x, Added(y, r, t))
  BY DEF Created
<1> HIDE DEF y, r
<1>4. t \notin Contents(y, r) /\ KeyFree(y, r, KeyOf[t], t)
  <2>1. Contents(y, r) = Contents(w, r)
    BY <1>2 DEF Contents
  <2>2. Contents(w, r) \subseteq Tokens
    BY <1>1, WorldFields
  <2> QED
    BY <1>1, <2>1, <2>2 DEF KeyFree, r
<1>5. /\ t \in Contents(x, r)
      /\ out.purse = y.purse /\ out.value = y.value /\ out.row = y.row /\ out.dict = y.dict
      /\ out.registry = IF r \in Slots THEN y.registry \cup {t} ELSE y.registry
  <2> HIDE DEF out
  <2>1. out = Taken(x, r, t)
    BY DEF out
  <2> QED
    BY ZenonT(40), <1>1, <1>2, <1>3, <1>4, <2>1, TakenBackIsSame
<1>6. /\ out \in Worlds
      /\ \A q \in Rows : \A u \in Tokens : q # r \/ u # t => out.recall[q][u] = x.recall[q][u]
  BY <1>1, <1>5, TakenFacts, RecallTaken
<1> HIDE DEF out
<1>7. g = w.registry
  BY <1>1, <1>2, <1>5 DEF r
<1>8. back = [out EXCEPT !.registry = g]
  OBVIOUS
<1> HIDE DEF g, back
<1>9. /\ back \in Worlds /\ back.purse = out.purse /\ back.value = out.value
      /\ back.row = out.row /\ back.dict = out.dict /\ back.registry = g
      /\ back.recall = out.recall
  <2>1. w.registry \subseteq Tokens
    BY <1>1, WorldFields
  <2> QED
    BY <1>6, <1>7, <1>8, <2>1 DEF Worlds
<1>10. Same(back, w)
  BY <1>2, <1>5, <1>7, <1>9, SameFields
<1> QED
  BY <1>5, <1>6, <1>9, <1>10 DEF back, out, r

\* The occupants before an assignment fit again, one after the other.
LEMMA OccupantsFit ==
    ASSUME NEW w, Sound(w), NEW l \in Mountings, Ready(w, l.slot),
           NEW x \in Worlds, Same(x, MountedOn(w, l)), NEW n \in 0..Len(w.row[l.slot])
    PROVE  Fits(x, l.slot, w.row[l.slot], n)
<1> DEFINE s == l.slot
           row == w.row[s]
           z == MountedOn(w, l)
<1>1. /\ w \in Worlds /\ s \in Slots /\ s \in Rows /\ Tidy(w)
  BY HolderKinds DEF Sound, Mountings
<1>2. /\ \A r \in Rows : r # s => z.row[r] = w.row[r]
      /\ x.row = z.row
  BY <1>1, MountedFacts, SameFields
<1>3. /\ row \in Seq(Tokens) /\ Len(row) \in Nat /\ DOMAIN row = 1..Len(row)
      /\ Len(row) <= Capacity[s] /\ Capacity[s] \in Nat
      /\ Range(row) \subseteq Selects[s]
      /\ w.row \in [Rows -> Seq(Tokens)] /\ x.row \in [Rows -> Seq(Tokens)]
  <2>1. w.row \in [Rows -> Seq(Tokens)] /\ x.row \in [Rows -> Seq(Tokens)]
    BY <1>1, WorldFields
  <2> QED
    BY <1>1, <2>1, LenProperties, TransactionAssumption DEF Tidy
<1> SUFFICES ASSUME NEW j \in 1..n
             PROVE  CanAssign(Fitted(x, s, row, j - 1), s, row[j])
  BY DEF Fits
<1>4. j \in 1..Len(row) /\ row[j] \in Range(row)
  BY <1>3 DEF Range
<1> HIDE DEF row, s, z
<1> DEFINE part == SubSeq(row, 1, j - 1)
           v == Fitted(x, s, row, j - 1)
<1>5. part \in Seq(Tokens) /\ Len(part) = j - 1 /\ Range(part) \subseteq Range(row)
  <2> DEFINE m == j - 1
  <2>1. m \in Int /\ 0 <= m /\ m <= Len(row) /\ \A i \in 1..m : row[i] \in Tokens
    BY <1>3, <1>4, ElementOfSeq
  <2> HIDE DEF m
  <2>2. /\ SubSeq(row, 1, m) \in Seq(Tokens)
        /\ Len(SubSeq(row, 1, m)) = IF 1 <= m THEN m - 1 + 1 ELSE 0
        /\ \A i \in 1..(m - 1 + 1) : SubSeq(row, 1, m)[i] = row[1 + i - 1]
    BY <2>1, SubSeqProperties
  <2>3. Len(SubSeq(row, 1, m)) = m /\ \A i \in 1..m : SubSeq(row, 1, m)[i] = row[i]
    BY <2>1, <2>2
  <2>4. DOMAIN SubSeq(row, 1, m) = 1..m
    BY <2>2, <2>3, LenProperties
  <2>5. Range(SubSeq(row, 1, m)) \subseteq Range(row)
    BY <1>3, <2>1, <2>3, <2>4 DEF Range
  <2> QED
    BY <2>2, <2>3, <2>5 DEF m
<1>6. v.row = [x.row EXCEPT ![s] = part]
  BY DEF Fitted, Worlds
<1> HIDE DEF part, v
<1>7. v.row[s] = part /\ \A r \in Rows : r # s => v.row[r] = w.row[r]
  BY <1>1, <1>2, <1>3, <1>6
<1>8. row[j] \in Selects[s]
  BY <1>3, <1>4
<1>9. Ready(v, s)
  <2>1. \A q \in Prerequisites[s] : q \in Rows /\ q # s
    BY <1>1, HolderKinds, TransactionAssumption
  <2> QED
    BY <1>7, <2>1 DEF Ready, s
<1>10. Len(v.row[s]) < Capacity[s]
  BY <1>3, <1>4, <1>5, <1>7
<1>11. Mounted(v) \cup {<<s, row[j]>>} \in Affordable
  <2> DEFINE fit == Mounted(v) \cup {<<s, row[j]>>}
  <2>1. Mounted(w) \in Affordable /\ SUBSET Mounted(w) \subseteq Affordable
    BY <1>1, TransactionAssumption DEF Tidy
  <2>2. \A q \in Slots : Range(v.row[q]) \subseteq Range(w.row[q])
    BY <1>5, <1>7, HolderKinds DEF row
  <2>3. Mounted(v) \subseteq Mounted(w)
    BY <2>2 DEF Mounted
  <2>4. <<s, row[j]>> \in Mounted(w)
    BY <1>1, <1>3, <1>4, ElementOfSeq DEF Mounted, row
  <2> QED
    BY <2>1, <2>3, <2>4
<1> QED
  BY <1>8, <1>9, <1>10, <1>11 DEF CanAssign, v

\* A slot holds the occupants it held before an assignment.
LEMMA MountedBack ==
    ASSUME NEW w, Sound(w), NEW l \in Mountings,
           NEW x \in Worlds, Same(x, MountedOn(w, l)), NEW made,
           made = IF l.token \in w.registry THEN NoToken ELSE l.token
    PROVE  LET row == w.row[l.slot]
               back == [Fitted(x, l.slot, row, Len(row)) EXCEPT !.registry = @ \ {made}] IN
           back \in Worlds /\ Same(back, w) /\ back.recall = x.recall
<1> DEFINE s == l.slot
           row == w.row[s]
           z == MountedOn(w, l)
           part == SubSeq(row, 1, Len(row))
           f == [x.row EXCEPT ![s] = part]
           g == (x.registry \cup Range(part)) \ {made}
           back == [Fitted(x, s, row, Len(row)) EXCEPT !.registry = @ \ {made}]
<1>1. /\ w \in Worlds /\ s \in Slots /\ s \in Rows /\ Tidy(w) /\ l.token \in Tokens
      /\ NoToken \notin Tokens
  BY HolderKinds, TransactionAssumption DEF Sound, Mountings
<1>2. /\ x.purse = w.purse /\ x.value = w.value /\ x.dict = w.dict
      /\ x.registry = w.registry \cup {l.token}
      /\ \A r \in Rows : r # s => x.row[r] = w.row[r]
  <2>1. /\ z.purse = w.purse /\ z.value = w.value /\ z.dict = w.dict
        /\ z.registry = w.registry \cup {l.token}
        /\ \A r \in Rows : r # s => z.row[r] = w.row[r]
    BY <1>1, MountedFacts
  <2>2. /\ x.purse = z.purse /\ x.value = z.value /\ x.dict = z.dict
        /\ x.registry = z.registry /\ x.row = z.row
    BY SameFields
  <2> QED
    BY <2>1, <2>2
<1>3. /\ row \in Seq(Tokens) /\ Range(row) \subseteq w.registry /\ w.registry \subseteq Tokens
      /\ w.row \in [Rows -> Seq(Tokens)] /\ x.row \in [Rows -> Seq(Tokens)]
  <2>1. /\ w.row \in [Rows -> Seq(Tokens)] /\ x.row \in [Rows -> Seq(Tokens)]
        /\ w.registry \subseteq Tokens
    BY <1>1, WorldFields
  <2> QED
    BY <1>1, <2>1 DEF Tidy
<1> HIDE DEF row, s, z
<1>4. part = row
  <2> DEFINE m == Len(row)
  <2>1. m \in Nat /\ \A i \in 1..m : row[i] \in Tokens
    BY <1>3, LenProperties, ElementOfSeq
  <2> HIDE DEF m
  <2>2. /\ SubSeq(row, 1, m) \in Seq(Tokens)
        /\ Len(SubSeq(row, 1, m)) = IF 1 <= m THEN m - 1 + 1 ELSE 0
        /\ \A i \in 1..(m - 1 + 1) : SubSeq(row, 1, m)[i] = row[1 + i - 1]
    BY <2>1, SubSeqProperties
  <2>3. Len(SubSeq(row, 1, m)) = m /\ \A i \in 1..m : SubSeq(row, 1, m)[i] = row[i]
    BY <2>1, <2>2
  <2>4. SubSeq(row, 1, m) = row
    BY <1>3, <2>2, <2>3, SeqEqual DEF m
  <2> QED
    BY <2>4 DEF m
<1>5. f = w.row
  BY <1>1, <1>2, <1>3, <1>4 DEF row
<1>6. g = w.registry
  BY <1>1, <1>2, <1>3, <1>4
<1>7. back = [x EXCEPT !.row = f, !.registry = g]
  <2>1. Fitted(x, s, row, Len(row)) = [x EXCEPT !.row = f, !.registry = x.registry \cup Range(part)]
    BY DEF Fitted
  <2> QED
    BY <2>1 DEF Worlds
<1> HIDE DEF f, g, back
<1>8. /\ back \in Worlds /\ back.row = f /\ back.registry = g /\ back.recall = x.recall
      /\ back.purse = x.purse /\ back.value = x.value /\ back.dict = x.dict
  BY <1>3, <1>5, <1>6, <1>7 DEF Worlds
<1>9. Same(back, w)
  BY <1>2, <1>5, <1>6, <1>8, SameFields
<1> QED
  BY <1>8, <1>9 DEF back, row, s

\* Coins that were paid are paid back.
LEMMA PaidBack ==
    ASSUME NEW w \in Worlds, NEW l \in Transfers, l.amount <= w.purse[l.giver],
           NEW x \in Worlds, Same(x, Paid(w, l))
    PROVE  LET back == [x EXCEPT !.purse = Pay(@, l.receiver, l.giver, l.amount)] IN
           /\ Affords(x, l.receiver, l.amount)
           /\ back \in Worlds /\ Same(back, w) /\ back.recall = x.recall
<1> DEFINE f == Pay(w.purse, l.giver, l.receiver, l.amount)
           back == [x EXCEPT !.purse = Pay(@, l.receiver, l.giver, l.amount)]
<1>1. l.giver \in Purses /\ l.receiver \in Purses /\ l.amount \in Nat
  BY DEF Transfers
<1>2. w.purse \in [Purses -> Nat]
  BY WorldFields
<1>3. l.amount <= f[l.receiver] /\ Pay(f, l.receiver, l.giver, l.amount) = w.purse
  BY <1>1, <1>2, PayKeepsCoins
<1>4. Paid(w, l) = [w EXCEPT !.purse = f]
  BY DEF Paid
<1> HIDE DEF f
<1>5. /\ x.purse = f /\ x.value = w.value /\ x.row = w.row /\ x.dict = w.dict
      /\ x.registry = w.registry
  BY <1>4 DEF Same, Holdings, Worlds
<1>6. back = [x EXCEPT !.purse = w.purse]
  BY <1>3, <1>5
<1> HIDE DEF back
<1>7. /\ back \in Worlds /\ back.purse = w.purse /\ back.value = x.value /\ back.row = x.row
      /\ back.dict = x.dict /\ back.registry = x.registry /\ back.recall = x.recall
  BY <1>2, <1>6 DEF Worlds
<1>8. Same(back, w)
  BY <1>5, <1>7, SameFields
<1> QED
  BY <1>3, <1>5, <1>7, <1>8 DEF Affords, back

\* A number that was changed is what it was.
LEMMA ValueBack ==
    ASSUME NEW w \in Worlds, NEW pool \in Pools, NEW new \in Int \cup {Absent},
           NEW x \in Worlds, Same(x, [w EXCEPT !.value[pool] = new])
    PROVE  LET back == [x EXCEPT !.value[pool] = w.value[pool]] IN
           back \in Worlds /\ Same(back, w) /\ back.recall = x.recall
<1> DEFINE f == [w.value EXCEPT ![pool] = new]
           back == [x EXCEPT !.value[pool] = w.value[pool]]
<1>1. w.value \in [Pools -> Int \cup {Absent}]
  BY WorldFields
<1>2. [f EXCEPT ![pool] = w.value[pool]] = w.value
  BY <1>1
<1>3. [w EXCEPT !.value[pool] = new] = [w EXCEPT !.value = f]
  OBVIOUS
<1> HIDE DEF f
<1>4. /\ x.value = f /\ x.purse = w.purse /\ x.row = w.row /\ x.dict = w.dict
      /\ x.registry = w.registry
  BY <1>3 DEF Same, Holdings, Worlds
<1>5. back = [x EXCEPT !.value = w.value]
  BY <1>2, <1>4
<1> HIDE DEF back
<1>6. /\ back \in Worlds /\ back.value = w.value /\ back.purse = x.purse /\ back.row = x.row
      /\ back.dict = x.dict /\ back.registry = x.registry /\ back.recall = x.recall
  BY <1>1, <1>5 DEF Worlds
<1>7. Same(back, w)
  BY <1>4, <1>6, SameFields
<1> QED
  BY <1>6, <1>7 DEF back

\* An item that was registered is no longer.
LEMMA RegisteredBack ==
    ASSUME NEW w \in Worlds, NEW t \in Tokens, t \notin w.registry,
           NEW x \in Worlds, Same(x, [w EXCEPT !.registry = @ \cup {t}])
    PROVE  LET back == [x EXCEPT !.registry = @ \ {t}] IN
           back \in Worlds /\ Same(back, w) /\ back.recall = x.recall
<1> DEFINE back == [x EXCEPT !.registry = @ \ {t}]
<1>1. /\ x.registry = w.registry \cup {t} /\ x.purse = w.purse /\ x.row = w.row
      /\ x.dict = w.dict /\ x.value = w.value
  BY DEF Same, Holdings, Worlds
<1>2. x.registry \ {t} = w.registry /\ w.registry \subseteq Tokens
  BY <1>1, WorldFields
<1>3. back = [x EXCEPT !.registry = w.registry]
  BY <1>2
<1> HIDE DEF back
<1>4. /\ back \in Worlds /\ back.value = x.value /\ back.purse = x.purse /\ back.row = x.row
      /\ back.dict = x.dict /\ back.registry = w.registry /\ back.recall = x.recall
  BY <1>2, <1>3 DEF Worlds
<1>5. Same(back, w)
  BY <1>1, <1>4, SameFields
<1> QED
  BY <1>4, <1>5 DEF back

-----------------------------------------------------------------------------
(* What a step of an acceptance does to the world and to the legs' memory. *)

\* A step leaves the leg at hand with this memory, and the others alone.
MemoIs(m) ==
    /\ memo' = [o \in Offers |-> memo'[o]]
    /\ \A o \in Offers : memo'[o] \in [DOMAIN Legs[o] -> Memos]
    /\ memo'[cur][at] = m
    /\ \A o \in Offers : \A i \in DOMAIN Legs[o] :
          o # cur \/ i # at => memo'[o][i] = memo[o][i]

\* The givers of the legs before remember what they remembered.
RecallKept ==
    \A k \in 1..(at - 1) :
        LET l == Legs[cur][k] IN
        l.kind = "move" /\ l.giver \in Rows
            => world'.recall[l.giver][l.token] = world.recall[l.giver][l.token]

\* A leg notes something, or nothing.
LEMMA MemoStep ==
    ASSUME TransactionInv
    PROVE  /\ own \in Memos /\ leg \in AnyLeg /\ at \in DOMAIN Legs[cur] /\ cur \in Offers
           /\ UNCHANGED memo => MemoIs(own)
           /\ \A m \in Memos : memo' = [memo EXCEPT ![cur][at] = m] => MemoIs(m)
<1>1. /\ memo = [o \in Offers |-> memo[o]]
      /\ \A o \in Offers : memo[o] \in [DOMAIN Legs[o] -> Memos]
      /\ cur \in Offers /\ at \in DOMAIN Legs[cur]
  BY DEF TransactionInv, TypeOK
<1>2. own \in Memos /\ leg \in AnyLeg
  BY <1>1, OfferLegs DEF own, leg
<1>3. UNCHANGED memo => MemoIs(own)
  BY <1>1 DEF MemoIs, own
<1>4. ASSUME NEW m \in Memos, memo' = [memo EXCEPT ![cur][at] = m]
      PROVE  MemoIs(m)
  <2> DEFINE row == [memo[cur] EXCEPT ![at] = m]
  <2>1. row \in [DOMAIN Legs[cur] -> Memos] /\ row[at] = m
        /\ \A i \in DOMAIN Legs[cur] : i # at => row[i] = memo[cur][i]
    BY <1>1
  <2>2. memo' = [memo EXCEPT ![cur] = row]
    BY <1>4
  <2> HIDE DEF row
  <2>3. memo'[cur] = row /\ \A o \in Offers : o # cur => memo'[o] = memo[o]
    BY <1>1, <2>2
  <2>4. memo' = [o \in Offers |-> memo'[o]]
    BY <1>1, <2>2
  <2>5. \A o \in Offers : memo'[o] \in [DOMAIN Legs[o] -> Memos]
    BY <1>1, <2>1, <2>3
  <2>6. memo'[cur][at] = m
    BY <2>1, <2>3
  <2>7. \A o \in Offers : \A i \in DOMAIN Legs[o] :
            o # cur \/ i # at => memo'[o][i] = memo[o][i]
    BY <2>1, <2>3
  <2> QED
    BY <2>4, <2>5, <2>6, <2>7 DEF MemoIs
<1> QED
  BY <1>1, <1>2, <1>3, <1>4

\* No two legs move the same item out of one holder or back into it.
LEMMA OtherPlaces ==
    ASSUME TransactionInv, Running, NEW k \in 1..(at - 1), Legs[cur][k].kind = "move"
    PROVE  /\ Legs[cur][k].token \in Tokens /\ Legs[cur][k].token \in Mentioned
           /\ leg.kind = "move" =>
                 \/ Legs[cur][k].giver # leg.giver /\ Legs[cur][k].giver # leg.receiver
                 \/ Legs[cur][k].token # leg.token
<1>1. cur \in Offers /\ at \in DOMAIN Legs[cur] /\ MovesPlanned(cur)
  BY DEF TransactionInv, TypeOK, Halfway
<1>2. DOMAIN Legs[cur] = 1..Len(Legs[cur]) /\ Len(Legs[cur]) \in Nat
  BY <1>1, OfferLegs
<1>3. k \in DOMAIN Legs[cur] /\ k < at
  BY <1>1, <1>2
<1>4. Legs[cur][k].token \in Tokens /\ Legs[cur][k].token \in Mentioned
  BY <1>1, <1>3, OfferLegs, LegTypes DEF Moves
<1>5. ASSUME leg.kind = "move", Legs[cur][k].token = leg.token
      PROVE  Legs[cur][k].giver # leg.giver /\ Legs[cur][k].giver # leg.receiver
  <2>1. ~Clash(Legs[cur][k], leg)
    BY <1>1, <1>3, <1>5 DEF MovesPlanned, leg
  <2>2. Legs[cur][k].giver # leg.receiver
    BY <1>1, <1>3, <1>5, SafeOffersAssumption DEF OneWay, Kind, leg
  <2> QED
    BY <1>5, <2>1, <2>2 DEF Clash
<1> QED
  BY <1>4, <1>5

\* What the leg at hand is, for each kind.
LEMMA LegAtHand ==
    ASSUME TransactionInv
    PROVE  /\ leg.kind = "transfer" => leg \in Transfers
           /\ leg.kind = "delta" => leg \in Deltas
           /\ leg.kind = "move" =>
                 /\ leg \in Moves /\ leg.giver \in Homes /\ leg.receiver \in Homes
                 /\ leg.giver # leg.receiver
                 /\ leg.giver \in Slots => Prerequisites[leg.giver] = {}
                 /\ leg.receiver \in Slots => leg.token \in Opening.registry
           /\ leg.kind = "create" =>
                 /\ leg \in Creations /\ leg.receiver \in Homes
                 /\ leg.receiver \in Slots => leg.register
           /\ leg.kind = "register" => leg \in Additions
           /\ leg.kind = "mount" => leg \in Mountings /\ leg.slot \notin Homes
           /\ leg.kind = "call" => leg \in Callbacks
           /\ leg.kind \in {"transfer", "delta", "move", "create", "register", "mount", "call"}
<1>1. cur \in Offers /\ at \in DOMAIN Legs[cur] /\ leg \in AnyLeg
  BY MemoStep
<1>2. leg = Legs[cur][at]
  BY DEF leg
<1>3. /\ leg.kind = "move" =>
            /\ leg.giver \in Homes /\ leg.receiver \in Homes /\ leg.giver # leg.receiver
            /\ leg.giver \in Slots => Prerequisites[leg.giver] = {}
            /\ leg.receiver \in Slots => leg.token \in Opening.registry
      /\ leg.kind = "create" =>
            /\ leg.receiver \in Homes
            /\ leg.receiver \in Slots => leg.register
      /\ leg.kind = "mount" => leg.slot \notin Homes
  BY <1>1, <1>2, OfferLegs
<1> QED
  BY <1>1, <1>3, LegTypes

\* A world is sound while an offer is accepted, and a leg that has not been
\* committed has nothing noted but whether a key was there.
LEMMA BeforeCommit ==
    ASSUME TransactionInv, phase = "applying"
    PROVE  /\ Sound(world) /\ world \in Worlds /\ world = was[at]
           /\ ~own.committed /\ own.made = NoToken
<1>1. cur \in Offers \ spent /\ at \in DOMAIN Legs[cur] /\ world = was[at]
  BY DEF TransactionInv, TypeOK, Halfway, Running
<1>2. at \in Fresh(cur)
  <2>1. DOMAIN Legs[cur] = 1..Len(Legs[cur]) /\ Len(Legs[cur]) \in Nat
    BY <1>1, OfferLegs
  <2>2. at \in at..Len(Legs[cur])
    BY <1>1, <2>1
  <2> QED
    BY <2>2 DEF Fresh, Running
<1>3. Clean(own)
  BY <1>1, <1>2 DEF TransactionInv, own
<1> QED
  BY <1>1, <1>3 DEF TransactionInv, Sound, Clean

\* The leg took its effect and noted m.
Effect(m) ==
    /\ MemoIs(m) /\ (~m.committed => m.made = NoToken)
    /\ Left(leg, m, world, world') /\ Sound(world')
    /\ RecallKept
    /\ leg.kind = "move" /\ m.committed /\ leg.giver \in Rows =>
          world'.recall[leg.giver][leg.token] = Place(world, leg.giver, leg.token)

\* Where nobody's memory changes, it is kept.
LEMMA SameRecall ==
    ASSUME world'.recall = world.recall
    PROVE  RecallKept
BY DEF RecallKept

\* A payment, a number that changes, and an item that is registered.
LEMMA CommitNumber ==
    ASSUME TransactionInv, phase = "applying", CanCommit(world, leg),
           Transfer \/ Delta \/ Call \/ Register
    PROVE  \E m \in Memos : Effect(m)
<1>1. /\ Sound(world) /\ world \in Worlds /\ ~own.committed /\ own.made = NoToken
      /\ own \in Memos /\ Same(world', world')
  BY BeforeCommit, MemoStep DEF Same
<1>2. CASE Transfer
  <2> DEFINE m == [own EXCEPT !.committed = TRUE]
  <2>1. leg \in Transfers /\ leg.kind = "transfer" /\ leg.amount <= world.purse[leg.giver]
    BY <1>2, LegAtHand DEF Transfer, CanCommit, Affords
  <2>2. m \in Memos /\ m.committed
    BY <1>1 DEF Memos
  <2>3. MemoIs(m)
    BY <1>2, <2>2, MemoStep DEF Transfer, Note
  <2> HIDE DEF m
  <2>4. world' = Paid(world, leg) /\ Sound(Paid(world, leg))
    BY <1>1, <1>2, <2>1, PaidIsSound DEF Transfer
  <2>5. Sound(world') /\ RecallKept
    <3>1. world'.recall = world.recall
      BY <1>1, <2>4 DEF Paid, Worlds
    <3> QED
      BY <2>4, <3>1, SameRecall
  <2>6. Left(leg, m, world, world')
    BY <1>1, <2>1, <2>2, <2>4 DEF Left, Did
  <2> QED
    BY <2>1, <2>2, <2>3, <2>5, <2>6 DEF Effect
<1>3. CASE Delta \/ Call
  <2> DEFINE m == [own EXCEPT !.committed = TRUE, !.value = Reading(world, leg.pool),
                              !.had = world.value[leg.pool] # Absent]
  <2>1. /\ leg.kind \in {"delta", "call"} /\ leg.pool \in Pools /\ leg.by \in Int
        /\ leg.kind = "delta" => leg \in Deltas
        /\ leg.kind = "call" => leg \in Callbacks
    BY <1>3, LegAtHand DEF Delta, Call, Deltas, Callbacks
  <2>2. world.value \in [Pools -> Int \cup {Absent}]
    BY <1>1, WorldFields
  <2>3. Reading(world, leg.pool) \in Int
    BY <2>1, <2>2 DEF Reading
  <2>4. /\ m \in Memos /\ m.committed /\ m.value = Reading(world, leg.pool)
        /\ m.had <=> world.value[leg.pool] # Absent
    <3>1. (world.value[leg.pool] # Absent) \in BOOLEAN
      OBVIOUS
    <3> QED
      BY <1>1, <2>3, <3>1 DEF Memos
  <2>5. MemoIs(m)
    BY <1>3, <2>4, MemoStep DEF Delta, Call, Note
  <2> HIDE DEF m
  <2>6. PICK n \in Int \cup {Absent} :
            /\ world' = [world EXCEPT !.value[leg.pool] = n]
            /\ leg.kind = "delta" => world' = Changed(world, leg)
            /\ leg.kind = "call" => world' = Called(world, leg)
    <3>1. CASE Delta
      <4> DEFINE n == Reading(world, leg.pool) + leg.by
                 e == IF leg.drop /\ n = 0 THEN Absent ELSE n
      <4>1. world' = [world EXCEPT !.value[leg.pool] = e]
        BY <3>1 DEF Delta, Changed
      <4>2. e \in Int \cup {Absent}
        BY <2>1, <2>3
      <4>3. leg.kind = "delta" /\ world' = Changed(world, leg)
        BY <3>1 DEF Delta
      <4> HIDE DEF e
      <4> QED
        BY <4>1, <4>2, <4>3
    <3>2. CASE Call
      <4> DEFINE n == Reading(world, leg.pool) + leg.by
      <4>1. world' = [world EXCEPT !.value[leg.pool] = n]
        BY <3>2 DEF Call, Called
      <4>2. n \in Int \cup {Absent}
        BY <2>1, <2>3
      <4>3. leg.kind = "call" /\ world' = Called(world, leg)
        BY <3>2 DEF Call
      <4> HIDE DEF n
      <4> QED
        BY <4>1, <4>2, <4>3
    <3> QED
      BY <1>3, <3>1, <3>2
  <2>7. Sound(world') /\ RecallKept
    <3> DEFINE f == [world.value EXCEPT ![leg.pool] = n]
    <3>1. f \in [Pools -> Int \cup {Absent}]
      BY <2>1, <2>2
    <3>2. world' = [world EXCEPT !.value = f]
      BY <2>6
    <3> HIDE DEF f
    <3>3. Sound([world EXCEPT !.value = f])
      BY <1>1, <3>1, ValueIsSound
    <3>4. world'.recall = world.recall
      BY <1>1, <3>2 DEF Worlds
    <3> QED
      BY <3>2, <3>3, <3>4, SameRecall
  <2>8. Noted(leg, m, world)
    BY <2>4 DEF Noted
  <2>9. leg.kind = "delta" /\ leg.of # "mapping" => world.value[leg.pool] # Absent
    BY DEF CanCommit
  <2>10. Left(leg, m, world, world')
    <3>1. CASE leg.kind = "delta"
      <4>1. Same(world', Changed(world, leg))
        BY <1>1, <2>6, <3>1
      <4> QED
        BY <2>4, <2>8, <2>9, <3>1, <4>1 DEF Left, Did
    <3>2. CASE leg.kind = "call"
      <4>1. Same(world', Called(world, leg))
        BY <1>1, <2>6, <3>2
      <4> QED
        BY <2>4, <2>8, <3>2, <4>1 DEF Left, Did
    <3> QED
      BY <2>1, <3>1, <3>2
  <2> QED
    BY <2>1, <2>4, <2>5, <2>7, <2>10 DEF Effect
<1>4. CASE Register
  <2>1. /\ leg.kind = "register" /\ leg.token \in Tokens
        /\ world' = [world EXCEPT !.registry = @ \cup {leg.token}]
    BY <1>4, LegAtHand DEF Register, Additions
  <2>2. Sound(world') /\ RecallKept
    <3> DEFINE more == {leg.token}
    <3>1. world' = [world EXCEPT !.registry = @ \cup more] /\ more \in SUBSET Tokens
      BY <2>1
    <3> HIDE DEF more
    <3>2. Sound([world EXCEPT !.registry = @ \cup more])
      BY <1>1, <3>1, RegisteredIsSound
    <3>3. world'.recall = world.recall
      BY <1>1, <3>1 DEF Worlds
    <3> QED
      BY <3>1, <3>2, <3>3, SameRecall
  <2>3. CASE leg.token \in world.registry
    <3>1. MemoIs(own)
      BY <1>4, <2>3, MemoStep DEF Register
    <3>2. world.registry \cup {leg.token} = world.registry
      BY <2>3
    <3>3. Same(world', world)
      BY <1>1, <2>1, <3>2 DEF Same, Holdings, Worlds
    <3> QED
      BY <1>1, <2>1, <2>2, <3>1, <3>3 DEF Effect, Left
  <2>4. CASE leg.token \notin world.registry
    <3> DEFINE m == [own EXCEPT !.committed = TRUE]
    <3>1. m \in Memos /\ m.committed
      BY <1>1 DEF Memos
    <3>2. MemoIs(m)
      BY <1>4, <2>4, <3>1, MemoStep DEF Register, Note
    <3> HIDE DEF m
    <3>3. Left(leg, m, world, world')
      BY <1>1, <2>1, <2>4, <3>1 DEF Left, Did
    <3> QED
      BY <2>1, <2>2, <3>1, <3>2, <3>3 DEF Effect
  <2> QED
    BY <2>3, <2>4
<1> QED
  BY <1>2, <1>3, <1>4

\* An item that is moved.
LEMMA CommitMove ==
    ASSUME TransactionInv, phase = "applying", CanCommit(world, leg), Move
    PROVE  \E m \in Memos : Effect(m)
<1> DEFINE m == [own EXCEPT !.committed = TRUE]
           g == leg.giver
           r == leg.receiver
           t == leg.token
           y == Taken(world, g, t)
<1>1. /\ Sound(world) /\ world \in Worlds /\ own \in Memos /\ Same(world', world')
  BY BeforeCommit, MemoStep DEF Same
<1>2. /\ leg.kind = "move" /\ leg \in Moves /\ g \in Homes /\ r \in Homes /\ g # r
      /\ t \in Contents(world, g) /\ KeyFree(world, r, KeyOf[t], t)
      /\ CanAdd(y, r, t) /\ world' = Moved(world, leg) /\ t \in Tokens
  BY LegAtHand DEF Move, CanCommit, Moves
<1>3. Sound(world')
  BY <1>1, <1>2, MovedIsSound
<1>4. m \in Memos /\ m.committed
  BY <1>1 DEF Memos
<1>5. MemoIs(m)
  BY <1>4, MemoStep DEF Move, Note
<1> HIDE DEF m
<1>6. Left(leg, m, world, world')
  BY <1>1, <1>2, <1>4 DEF Left, Did
<1>7. /\ \A q \in Rows : \A u \in Tokens :
             (q # g /\ q # r) \/ u # t => world'.recall[q][u] = world.recall[q][u]
      /\ g \in Rows => world'.recall[g][t] = Place(world, g, t)
  <2> DEFINE v == Added(y, r, t)
  <2>1. /\ g \in Holders /\ r \in Holders /\ Tidy(world)
    BY <1>1, <1>2, SoundHolders DEF Sound
  <2>2. y \in Worlds /\ t \notin Contents(y, r)
    BY <1>1, <1>2, <2>1, TakenIsTidy
  <2>3. /\ \A q \in Rows : \A u \in Tokens :
               q # g \/ u # t => y.recall[q][u] = world.recall[q][u]
        /\ g \in Rows => y.recall[g][t] = Place(world, g, t)
    BY <1>1, <1>2, <2>1, RecallTaken
  <2>4. world' = v
    BY <1>2 DEF Moved
  <2> HIDE DEF y
  <2>5. \A q \in Rows : \A u \in Tokens :
            q # r \/ u # t => v.recall[q][u] = y.recall[q][u]
    BY <1>2, <2>1, <2>2, RecallAdded
  <2> HIDE DEF g, r, t, v
  <2> QED
    BY <1>2, <2>3, <2>4, <2>5
<1>8. RecallKept
  <2> SUFFICES ASSUME NEW k \in 1..(at - 1), Legs[cur][k].kind = "move",
                      Legs[cur][k].giver \in Rows
               PROVE  world'.recall[Legs[cur][k].giver][Legs[cur][k].token]
                      = world.recall[Legs[cur][k].giver][Legs[cur][k].token]
    BY DEF RecallKept
  <2>1. /\ Legs[cur][k].token \in Tokens
        /\ \/ Legs[cur][k].giver # g /\ Legs[cur][k].giver # r
           \/ Legs[cur][k].token # t
    BY <1>2, OtherPlaces DEF Running
  <2> QED
    BY <1>7, <2>1
<1> QED
  BY <1>3, <1>4, <1>5, <1>6, <1>7, <1>8 DEF Effect

\* An item that is made.
LEMMA CommitCreate ==
    ASSUME TransactionInv, phase = "applying", CanCommit(world, leg), Create
    PROVE  \E m \in Memos : Effect(m)
<1> DEFINE r == leg.receiver
<1>1. /\ Sound(world) /\ world \in Worlds /\ own \in Memos /\ Same(world', world')
  BY BeforeCommit, MemoStep DEF Same
<1>2. /\ leg.kind = "create" /\ leg \in Creations /\ r \in Homes
      /\ KeyFree(world, r, leg.key, NoToken)
  BY LegAtHand DEF Create, CanCommit
<1>3. PICK t \in Supply(world, leg) :
          /\ CanReceive(world, r, t) /\ world' = Created(world, leg, t)
          /\ Note([own EXCEPT !.committed = TRUE, !.made = t])
  BY DEF Create
<1> DEFINE m == [own EXCEPT !.committed = TRUE, !.made = t]
<1>4. t \in Tokens /\ t \notin Mentioned /\ t \notin Contents(world, r) /\ r \in Holders
  BY <1>2, <1>3, HolderKinds DEF Supply
<1>5. Sound(world')
  BY <1>1, <1>2, <1>3, CreatedIsSound
<1>6. m \in Memos /\ m.committed /\ m.made = t
  BY <1>1, <1>4 DEF Memos
<1>7. MemoIs(m)
  BY <1>3, <1>6, MemoStep DEF Note
<1> HIDE DEF m
<1>8. Left(leg, m, world, world')
  BY <1>1, <1>2, <1>3, <1>6 DEF Left, Did
<1>9. \A q \in Rows : \A u \in Tokens : u # t => world'.recall[q][u] = world.recall[q][u]
  <2> DEFINE y == [world EXCEPT !.registry = IF leg.register THEN @ \cup {t} ELSE @]
             v == Added(y, r, t)
  <2>1. y \in Worlds /\ y.row = world.row /\ y.dict = world.dict /\ y.recall = world.recall
    BY <1>1, <1>4 DEF Worlds
  <2>2. world' = v
    BY <1>3 DEF Created
  <2> HIDE DEF y
  <2>3. t \notin Contents(y, r)
    BY <1>4, <2>1 DEF Contents
  <2>4. \A q \in Rows : \A u \in Tokens :
            q # r \/ u # t => v.recall[q][u] = y.recall[q][u]
    BY <1>4, <2>1, <2>3, RecallAdded
  <2> HIDE DEF v
  <2> QED
    BY <2>1, <2>2, <2>4
<1>10. RecallKept
  <2> SUFFICES ASSUME NEW k \in 1..(at - 1), Legs[cur][k].kind = "move",
                      Legs[cur][k].giver \in Rows
               PROVE  world'.recall[Legs[cur][k].giver][Legs[cur][k].token]
                      = world.recall[Legs[cur][k].giver][Legs[cur][k].token]
    BY DEF RecallKept
  <2>1. Legs[cur][k].token \in Tokens /\ Legs[cur][k].token \in Mentioned
    BY OtherPlaces DEF Running
  <2> QED
    BY <1>4, <1>9, <2>1
<1> QED
  BY <1>2, <1>5, <1>6, <1>7, <1>8, <1>10 DEF Effect

\* A component that is assigned.
LEMMA CommitMount ==
    ASSUME TransactionInv, phase = "applying", Mount
    PROVE  \E m \in Memos : Effect(m)
<1> DEFINE s == leg.slot
           row == world.row[s]
           made == IF leg.token \in world.registry THEN own.made ELSE leg.token
           m == [own EXCEPT !.committed = TRUE, !.row = row, !.made = made]
<1>1. /\ Sound(world) /\ world \in Worlds /\ own \in Memos /\ Same(world', world')
      /\ own.made = NoToken
  BY BeforeCommit, MemoStep DEF Same
<1>2. /\ leg.kind = "mount" /\ leg \in Mountings /\ s \notin Homes
      /\ Mountable(world, leg) /\ world' = MountedOn(world, leg)
  BY LegAtHand DEF Mount
<1>3. s \in Slots /\ s \in Rows /\ leg.token \in Tokens
  BY <1>2, HolderKinds DEF Mountings
<1>4. row \in Seq(Tokens)
  BY <1>1, <1>3, WorldFields
<1>5. made \in Tokens \cup {NoToken}
  BY <1>1, <1>3
<1> HIDE DEF row, made
<1>6. m \in Memos /\ m.committed /\ m.row = row /\ m.made = made
  BY <1>1, <1>4, <1>5 DEF Memos
<1>7. MemoIs(m)
  <2>1. memo' = [memo EXCEPT ![cur][at] = m]
    BY DEF Mount, Note, row, made
  <2> QED
    BY <1>6, <2>1, MemoStep
<1> HIDE DEF m
<1>8. Sound(world')
  BY <1>1, <1>2, MountedIsSound
<1>9. Ready(world, s)
  <2>1. /\ \A q \in Prerequisites[s] : q \in Rows /\ q # s
        /\ Ready(Cleared(world, leg), s)
    BY <1>2, <1>3, HolderKinds, TransactionAssumption DEF Mountable, CanAssign
  <2>2. \A q \in Rows : q # s => Cleared(world, leg).row[q] = world.row[q]
    BY <1>1, <1>2, MountedFacts
  <2> QED
    BY <2>1, <2>2 DEF Ready
<1>10. Left(leg, m, world, world')
  <2>1. made = IF leg.token \in world.registry THEN NoToken ELSE leg.token
    BY <1>1 DEF made
  <2> QED
    BY <1>1, <1>2, <1>6, <1>9, <2>1 DEF Left, Did, row
<1>11. world'.recall = world.recall
  BY <1>1, <1>2, MountedFacts
<1> QED
  BY <1>2, <1>6, <1>7, <1>8, <1>10, <1>11, SameRecall DEF Effect

\* A leg that raises leaves what it found, an item that was refused included.
LEMMA BalkEffect ==
    ASSUME TransactionInv, Balk
    PROVE  \E m \in Memos : Effect(m) /\ ~m.committed
<1>1. phase = "applying"
  BY DEF Balk
<1>2. /\ Sound(world) /\ world \in Worlds /\ own \in Memos /\ ~own.committed
      /\ own.made = NoToken
  BY <1>1, BeforeCommit, MemoStep
<1>3. PICK m \in Memos : MemoIs(m) /\ ~m.committed /\ m.made = NoToken
  <2>1. CASE leg.kind = "delta"
    <3> DEFINE m == [own EXCEPT !.had = world.value[leg.pool] # Absent]
    <3>1. (world.value[leg.pool] # Absent) \in BOOLEAN
      OBVIOUS
    <3>2. m \in Memos /\ ~m.committed /\ m.made = NoToken
      BY <1>2, <3>1 DEF Memos
    <3>3. MemoIs(m)
      BY <2>1, <3>2, MemoStep DEF Balk, Note
    <3> QED
      BY <3>2, <3>3
  <2>2. CASE leg.kind # "delta"
    <3>1. MemoIs(own)
      BY <2>2, MemoStep DEF Balk
    <3> QED
      BY <1>2, <3>1
  <2> QED
    BY <2>1, <2>2
<1>4. CASE UNCHANGED world
  <2>1. Same(world', world) /\ Sound(world') /\ RecallKept
    BY <1>2, <1>4, SameRecall DEF Same
  <2> QED
    BY <1>3, <2>1 DEF Effect, Left
<1>5. CASE /\ leg.kind = "move" /\ CanCommit(world, leg)
           /\ world' = GivenBack(Taken(world, leg.giver, leg.token), leg.giver, leg.token)
  <2> DEFINE g == leg.giver
             t == leg.token
             out == Taken(world, g, t)
  <2>1. /\ g \in Homes /\ g \in Holders /\ t \in Contents(world, g) /\ t \in Tokens
        /\ g \in Slots => Prerequisites[g] = {}
    BY <1>5, LegAtHand, HolderKinds DEF CanCommit, Moves
  <2>2. /\ out \in Worlds /\ Same(out, out)
        /\ g \in Rows => out.recall[g][t] = Place(world, g, t)
        /\ \A q \in Rows : \A u \in Tokens :
               q # g \/ u # t => out.recall[q][u] = world.recall[q][u]
    BY <1>2, <2>1, TakenFacts, RecallTaken DEF Same
  <2>3. /\ CanAdd(out, g, t)
        /\ Added(out, g, t) \in Worlds /\ Same(Added(out, g, t), world)
        /\ \A q \in Rows : \A u \in Tokens :
               q # g \/ u # t => Added(out, g, t).recall[q][u] = out.recall[q][u]
    BY <1>2, <2>1, <2>2, GiverTakesBack
  <2>4. world' = Added(out, g, t)
    BY <1>5, <2>3 DEF GivenBack
  <2> HIDE DEF out
  <2>5. Same(world', world) /\ Sound(world')
    BY <1>2, <2>3, <2>4, SameIsSound
  <2>6. RecallKept
    <3> SUFFICES ASSUME NEW k \in 1..(at - 1), Legs[cur][k].kind = "move",
                        Legs[cur][k].giver \in Rows
                 PROVE  world'.recall[Legs[cur][k].giver][Legs[cur][k].token]
                        = world.recall[Legs[cur][k].giver][Legs[cur][k].token]
      BY DEF RecallKept
    <3>1. /\ Legs[cur][k].token \in Tokens
          /\ Legs[cur][k].giver # g \/ Legs[cur][k].token # t
      BY <1>1, <1>5, OtherPlaces DEF Running
    <3> QED
      BY <2>2, <2>3, <2>4, <3>1
  <2> QED
    BY <1>3, <2>5, <2>6 DEF Effect, Left
<1> QED
  BY <1>4, <1>5 DEF Balk

\* The leg is undone: the world is what it was before it, and nothing raised.
Reverted(m) ==
    /\ MemoIs(m) /\ Clean(m) /\ UNCHANGED errors
    /\ world' \in Worlds /\ Same(world', was[at]) /\ RecallKept

\* What is known when a leg is undone.
LEMMA BeforeUndo ==
    ASSUME TransactionInv, phase = "undoing"
    PROVE  /\ Sound(was[at]) /\ was[at] \in Worlds /\ Sound(world) /\ world \in Worlds
           /\ Left(leg, own, was[at], world)
           /\ leg.kind = "move" /\ own.committed /\ leg.giver \in Rows =>
                 world.recall[leg.giver][leg.token] = Place(was[at], leg.giver, leg.token)
           /\ ~own.committed => own.made = NoToken
           /\ Blank \in Memos /\ Clean(Blank)
<1>1. Halfway /\ at \in 1..Len(was)
  BY DEF TransactionInv, Running, Halfway
<1>2. /\ Sound(was[at]) /\ Sound(world) /\ Left(leg, own, was[at], world) /\ PlacesKept(at)
  BY <1>1 DEF TransactionInv, Halfway
<1>3. at \in 1..at
  BY <1>1
<1>4. leg.kind = "move" /\ own.committed /\ leg.giver \in Rows =>
          world.recall[leg.giver][leg.token] = Place(was[at], leg.giver, leg.token)
  BY <1>2, <1>3 DEF PlacesKept, leg, own
<1>5. ~own.committed => own.made = NoToken
  BY MemoStep DEF TransactionInv, own
<1>6. Blank \in Memos /\ Clean(Blank)
  <2>1. << >> \in Seq(Tokens)
    BY EmptySeq
  <2> QED
    BY <2>1 DEF Blank, Memos, Clean
<1> QED
  BY <1>2, <1>4, <1>5, <1>6 DEF Sound

\* Whatever the leg, its rollback brings back the world before it.
LEMMA UndoEffect ==
    ASSUME TransactionInv, Undo
    PROVE  \E m \in Memos : Reverted(m)
<1> DEFINE w == was[at]
<1>1. phase = "undoing"
  BY DEF Undo
<1>2. /\ Sound(w) /\ w \in Worlds /\ Sound(world) /\ world \in Worlds
      /\ Left(leg, own, w, world)
      /\ leg.kind = "move" /\ own.committed /\ leg.giver \in Rows =>
            world.recall[leg.giver][leg.token] = Place(w, leg.giver, leg.token)
      /\ ~own.committed => own.made = NoToken
      /\ Blank \in Memos /\ Clean(Blank)
  BY <1>1, BeforeUndo
<1>3. own \in Memos
  BY MemoStep
<1>4. Undone => MemoIs(Blank) /\ UNCHANGED errors
  BY <1>2, MemoStep DEF Undone
<1> HIDE DEF w
<1>5. CASE ~own.committed
  <2>1. UNCHANGED <<world, memo, errors>> /\ Same(world, w)
    BY <1>2, <1>5 DEF Undo, Left
  <2>2. MemoIs(own) /\ Clean(own)
    BY <1>2, <1>5, <2>1, MemoStep DEF Clean
  <2> QED
    BY <1>2, <1>3, <2>1, <2>2, SameRecall DEF Reverted, w
<1>6. CASE own.committed
  <2> SUFFICES Undone /\ world' \in Worlds /\ Same(world', w) /\ RecallKept
    BY <1>2, <1>4 DEF Reverted, w
  <2>1. Did(leg, own, w, world)
    BY <1>2, <1>6 DEF Left
  <2>2. CASE UndoTransfer
    <3>1. /\ leg \in Transfers /\ leg.amount <= w.purse[leg.giver]
          /\ Same(world, Paid(w, leg))
      BY <2>1, <2>2, LegAtHand DEF UndoTransfer, Did
    <3> DEFINE back == [world EXCEPT !.purse = Pay(@, leg.receiver, leg.giver, leg.amount)]
    <3>2. /\ Affords(world, leg.receiver, leg.amount)
          /\ back \in Worlds /\ Same(back, w) /\ back.recall = world.recall
      BY <1>2, <3>1, PaidBack
    <3>3. world' = back /\ Undone
      BY <2>2, <3>2 DEF UndoTransfer
    <3> HIDE DEF back
    <3> QED
      BY <3>2, <3>3, SameRecall
  <2>3. CASE UndoDelta
    <3>1. /\ leg.kind \in {"delta", "call"} /\ leg.pool \in Pools /\ leg.by \in Int
      BY <2>3, LegAtHand DEF UndoDelta, Deltas, Callbacks
    <3>2. w.value \in [Pools -> Int \cup {Absent}] /\ own.had \in BOOLEAN
      BY <1>2, <1>3, WorldFields DEF Memos
    <3>3. /\ Noted(leg, own, w)
          /\ leg.kind = "delta" => Same(world, Changed(w, leg))
          /\ leg.kind = "call" => Same(world, Called(w, leg))
          /\ leg.kind = "delta" /\ leg.of # "mapping" => w.value[leg.pool] # Absent
      BY <2>1, <3>1 DEF Did
    <3>4. Before = w.value[leg.pool]
      <4>1. /\ own.value = Reading(w, leg.pool)
            /\ own.had <=> w.value[leg.pool] # Absent
        BY <3>3 DEF Noted
      <4> QED
        BY <3>3, <4>1 DEF Before, Reading
    <3>5. PICK n \in Int \cup {Absent} : Same(world, [w EXCEPT !.value[leg.pool] = n])
      <4> DEFINE n == Reading(w, leg.pool) + leg.by
                 e == IF leg.drop /\ n = 0 THEN Absent ELSE n
      <4>1. Reading(w, leg.pool) \in Int
        BY <3>1, <3>2 DEF Reading
      <4>2. n \in Int \cup {Absent} /\ e \in Int \cup {Absent}
        BY <3>1, <4>1
      <4>3. Called(w, leg) = [w EXCEPT !.value[leg.pool] = n]
        BY DEF Called
      <4>4. Changed(w, leg) = [w EXCEPT !.value[leg.pool] = e]
        BY DEF Changed
      <4> HIDE DEF n, e
      <4> QED
        BY <3>1, <3>3, <4>2, <4>3, <4>4
    <3> DEFINE back == [world EXCEPT !.value[leg.pool] = w.value[leg.pool]]
    <3>6. back \in Worlds /\ Same(back, w) /\ back.recall = world.recall
      BY <1>2, <3>1, <3>5, ValueBack
    <3>7. world' = back /\ Undone
      BY <2>3, <3>4 DEF UndoDelta
    <3> HIDE DEF back
    <3> QED
      BY <3>6, <3>7, SameRecall
  <2>4. CASE UndoMove
    <3> DEFINE g == leg.giver
               r == leg.receiver
               t == leg.token
               back == Taken(world, r, t)
               v == Added(back, g, t)
    <3>1. /\ leg.kind = "move" /\ leg \in Moves /\ g \in Homes /\ r \in Homes /\ g # r
          /\ g \in Slots => Prerequisites[g] = {}
          /\ r \in Slots => t \in Opening.registry
      BY <2>4, LegAtHand DEF UndoMove
    <3>2. /\ t \in Contents(w, g) /\ KeyFree(w, r, KeyOf[t], t) /\ Same(world, Moved(w, leg))
          /\ g \in Rows => world.recall[g][t] = Place(w, g, t)
      BY <1>2, <1>6, <2>1, <3>1 DEF Did
    <3>3. /\ t \in Contents(world, r) /\ CanAdd(back, g, t)
          /\ v \in Worlds /\ Same(v, w)
          /\ \A q \in Rows : \A u \in Tokens :
                 (q # g /\ q # r) \/ u # t => v.recall[q][u] = world.recall[q][u]
      BY <1>2, <3>1, <3>2, MovedBack
    <3>4. world' = v /\ Undone
      BY <2>4, <3>3 DEF UndoMove
    <3> HIDE DEF v
    <3>5. RecallKept
      <4> SUFFICES ASSUME NEW k \in 1..(at - 1), Legs[cur][k].kind = "move",
                          Legs[cur][k].giver \in Rows
                   PROVE  world'.recall[Legs[cur][k].giver][Legs[cur][k].token]
                          = world.recall[Legs[cur][k].giver][Legs[cur][k].token]
        BY DEF RecallKept
      <4>1. /\ Legs[cur][k].token \in Tokens
            /\ \/ Legs[cur][k].giver # g /\ Legs[cur][k].giver # r
               \/ Legs[cur][k].token # t
        BY <1>1, <3>1, OtherPlaces DEF Running
      <4> QED
        BY <3>3, <3>4, <4>1
    <3> QED
      BY <3>3, <3>4, <3>5
  <2>5. CASE UndoCreate
    <3> DEFINE r == leg.receiver
               t == own.made
               back == [Taken(world, r, t) EXCEPT !.registry = IF leg.register THEN @ \ {t} ELSE @]
    <3>1. /\ leg.kind = "create" /\ leg \in Creations /\ r \in Homes
          /\ r \in Slots => leg.register
      BY <2>5, LegAtHand DEF UndoCreate
    <3>2. /\ t \in Supply(w, leg) /\ KeyFree(w, r, leg.key, NoToken)
          /\ Same(world, Created(w, leg, t))
      BY <2>1, <3>1 DEF Did
    <3>3. /\ t \in Contents(world, r) /\ back \in Worlds /\ Same(back, w)
          /\ \A q \in Rows : \A u \in Tokens : u # t => back.recall[q][u] = world.recall[q][u]
      BY <1>2, <3>1, <3>2, CreatedBack
    <3>4. world' = back /\ Undone
      BY <2>5, <3>3 DEF UndoCreate
    <3> HIDE DEF back
    <3>5. RecallKept
      <4> SUFFICES ASSUME NEW k \in 1..(at - 1), Legs[cur][k].kind = "move",
                          Legs[cur][k].giver \in Rows
                   PROVE  world'.recall[Legs[cur][k].giver][Legs[cur][k].token]
                          = world.recall[Legs[cur][k].giver][Legs[cur][k].token]
        BY DEF RecallKept
      <4>1. Legs[cur][k].token \in Tokens /\ Legs[cur][k].token \in Mentioned
        BY <1>1, OtherPlaces DEF Running
      <4>2. t \notin Mentioned
        BY <3>2 DEF Supply
      <4> HIDE DEF t
      <4> QED
        BY <3>3, <3>4, <4>1, <4>2
    <3> QED
      BY <3>3, <3>4, <3>5
  <2>6. CASE UndoRegister
    <3>1. /\ leg.token \in Tokens /\ leg.token \notin w.registry
          /\ Same(world, [w EXCEPT !.registry = @ \cup {leg.token}])
      BY <2>1, <2>6, LegAtHand DEF UndoRegister, Did, Additions
    <3> DEFINE back == [world EXCEPT !.registry = @ \ {leg.token}]
    <3>2. back \in Worlds /\ Same(back, w) /\ back.recall = world.recall
      BY <1>2, <3>1, RegisteredBack
    <3>3. world' = back /\ Undone
      BY <2>6 DEF UndoRegister
    <3> HIDE DEF back
    <3> QED
      BY <3>2, <3>3, SameRecall
  <2>7. CASE UndoMount
    <3> DEFINE s == leg.slot
               row == own.row
    <3>1. leg.kind = "mount" /\ leg \in Mountings
      BY <2>7, LegAtHand DEF UndoMount
    <3>2. /\ Ready(w, s) /\ Same(world, MountedOn(w, leg)) /\ row = w.row[s]
          /\ own.made = IF leg.token \in w.registry THEN NoToken ELSE leg.token
      BY <2>1, <3>1 DEF Did
    <3>3. Len(row) \in Nat
      <4>1. w.row[s] \in Seq(Tokens)
        BY <1>2, <3>1, WorldFields, HolderKinds DEF Mountings
      <4> QED
        BY <3>2, <4>1, LenProperties
    <3>4. \A n \in 0..Len(row) : Fits(world, s, row, n)
      BY <1>2, <3>1, <3>2, OccupantsFit
    <3> DEFINE back == [Fitted(world, s, row, Len(row)) EXCEPT !.registry = @ \ {own.made}]
    <3>5. world' = back /\ Undone
      <4>1. PICK n \in 0..Len(row) :
                /\ n < Len(row) => ~Fits(world, s, row, n + 1)
                /\ n = Len(row) =>
                      /\ world' = [Fitted(world, s, row, n) EXCEPT !.registry = @ \ {own.made}]
                      /\ Undone
        BY <2>7 DEF UndoMount
      <4>2. n = Len(row)
        <5>1. n < Len(row) => n + 1 \in 0..Len(row)
          BY <3>3
        <5> QED
          BY <3>3, <3>4, <4>1, <5>1
      <4> QED
        BY <4>1, <4>2
    <3>6. back \in Worlds /\ Same(back, w) /\ back.recall = world.recall
      <4> DEFINE made == own.made
      <4>1. made = IF leg.token \in w.registry THEN NoToken ELSE leg.token
        BY <3>2
      <4> HIDE DEF made
      <4>2. LET old == w.row[leg.slot]
                b == [Fitted(world, leg.slot, old, Len(old)) EXCEPT !.registry = @ \ {made}] IN
            b \in Worlds /\ Same(b, w) /\ b.recall = world.recall
        BY <1>2, <3>1, <3>2, <4>1, MountedBack
      <4> QED
        BY <3>2, <4>2 DEF made
    <3> HIDE DEF back
    <3> QED
      BY <3>5, <3>6, SameRecall
  <2> QED
    BY <1>6, <2>2, <2>3, <2>4, <2>5, <2>6, <2>7 DEF Undo
<1> QED
  BY <1>5, <1>6

-----------------------------------------------------------------------------
(* The invariant is inductive.                                             *)

\* The world the offers were built in is sound, and no leg has any memory.
LEMMA InitInv == Init => TransactionInv
<1> SUFFICES ASSUME Init PROVE TransactionInv
  OBVIOUS
<1>1. Sound(Opening)
  BY TransactionAssumption, SafeOffersAssumption DEF Sound
<1>2. Blank \in Memos /\ Clean(Blank)
  <2>1. << >> \in Seq(Tokens)
    BY EmptySeq
  <2> QED
    BY <2>1 DEF Blank, Memos, Clean
<1>3. cur \in Offers
  BY TransactionAssumption DEF Init
<1>4. memo = [o \in Offers |-> memo[o]]
      /\ \A o \in Offers : memo[o] = [i \in DOMAIN Legs[o] |-> Blank]
  BY DEF Init
<1>5. TypeOK
  <2>1. at \in DOMAIN Legs[cur]
    BY <1>3, OfferLegs DEF Init
  <2>2. << >> \in Seq(Worlds)
    BY EmptySeq
  <2> QED
    BY <1>2, <1>3, <1>4, <2>1, <2>2, TransactionAssumption DEF Init, TypeOK
<1>6. \A o \in Offers : \A i \in DOMAIN Legs[o] : Clean(memo[o][i])
  BY <1>2, <1>4
<1>7. \A o \in Offers : Fresh(o) \subseteq DOMAIN Legs[o]
  BY DEF Init, Fresh, Running
<1>8. ~Running /\ phase # "undone" /\ Len(was) = 0
  BY EmptySeq DEF Init, Running
<1> QED
  BY <1>1, <1>4, <1>5, <1>6, <1>7, <1>8 DEF TransactionInv, Init, Clean

\* An offer that is accepted has not been accepted before.
LEMMA AcceptStep ==
    ASSUME TransactionInv, NEW o \in Offers, Accept(o)
    PROVE  TransactionInv'
<1>1. /\ phase \in {"idle", "accepted", "undone"} /\ o \notin spent
      /\ MovesPlanned(o) /\ phase' = "applying" /\ cur' = o /\ at' = 1
      /\ errors' = {} /\ was' = <<world>> /\ world' = world /\ memo' = memo
      /\ spent' = spent
  BY SafeOffersAssumption DEF Accept, CanAccept
<1>2. /\ TypeOK /\ Sound(world) /\ world \in Worlds
      /\ memo = [a \in Offers |-> memo[a]]
      /\ \A a \in Offers : \A i \in DOMAIN Legs[a] :
            ~memo[a][i].committed => memo[a][i].made = NoToken
      /\ \A a \in Offers \ spent : \A i \in DOMAIN Legs[a] : Clean(memo[a][i])
  <2>1. \A a \in Offers : Fresh(a) = DOMAIN Legs[a]
    BY <1>1 DEF Fresh, Running
  <2> QED
    BY <2>1 DEF TransactionInv, TypeOK
<1>3. /\ Len(Legs[o]) \in Nat /\ Len(Legs[o]) > 0 /\ DOMAIN Legs[o] = 1..Len(Legs[o])
  BY OfferLegs
<1>4. was' \in Seq(Worlds) /\ Len(was') = 1 /\ was'[1] = world
  BY <1>1, <1>2, LenProperties
<1>5. TypeOK'
  BY <1>1, <1>2, <1>3, <1>4 DEF TypeOK
<1>6. Sound(world)' /\ (\A k \in 1..Len(was) : Sound(was[k]))'
  BY <1>1, <1>2, <1>4
<1>7. (\A a \in Offers \ spent : \A i \in Fresh(a) : Clean(memo[a][i]))'
  <2> SUFFICES ASSUME NEW a \in Offers \ spent, NEW i \in Fresh(a)'
               PROVE  Clean(memo[a][i])
    BY <1>1
  <2>1. i \in DOMAIN Legs[a]
    BY <1>1, <1>3 DEF Fresh, Running
  <2> QED
    BY <1>2, <2>1
<1>8. Halfway'
  <2>1. ChainOK' /\ (PlacesKept(at - 1))'
    BY <1>1 DEF ChainOK, PlacesKept
  <2>2. MovesPlanned(cur)'
    BY <1>1
  <2>3. at' \in 1..Len(was') /\ world' = was'[at'] /\ (cur \notin spent)'
    BY <1>1, <1>4
  <2> QED
    BY <1>1, <2>1, <2>2, <2>3 DEF Halfway
<1> QED
  BY <1>1, <1>2, <1>5, <1>6, <1>7, <1>8 DEF TransactionInv

\* What a leg noted holds of any world that is the same as the one it left.
LEMMA LeftSame ==
    ASSUME NEW l, NEW m, NEW w, NEW v, NEW x, Left(l, m, w, v), Same(x, v)
    PROVE  Left(l, m, w, x)
<1>1. \A y : Same(v, y) => Same(x, y)
  BY DEF Same
<1>2. CASE m.committed
  <2>1. Did(l, m, w, v)
    BY <1>2 DEF Left
  <2>2. Did(l, m, w, x)
    BY <1>1, <2>1 DEF Did
  <2> QED
    BY <1>2, <2>2 DEF Left
<1>3. CASE ~m.committed
  BY <1>1, <1>3 DEF Left
<1> QED
  BY <1>2, <1>3

\* The leg at hand took effect, or raised: the step keeps what does not depend
\* on how the acceptance goes on.
LEMMA StepKeeps ==
    ASSUME TransactionInv, Running, cur' = cur, errors' = errors,
           NEW m \in Memos, MemoIs(m), ~m.committed => m.made = NoToken, Sound(world')
    PROVE  /\ (memo = [o \in Offers |-> memo[o]])'
           /\ Sound(world)' /\ errors' = {} /\ world' \in Worlds
           /\ \A o \in Offers : memo'[o] \in [DOMAIN Legs[o] -> Memos]
           /\ (\A o \in Offers : \A i \in DOMAIN Legs[o] :
                  ~memo[o][i].committed => memo[o][i].made = NoToken)'
           /\ \A o \in Offers \ spent : o # cur =>
                  \A i \in DOMAIN Legs[o] : Clean(memo'[o][i])
           /\ \A i \in DOMAIN Legs[cur] : i # at => memo'[cur][i] = memo[cur][i]
           /\ memo'[cur][at] = m
           /\ cur \in Offers /\ at \in 1..Len(Legs[cur]) /\ at \in 1..Len(was)
           /\ DOMAIN Legs[cur] = 1..Len(Legs[cur]) /\ Len(Legs[cur]) \in Nat
           /\ was \in Seq(Worlds) /\ Len(was) \in Nat /\ Halfway
           /\ \A k \in 1..Len(was) : Sound(was[k])
<1>1. /\ TypeOK /\ Halfway /\ errors = {}
      /\ \A k \in 1..Len(was) : Sound(was[k])
      /\ \A o \in Offers : \A i \in DOMAIN Legs[o] :
            ~memo[o][i].committed => memo[o][i].made = NoToken
      /\ \A o \in Offers \ spent : \A i \in Fresh(o) : Clean(memo[o][i])
  BY DEF TransactionInv
<1>2. /\ cur \in Offers /\ at \in DOMAIN Legs[cur] /\ at \in 1..Len(was)
      /\ was \in Seq(Worlds) /\ Len(was) \in Nat
  BY <1>1, LenProperties DEF TypeOK, Halfway
<1>3. DOMAIN Legs[cur] = 1..Len(Legs[cur]) /\ Len(Legs[cur]) \in Nat
  BY <1>2, OfferLegs
<1>4. /\ memo' = [o \in Offers |-> memo'[o]]
      /\ \A o \in Offers : memo'[o] \in [DOMAIN Legs[o] -> Memos]
      /\ memo'[cur][at] = m
      /\ \A o \in Offers : \A i \in DOMAIN Legs[o] :
            o # cur \/ i # at => memo'[o][i] = memo[o][i]
  BY DEF MemoIs
<1>5. \A o \in Offers : \A i \in DOMAIN Legs[o] :
          ~memo'[o][i].committed => memo'[o][i].made = NoToken
  <2> TAKE o \in Offers
  <2> TAKE i \in DOMAIN Legs[o]
  <2>1. CASE o = cur /\ i = at
    BY <1>4, <2>1
  <2>2. CASE o # cur \/ i # at
    BY <1>1, <1>4, <2>2
  <2> QED
    BY <2>1, <2>2
<1>6. \A o \in Offers \ spent : o # cur => \A i \in DOMAIN Legs[o] : Clean(memo'[o][i])
  BY <1>1, <1>4 DEF Fresh
<1>7. world' \in Worlds
  BY DEF Sound
<1> QED
  BY <1>1, <1>2, <1>3, <1>4, <1>5, <1>6, <1>7

\* A step from a leg keeps the chain of worlds before it.
LEMMA ChainKept ==
    ASSUME TransactionInv, Running, cur' = cur, NEW m \in Memos, MemoIs(m)
    PROVE  /\ \A k \in 1..(at - 1) :
                 Left(Legs[cur][k], memo'[cur][k], was[k], was[k + 1])
           /\ RecallKept => \A k \in 1..(at - 1) :
                 Legs[cur][k].kind = "move" /\ memo'[cur][k].committed
                    /\ Legs[cur][k].giver \in Rows
                 => world'.recall[Legs[cur][k].giver][Legs[cur][k].token]
                    = Place(was[k], Legs[cur][k].giver, Legs[cur][k].token)
<1>1. /\ cur \in Offers /\ at \in DOMAIN Legs[cur] /\ Halfway
  BY DEF TransactionInv, TypeOK
<1>2. DOMAIN Legs[cur] = 1..Len(Legs[cur]) /\ Len(Legs[cur]) \in Nat
  BY <1>1, OfferLegs
<1>3. \A k \in 1..(at - 1) : k \in DOMAIN Legs[cur] /\ k # at /\ k \in 1..at
  BY <1>1, <1>2
<1>4. \A k \in 1..(at - 1) : memo'[cur][k] = memo[cur][k]
  BY <1>1, <1>3 DEF MemoIs
<1>5. \A k \in 1..(at - 1) : Left(Legs[cur][k], memo[cur][k], was[k], was[k + 1])
  BY <1>1 DEF Halfway, ChainOK
<1>6. PlacesKept(at - 1)
  BY <1>1, <1>3 DEF Running, Halfway, PlacesKept
<1>7. ASSUME RecallKept, NEW k \in 1..(at - 1), Legs[cur][k].kind = "move",
             memo'[cur][k].committed, Legs[cur][k].giver \in Rows
      PROVE  world'.recall[Legs[cur][k].giver][Legs[cur][k].token]
             = Place(was[k], Legs[cur][k].giver, Legs[cur][k].token)
  <2>1. world'.recall[Legs[cur][k].giver][Legs[cur][k].token]
        = world.recall[Legs[cur][k].giver][Legs[cur][k].token]
    BY <1>7 DEF RecallKept
  <2>2. world.recall[Legs[cur][k].giver][Legs[cur][k].token]
        = Place(was[k], Legs[cur][k].giver, Legs[cur][k].token)
    BY <1>4, <1>6, <1>7 DEF PlacesKept
  <2> QED
    BY <2>1, <2>2
<1> QED
  BY <1>4, <1>5, <1>7

\* A leg that raised, or whose component the manager refused: the rollback
\* starts from what the leg left.
LEMMA TurnBack ==
    ASSUME TransactionInv, phase = "applying", phase' = "undoing",
           UNCHANGED <<cur, at, errors, spent, was>>, NEW m \in Memos, Effect(m)
    PROVE  TransactionInv'
<1>1. /\ MemoIs(m) /\ (~m.committed => m.made = NoToken) /\ Sound(world')
      /\ Left(leg, m, world, world') /\ RecallKept
      /\ leg.kind = "move" /\ m.committed /\ leg.giver \in Rows =>
            world'.recall[leg.giver][leg.token] = Place(world, leg.giver, leg.token)
  BY DEF Effect
<1>2. Running /\ cur' = cur /\ at' = at /\ errors' = errors /\ spent' = spent /\ was' = was
  BY DEF Running
<1>3. /\ (memo = [o \in Offers |-> memo[o]])'
      /\ Sound(world)' /\ errors' = {} /\ world' \in Worlds
      /\ \A o \in Offers : memo'[o] \in [DOMAIN Legs[o] -> Memos]
      /\ (\A o \in Offers : \A i \in DOMAIN Legs[o] :
             ~memo[o][i].committed => memo[o][i].made = NoToken)'
      /\ \A o \in Offers \ spent : o # cur =>
             \A i \in DOMAIN Legs[o] : Clean(memo'[o][i])
      /\ \A i \in DOMAIN Legs[cur] : i # at => memo'[cur][i] = memo[cur][i]
      /\ memo'[cur][at] = m
      /\ cur \in Offers /\ at \in 1..Len(Legs[cur]) /\ at \in 1..Len(was)
      /\ DOMAIN Legs[cur] = 1..Len(Legs[cur]) /\ Len(Legs[cur]) \in Nat
      /\ was \in Seq(Worlds) /\ Len(was) \in Nat /\ Halfway
      /\ \A k \in 1..Len(was) : Sound(was[k])
  BY <1>1, <1>2, StepKeeps
<1>4. /\ \A k \in 1..(at - 1) :
            Left(Legs[cur][k], memo'[cur][k], was[k], was[k + 1])
      /\ \A k \in 1..(at - 1) :
            Legs[cur][k].kind = "move" /\ memo'[cur][k].committed
               /\ Legs[cur][k].giver \in Rows
            => world'.recall[Legs[cur][k].giver][Legs[cur][k].token]
               = Place(was[k], Legs[cur][k].giver, Legs[cur][k].token)
  BY <1>1, <1>2, ChainKept
<1>5. TypeOK'
  BY <1>2, <1>3 DEF TypeOK, TransactionInv
<1>6. (\A o \in Offers \ spent : \A i \in Fresh(o) : Clean(memo[o][i]))'
  <2> SUFFICES ASSUME NEW o \in Offers \ spent, NEW i \in Fresh(o)'
               PROVE  Clean(memo'[o][i])
    BY <1>2
  <2>1. CASE o = cur
    <3>1. i \in (at + 1)..Len(Legs[cur])
      BY <1>2, <2>1 DEF Fresh, Running
    <3>2. i \in DOMAIN Legs[cur] /\ i # at /\ i \in at..Len(Legs[cur])
      BY <1>3, <3>1
    <3>3. Clean(memo[cur][i])
      BY <2>1, <3>2 DEF TransactionInv, Fresh, Running
    <3> QED
      BY <1>3, <2>1, <3>2, <3>3
  <2>2. CASE o # cur
    <3>1. i \in DOMAIN Legs[o]
      BY <1>2, <2>2 DEF Fresh
    <3> QED
      BY <1>3, <2>2, <3>1
  <2> QED
    BY <2>1, <2>2
<1>7. Halfway'
  <2>1. world = was[at] /\ cur \notin spent /\ MovesPlanned(cur)
    BY <1>3 DEF Halfway
  <2>2. ChainOK'
    BY <1>2, <1>4 DEF ChainOK
  <2>3. Left(leg, own, was[at], world)'
    BY <1>1, <1>2, <1>3, <2>1 DEF leg, own
  <2>4. PlacesKept(at)'
    <3> SUFFICES ASSUME NEW k \in 1..at, Legs[cur][k].kind = "move",
                        memo'[cur][k].committed, Legs[cur][k].giver \in Rows
                 PROVE  world'.recall[Legs[cur][k].giver][Legs[cur][k].token]
                        = Place(was[k], Legs[cur][k].giver, Legs[cur][k].token)
      BY <1>2 DEF PlacesKept
    <3>1. CASE k = at
      BY <1>1, <1>3, <2>1, <3>1 DEF leg
    <3>2. CASE k # at
      <4>1. k \in 1..(at - 1)
        BY <1>3, <3>2
      <4> QED
        BY <1>4, <4>1
    <3> QED
      BY <3>1, <3>2
  <2> QED
    BY <1>2, <1>3, <2>1, <2>2, <2>3, <2>4 DEF Halfway
<1> QED
  BY <1>2, <1>3, <1>5, <1>6, <1>7 DEF TransactionInv

\* A leg that is committed leads to the next one, or the offer is accepted, or
\* the rollback starts.
LEMMA CommitStep ==
    ASSUME TransactionInv, Commit
    PROVE  TransactionInv'
<1>1. phase = "applying" /\ Running /\ cur' = cur /\ errors' = errors
  BY DEF Commit, Running
<1>2. PICK m \in Memos : Effect(m)
  BY CommitNumber, CommitMove, CommitCreate, CommitMount DEF Commit
<1>3. /\ MemoIs(m) /\ (~m.committed => m.made = NoToken) /\ Sound(world')
      /\ Left(leg, m, world, world') /\ RecallKept
      /\ leg.kind = "move" /\ m.committed /\ leg.giver \in Rows =>
            world'.recall[leg.giver][leg.token] = Place(world, leg.giver, leg.token)
  BY <1>2 DEF Effect
<1>4. CASE phase' = "undoing" /\ UNCHANGED <<at, spent, was>>
  BY <1>1, <1>2, <1>4, TurnBack
<1>5. /\ (memo = [o \in Offers |-> memo[o]])'
      /\ Sound(world)' /\ errors' = {} /\ world' \in Worlds
      /\ \A o \in Offers : memo'[o] \in [DOMAIN Legs[o] -> Memos]
      /\ (\A o \in Offers : \A i \in DOMAIN Legs[o] :
             ~memo[o][i].committed => memo[o][i].made = NoToken)'
      /\ \A o \in Offers \ spent : o # cur =>
             \A i \in DOMAIN Legs[o] : Clean(memo'[o][i])
      /\ \A i \in DOMAIN Legs[cur] : i # at => memo'[cur][i] = memo[cur][i]
      /\ memo'[cur][at] = m
      /\ cur \in Offers /\ at \in 1..Len(Legs[cur]) /\ at \in 1..Len(was)
      /\ DOMAIN Legs[cur] = 1..Len(Legs[cur]) /\ Len(Legs[cur]) \in Nat
      /\ was \in Seq(Worlds) /\ Len(was) \in Nat /\ Halfway
      /\ \A k \in 1..Len(was) : Sound(was[k])
  BY <1>1, <1>3, StepKeeps
<1>6. CASE /\ at < Len(Legs[cur]) /\ at' = at + 1 /\ was' = Append(was, world')
           /\ UNCHANGED <<phase, spent>>
  <2>1. /\ \A k \in 1..(at - 1) :
              Left(Legs[cur][k], memo'[cur][k], was[k], was[k + 1])
        /\ \A k \in 1..(at - 1) :
              Legs[cur][k].kind = "move" /\ memo'[cur][k].committed
                 /\ Legs[cur][k].giver \in Rows
              => world'.recall[Legs[cur][k].giver][Legs[cur][k].token]
                 = Place(was[k], Legs[cur][k].giver, Legs[cur][k].token)
    BY <1>1, <1>3, ChainKept
  <2>2. Len(was) = at /\ world = was[at] /\ cur \notin spent /\ MovesPlanned(cur)
    BY <1>1, <1>5 DEF TransactionInv, TypeOK, Halfway
  <2>3. /\ was' \in Seq(Worlds) /\ Len(was') = Len(was) + 1
        /\ was'[Len(was) + 1] = world' /\ \A k \in 1..Len(was) : was'[k] = was[k]
    BY <1>5, <1>6, AppendProperties
  <2>4. /\ was' \in Seq(Worlds) /\ Len(was') = at + 1 /\ was'[at + 1] = world'
        /\ \A k \in 1..at : was'[k] = was[k]
    BY <2>2, <2>3
  <2>5. TypeOK'
    BY <1>1, <1>5, <1>6, <2>4 DEF TypeOK, TransactionInv
  <2>6. (\A k \in 1..Len(was) : Sound(was[k]))'
    <3> SUFFICES ASSUME NEW k \in 1..(at + 1) PROVE Sound(was'[k])
      BY <2>4
    <3>1. CASE k = at + 1
      BY <1>3, <2>4, <3>1
    <3>2. CASE k # at + 1
      <4>1. k \in 1..at
        BY <1>5, <3>2
      <4>2. was'[k] = was[k]
        BY <2>4, <4>1
      <4> QED
        BY <1>5, <2>2, <4>1, <4>2
    <3> QED
      BY <3>1, <3>2
  <2>7. (\A o \in Offers \ spent : \A i \in Fresh(o) : Clean(memo[o][i]))'
    <3> SUFFICES ASSUME NEW o \in Offers \ spent, NEW i \in Fresh(o)'
                 PROVE  Clean(memo'[o][i])
      BY <1>6
    <3>1. CASE o = cur
      <4>1. i \in (at + 1)..Len(Legs[cur])
        BY <1>1, <1>6, <3>1 DEF Fresh, Running
      <4>2. i \in DOMAIN Legs[cur] /\ i # at /\ i \in at..Len(Legs[cur])
        BY <1>5, <4>1
      <4>3. Clean(memo[cur][i])
        BY <1>1, <3>1, <4>2 DEF TransactionInv, Fresh, Running
      <4> QED
        BY <1>5, <3>1, <4>2, <4>3
    <3>2. CASE o # cur
      <4>1. i \in DOMAIN Legs[o]
        BY <1>1, <3>2 DEF Fresh
      <4> QED
        BY <1>5, <3>2, <4>1
    <3> QED
      BY <3>1, <3>2
  <2>8. Halfway'
    <3>1. \A k \in 1..at : Left(Legs[cur][k], memo'[cur][k], was'[k], was'[k + 1])
      <4> TAKE k \in 1..at
      <4>1. CASE k = at
        BY <1>3, <1>5, <2>2, <2>4, <4>1 DEF leg
      <4>2. CASE k # at
        <5>1. k \in 1..(at - 1) /\ k \in 1..at /\ k + 1 \in 1..at
          BY <1>5, <4>2
        <5> QED
          BY <2>1, <2>4, <5>1
      <4> QED
        BY <4>1, <4>2
    <3>2. at' - 1 = at
      BY <1>5, <1>6
    <3>3. ChainOK'
      BY <1>1, <3>1, <3>2 DEF ChainOK
    <3>4. PlacesKept(at - 1)'
      <4> SUFFICES ASSUME NEW k \in 1..at, Legs[cur][k].kind = "move",
                          memo'[cur][k].committed, Legs[cur][k].giver \in Rows
                   PROVE  world'.recall[Legs[cur][k].giver][Legs[cur][k].token]
                          = Place(was'[k], Legs[cur][k].giver, Legs[cur][k].token)
        BY <1>1, <3>2 DEF PlacesKept
      <4>1. was'[k] = was[k]
        BY <2>4
      <4>2. CASE k = at
        BY <1>3, <1>5, <2>2, <4>1, <4>2 DEF leg
      <4>3. CASE k # at
        <5>1. k \in 1..(at - 1)
          BY <1>5, <4>3
        <5> QED
          BY <2>1, <4>1, <5>1
      <4> QED
        BY <4>2, <4>3
    <3>5. at' \in 1..Len(was') /\ world' = was'[at']
      BY <1>5, <1>6, <2>4
    <3> QED
      BY <1>1, <1>6, <2>2, <3>3, <3>4, <3>5 DEF Halfway
  <2> QED
    BY <1>1, <1>5, <1>6, <2>5, <2>6, <2>7, <2>8 DEF TransactionInv
<1>7. CASE /\ phase' = "accepted" /\ spent' = spent \cup {cur} /\ was' = << >>
           /\ UNCHANGED at
  <2>1. was' \in Seq(Worlds) /\ Len(was') = 0
    BY <1>7, EmptySeq
  <2>2. TypeOK'
    BY <1>1, <1>5, <1>7, <2>1 DEF TypeOK, TransactionInv
  <2>3. (\A k \in 1..Len(was) : Sound(was[k]))'
    BY <2>1
  <2>4. (\A o \in Offers \ spent : \A i \in Fresh(o) : Clean(memo[o][i]))'
    <3> SUFFICES ASSUME NEW o \in (Offers \ spent)', NEW i \in Fresh(o)'
                 PROVE  Clean(memo'[o][i])
      OBVIOUS
    <3>1. o \in Offers \ spent /\ o # cur
      BY <1>7
    <3>2. i \in DOMAIN Legs[o]
      BY <1>1, <3>1 DEF Fresh
    <3> QED
      BY <1>5, <3>1, <3>2
  <2>5. ~Running'
    BY <1>7 DEF Running
  <2> QED
    BY <1>5, <1>7, <2>2, <2>3, <2>4, <2>5 DEF TransactionInv
<1> QED
  BY <1>4, <1>6, <1>7 DEF Commit

\* A leg that raises.
LEMMA BalkStep ==
    ASSUME TransactionInv, Balk
    PROVE  TransactionInv'
<1>1. PICK m \in Memos : Effect(m)
  BY BalkEffect
<1> QED
  BY <1>1, TurnBack DEF Balk

\* A leg that is undone: the one before it is next, or the offer is undone.
LEMMA UndoStep ==
    ASSUME TransactionInv, Undo
    PROVE  TransactionInv'
<1>1. /\ phase = "undoing" /\ Running /\ cur' = cur /\ spent' = spent /\ was' = was
  BY DEF Undo, Running
<1>2. PICK m \in Memos : Reverted(m)
  BY UndoEffect
<1>3. /\ MemoIs(m) /\ Clean(m) /\ (~m.committed => m.made = NoToken)
      /\ errors' = errors /\ world' \in Worlds /\ Same(world', was[at]) /\ RecallKept
  BY <1>2 DEF Reverted, Clean
<1>4. Sound(was[at])
  BY <1>1, BeforeUndo
<1>5. Sound(world')
  BY <1>3, <1>4, SameIsSound
<1>6. /\ (memo = [o \in Offers |-> memo[o]])'
      /\ Sound(world)' /\ errors' = {} /\ world' \in Worlds
      /\ \A o \in Offers : memo'[o] \in [DOMAIN Legs[o] -> Memos]
      /\ (\A o \in Offers : \A i \in DOMAIN Legs[o] :
             ~memo[o][i].committed => memo[o][i].made = NoToken)'
      /\ \A o \in Offers \ spent : o # cur =>
             \A i \in DOMAIN Legs[o] : Clean(memo'[o][i])
      /\ \A i \in DOMAIN Legs[cur] : i # at => memo'[cur][i] = memo[cur][i]
      /\ memo'[cur][at] = m
      /\ cur \in Offers /\ at \in 1..Len(Legs[cur]) /\ at \in 1..Len(was)
      /\ DOMAIN Legs[cur] = 1..Len(Legs[cur]) /\ Len(Legs[cur]) \in Nat
      /\ was \in Seq(Worlds) /\ Len(was) \in Nat /\ Halfway
      /\ \A k \in 1..Len(was) : Sound(was[k])
  BY <1>1, <1>3, <1>5, StepKeeps
<1>7. \A i \in at..Len(Legs[cur]) : Clean(memo'[cur][i])
  <2> TAKE i \in at..Len(Legs[cur])
  <2>1. CASE i = at
    BY <1>3, <1>6, <2>1
  <2>2. CASE i # at
    <3>1. i \in (at + 1)..Len(Legs[cur]) /\ i \in DOMAIN Legs[cur]
      BY <1>6, <2>2
    <3>2. cur \in Offers \ spent
      BY <1>6 DEF Halfway
    <3>3. Clean(memo[cur][i])
      BY <1>1, <3>1, <3>2 DEF TransactionInv, Fresh, Running
    <3> QED
      BY <1>6, <2>2, <3>1, <3>3
  <2> QED
    BY <2>1, <2>2
<1>8. CASE at > 1 /\ at' = at - 1 /\ UNCHANGED phase
  <2>1. /\ \A k \in 1..(at - 1) :
              Left(Legs[cur][k], memo'[cur][k], was[k], was[k + 1])
        /\ \A k \in 1..(at - 1) :
              Legs[cur][k].kind = "move" /\ memo'[cur][k].committed
                 /\ Legs[cur][k].giver \in Rows
              => world'.recall[Legs[cur][k].giver][Legs[cur][k].token]
                 = Place(was[k], Legs[cur][k].giver, Legs[cur][k].token)
    BY <1>1, <1>3, ChainKept
  <2>2. at' \in 1..Len(Legs[cur]) /\ at' \in 1..Len(was) /\ at' + 1 = at /\ at' \in 1..(at - 1)
    BY <1>6, <1>8
  <2>3. TypeOK'
    BY <1>1, <1>6, <1>8, <2>2 DEF TypeOK, TransactionInv
  <2>4. (\A o \in Offers \ spent : \A i \in Fresh(o) : Clean(memo[o][i]))'
    <3> SUFFICES ASSUME NEW o \in Offers \ spent, NEW i \in Fresh(o)'
                 PROVE  Clean(memo'[o][i])
      BY <1>1
    <3>1. CASE o = cur
      <4>1. i \in at..Len(Legs[cur])
        BY <1>1, <1>8, <2>2, <3>1 DEF Fresh, Running
      <4> QED
        BY <1>7, <3>1, <4>1
    <3>2. CASE o # cur
      <4>1. i \in DOMAIN Legs[o]
        BY <1>1, <3>2 DEF Fresh
      <4> QED
        BY <1>6, <3>2, <4>1
    <3> QED
      BY <3>1, <3>2
  <2>5. Halfway'
    <3>1. cur \notin spent /\ MovesPlanned(cur)
      BY <1>6 DEF Halfway
    <3>2. ChainOK'
      <4>1. \A k \in 1..(at' - 1) : k \in 1..(at - 1)
        BY <1>6, <1>8
      <4> QED
        BY <1>1, <2>1, <4>1 DEF ChainOK
    <3>3. Left(leg, own, was[at], world)'
      <4>1. Left(Legs[cur][at'], memo'[cur][at'], was[at'], was[at])
        BY <2>1, <2>2
      <4>2. Left(Legs[cur][at'], memo'[cur][at'], was[at'], world')
        BY <1>3, <4>1, LeftSame
      <4> QED
        BY <1>1, <4>2 DEF leg, own
    <3>4. PlacesKept(at)'
      <4>1. \A k \in 1..at' : k \in 1..(at - 1)
        BY <1>6, <1>8
      <4> QED
        BY <1>1, <1>3, <2>1, <4>1 DEF PlacesKept
    <3> QED
      BY <1>1, <1>8, <2>2, <3>1, <3>2, <3>3, <3>4 DEF Halfway
  <2> QED
    BY <1>1, <1>6, <1>8, <2>3, <2>4, <2>5 DEF TransactionInv
<1>9. CASE at <= 1 /\ phase' = "undone" /\ UNCHANGED at
  <2>1. at = 1
    BY <1>6, <1>9
  <2>2. TypeOK'
    BY <1>1, <1>6, <1>9 DEF TypeOK, TransactionInv
  <2>3. (\A o \in Offers \ spent : \A i \in Fresh(o) : Clean(memo[o][i]))'
    <3> SUFFICES ASSUME NEW o \in Offers \ spent, NEW i \in Fresh(o)'
                 PROVE  Clean(memo'[o][i])
      BY <1>1
    <3>1. i \in DOMAIN Legs[o]
      BY <1>9 DEF Fresh, Running
    <3> QED
      BY <1>6, <1>7, <2>1, <3>1
  <2>4. was' # << >> /\ Same(world', was'[1])
    BY <1>1, <1>3, <1>6, <2>1, EmptySeq
  <2>5. ~Running'
    BY <1>9 DEF Running
  <2> QED
    BY <1>1, <1>6, <1>9, <2>2, <2>3, <2>4, <2>5 DEF TransactionInv
<1>10. at \in Nat
  BY <1>6
<1> QED
  BY <1>8, <1>9, <1>10 DEF Undo

-----------------------------------------------------------------------------
(* The plan of the preflight.                                              *)

\* Every set of natural numbers that is not empty has a least one.
LEMMA NatMin ==
    ASSUME NEW T \in SUBSET Nat, T # {}
    PROVE  \E x \in T : \A y \in T : x <= y
<1> DEFINE R == {ss \in Nat \X Nat : ss[1] < ss[2]}
<1>1. IsWellFoundedOn(R, Nat)
  BY NatLessThanWellFounded DEF OpToRel
<1> HIDE DEF R
<1>2. PICK x \in T : \A y \in T : ~(<<y, x>> \in R)
  BY <1>1, WFMin
<1>3. \A y \in T : ~(y < x)
  BY <1>2 DEF R
<1> QED
  BY <1>3

\* A set of numbers up to m that has 0, and each number after one of its own,
\* has all of them.
LEMMA UpToAll ==
    ASSUME NEW m \in Nat, NEW T, 0 \in T, \A k \in 1..m : k - 1 \in T => k \in T
    PROVE  \A k \in 0..m : k \in T
<1> DEFINE U == {k \in 0..m : k \notin T}
<1> SUFFICES ASSUME U # {} PROVE FALSE
  OBVIOUS
<1>1. PICK x \in U : \A y \in U : x <= y
  <2>1. U \in SUBSET Nat
    OBVIOUS
  <2> QED
    BY <2>1, NatMin
<1>2. x \in 1..m /\ x - 1 \in 0..m
  BY <1>1
<1>3. x - 1 \in T
  BY <1>1, <1>2
<1> QED
  BY <1>1, <1>2, <1>3

\* The account of a leg starts empty, and each leg of the same account adds to
\* it (can_commit_with_plan).
LEMMA AccountSteps ==
    ASSUME NEW o \in Offers, NEW l
    PROVE  /\ Account(o, l)[0] = 0
           /\ \A k \in 1..Len(Legs[o]) :
                 Account(o, l)[k] =
                     Account(o, l)[k - 1]
                         + IF SameAccount(l, Legs[o][k]) THEN Legs[o][k].by ELSE 0
           /\ \A k \in 0..Len(Legs[o]) : Account(o, l)[k] \in Int
<1> DEFINE N == Len(Legs[o])
           Add(k) == IF SameAccount(l, Legs[o][k]) THEN Legs[o][k].by ELSE 0
           F(f, m) == f = [k \in 0..m |-> IF k = 0 THEN 0 ELSE f[k - 1] + Add(k)]
           T == {m \in Nat : \E f : F(f, m)}
           a == Account(o, l)
<1>1. N \in Nat /\ DOMAIN Legs[o] = 1..N
  BY OfferLegs
<1>2. \A k \in 1..N : Add(k) \in Int
  BY <1>1, OfferLegs, LegTypes DEF SameAccount, Deltas
<1>3. a = CHOOSE f : F(f, N)
  BY DEF Account
<1> HIDE DEF N, Add, a
<1>4. 0 \in T
  <2>1. F([k \in 0..0 |-> 0], 0)
    OBVIOUS
  <2> QED
    BY <2>1
<1>5. ASSUME NEW m \in 1..N, m - 1 \in T PROVE m \in T
  <2>1. PICK g : F(g, m - 1)
    BY <1>5
  <2> DEFINE f == [k \in 0..m |-> IF k < m THEN g[k] ELSE g[m - 1] + Add(m)]
  <2>2. ASSUME NEW k \in 0..m
        PROVE  f[k] = IF k = 0 THEN 0 ELSE f[k - 1] + Add(k)
    <3>1. CASE k = 0
      BY <1>1, <2>1, <3>1
    <3>2. CASE k \in 1..(m - 1)
      <4>1. g[k] = g[k - 1] + Add(k)
        BY <2>1, <3>2
      <4> QED
        BY <1>1, <3>2, <4>1
    <3>3. CASE k = m
      BY <1>1, <3>3
    <3> QED
      BY <1>1, <3>1, <3>2, <3>3
  <2>3. F(f, m)
    BY <2>2
  <2> HIDE DEF f
  <2>4. m \in Nat /\ \E h : F(h, m)
    BY <1>1, <2>3
  <2> QED
    BY <2>4
<1>6. N \in T
  <2> HIDE DEF T
  <2>1. \A m \in 1..N : m - 1 \in T => m \in T
    BY <1>5
  <2>2. \A k \in 0..N : k \in T
    BY <1>1, <1>4, <2>1, UpToAll
  <2> QED
    BY <1>1, <2>2
<1>7. F(a, N)
  <2>1. PICK f : F(f, N)
    BY <1>6
  <2> HIDE DEF F
  <2> QED
    BY <1>3, <2>1
<1>8. a[0] = 0 /\ \A k \in 1..N : a[k] = a[k - 1] + Add(k)
  BY <1>1, <1>7
<1>9. \A k \in 0..N : a[k] \in Int
  <2> DEFINE U == {k \in 0..N : a[k] \in Int}
  <2>1. 0 \in U
    BY <1>1, <1>8
  <2>2. ASSUME NEW k \in 1..N, k - 1 \in U PROVE k \in U
    BY <1>1, <1>2, <1>8, <2>2
  <2> HIDE DEF U
  <2>3. \A k \in 0..N : k \in U
    BY <1>1, <2>1, <2>2, UpToAll
  <2> QED
    BY <2>3 DEF U
<1> QED
  BY <1>8, <1>9 DEF N, Add, a

\* What leg l needs to succeed once the deltas of its account that are still
\* planned before it have added more.
Needs(l, w, more) ==
    /\ l.kind = "delta" => /\ l.of # "mapping" => w.value[l.pool] # Absent
                           /\ Within(l, Reading(w, l.pool) + more)
    /\ l.kind = "move" => /\ l.token \in Contents(w, l.giver)
                          /\ KeyFree(w, l.receiver, KeyOf[l.token], l.token)

\* Every leg that is still to come will find what it needs.
AllPlanned == \A i \in DOMAIN Legs[cur] : FullyPlanned(Legs[cur][i])
More(i) == Planned(cur, i) - Account(cur, Legs[cur][i])[at - 1]
Promised == \A i \in at..Len(Legs[cur]) : Needs(Legs[cur][i], world, More(i))
PlanInv == AllPlanned => /\ phase # "undoing"
                         /\ phase = "applying" => Promised

\* A reading is a number.
LEMMA ReadingIsInt ==
    ASSUME NEW w \in Worlds, NEW p \in Pools
    PROVE  Reading(w, p) \in Int
<1>1. w.value \in [Pools -> Int \cup {Absent}]
  BY WorldFields
<1> QED
  BY <1>1 DEF Reading

\* The preflight promises it for the world an acceptance starts from.
LEMMA AcceptPlans ==
    ASSUME TransactionInv, NEW o \in Offers, Accept(o), AllPlanned'
    PROVE  Promised'
<1>1. /\ CanAccept(o) /\ cur' = o /\ at' = 1 /\ world' = world /\ world \in Worlds
      /\ DOMAIN Legs[o] = 1..Len(Legs[o]) /\ Len(Legs[o]) \in Nat
  BY OfferLegs DEF Accept, TransactionInv, TypeOK
<1> SUFFICES ASSUME NEW i \in 1..Len(Legs[o])
             PROVE  Needs(Legs[o][i], world,
                          Planned(o, i) - Account(o, Legs[o][i])[0])
  BY <1>1 DEF Promised, More
<1> DEFINE l == Legs[o][i]
<1>2. FullyPlanned(l) /\ l \in AnyLeg
  BY <1>1, OfferLegs DEF AllPlanned
<1>3. CASE l.kind = "delta"
  <2>1. /\ l.of # "mapping" => world.value[l.pool] # Absent
        /\ Within(l, Reading(world, l.pool) + Planned(o, i))
    BY <1>1, <1>3 DEF CanAccept
  <2>2. Account(o, l)[0] = 0 /\ Planned(o, i) \in Int
    <3>1. i - 1 \in 0..Len(Legs[o])
      BY <1>1
    <3> QED
      BY <1>1, <3>1, AccountSteps DEF Planned
  <2>3. Planned(o, i) - Account(o, l)[0] = Planned(o, i)
    BY <2>2
  <2> QED
    BY <1>3, <2>1, <2>3 DEF Needs
<1>4. CASE l.kind = "move"
  <2>1. CanCommit(world, l)
    BY <1>1, <1>4 DEF CanAccept
  <2> QED
    BY <1>4, <2>1 DEF CanCommit, Needs
<1> QED
  BY <1>2, <1>3, <1>4 DEF FullyPlanned

\* So the leg at hand does not fail.
LEMMA LegSucceeds ==
    ASSUME TransactionInv, phase = "applying", AllPlanned, Promised
    PROVE  /\ FullyPlanned(leg) /\ CanCommit(world, leg)
           /\ leg.kind = "move" =>
                 CanAdd(Taken(world, leg.giver, leg.token), leg.receiver, leg.token)
<1>1. /\ cur \in Offers /\ at \in 1..Len(Legs[cur]) /\ Len(Legs[cur]) \in Nat
      /\ DOMAIN Legs[cur] = 1..Len(Legs[cur]) /\ leg = Legs[cur][at]
      /\ Sound(world) /\ world \in Worlds
  BY MemoStep, OfferLegs, BeforeCommit DEF leg
<1>2. FullyPlanned(leg) /\ Needs(leg, world, More(at))
  BY <1>1 DEF AllPlanned, Promised
<1>3. CASE leg.kind = "delta"
  <2>1. More(at) = 0
    <3>1. at - 1 \in 0..Len(Legs[cur])
      BY <1>1
    <3>2. Account(cur, leg)[at - 1] \in Int
      BY <1>1, <3>1, AccountSteps
    <3> QED
      BY <1>1, <3>2 DEF More, Planned
  <2>2. leg \in Deltas
    BY <1>3, LegAtHand
  <2>3. Reading(world, leg.pool) \in Int
    BY <1>1, <2>2, ReadingIsInt DEF Deltas
  <2>4. Reading(world, leg.pool) + More(at) = Reading(world, leg.pool)
    BY <2>1, <2>3
  <2> QED
    BY <1>2, <1>3, <2>4 DEF Needs, CanCommit
<1>4. CASE leg.kind = "move"
  <2> DEFINE y == Taken(world, leg.giver, leg.token)
  <2>1. /\ leg \in Moves /\ leg.giver \in Homes /\ leg.receiver \in Homes
        /\ leg.giver # leg.receiver /\ leg.receiver \notin Slots
        /\ leg.token \in Contents(world, leg.giver)
        /\ KeyFree(world, leg.receiver, KeyOf[leg.token], leg.token)
    BY <1>2, <1>4, LegAtHand DEF FullyPlanned, Needs
  <2>2. CanCommit(world, leg)
    BY <1>4, <2>1 DEF CanCommit, CanReceive
  <2>3. /\ leg.giver \in Holders /\ leg.receiver \in Holders
        /\ TidyAt(world, leg.giver)
    BY <1>1, <2>1, SoundHolders
  <2>4. Contents(y, leg.receiver) = Contents(world, leg.receiver)
    BY <1>1, <2>1, <2>3, ContentsTaken
  <2>5. KeyFree(y, leg.receiver, KeyOf[leg.token], leg.token)
    BY <2>1, <2>4 DEF KeyFree
  <2>6. CanAdd(y, leg.receiver, leg.token)
    BY <2>1, <2>5 DEF CanAdd, CanReceive
  <2> QED
    BY <1>2, <2>2, <2>6
<1> QED
  BY <1>2, <1>3, <1>4 DEF FullyPlanned

\* A delta leaves the other legs what they need.
LEMMA DeltaKeepsPlan ==
    ASSUME TransactionInv, phase = "applying", AllPlanned, Delta,
           NEW i \in (at + 1)..Len(Legs[cur]), NEW a \in Int, NEW b \in Int,
           b = a - IF SameAccount(Legs[cur][i], leg) THEN leg.by ELSE 0,
           Needs(Legs[cur][i], world, a)
    PROVE  Needs(Legs[cur][i], world', b)
<1> DEFINE l == Legs[cur][i]
           next == Reading(world, leg.pool) + leg.by
<1>1. /\ cur \in Offers /\ at \in 1..Len(Legs[cur]) /\ Len(Legs[cur]) \in Nat
      /\ DOMAIN Legs[cur] = 1..Len(Legs[cur]) /\ leg = Legs[cur][at]
      /\ world \in Worlds /\ i \in DOMAIN Legs[cur] /\ at \in DOMAIN Legs[cur]
  <2>1. at \in DOMAIN Legs[cur] /\ cur \in Offers
    BY MemoStep
  <2>2. DOMAIN Legs[cur] = 1..Len(Legs[cur]) /\ Len(Legs[cur]) \in Nat
    BY <2>1, OfferLegs
  <2> QED
    BY <2>1, <2>2, BeforeCommit DEF leg
<1>2. /\ leg \in Deltas /\ leg.kind = "delta" /\ leg.pool \in Pools /\ leg.by \in Int
      /\ leg.of # "unkeyed"
  <2>1. leg.kind = "delta" /\ leg \in Deltas
    BY LegAtHand DEF Delta
  <2>2. FullyPlanned(leg)
    BY <1>1 DEF AllPlanned
  <2> QED
    BY <2>1, <2>2 DEF Deltas, FullyPlanned
<1>3. world.value \in [Pools -> Int \cup {Absent}] /\ next \in Int /\ Absent \notin Int
  <2>1. world.value \in [Pools -> Int \cup {Absent}]
    BY <1>1, WorldFields
  <2>2. Reading(world, leg.pool) \in Int
    BY <1>1, <1>2, ReadingIsInt
  <2>3. next \in Int
    BY <1>2, <2>2
  <2> QED
    BY <2>1, <2>3, TransactionAssumption
<1> HIDE DEF next
<1>4. /\ world' = [world EXCEPT !.value =
                       [world.value EXCEPT ![leg.pool] =
                            IF leg.drop /\ next = 0 THEN Absent ELSE next]]
  BY DEF Delta, Changed, next
<1>5. /\ world'.value[leg.pool] = IF leg.drop /\ next = 0 THEN Absent ELSE next
      /\ \A p \in Pools : p # leg.pool => world'.value[p] = world.value[p]
      /\ world'.row = world.row /\ world'.dict = world.dict
  BY <1>1, <1>2, <1>3, <1>4 DEF Worlds
<1>6. Reading(world', leg.pool) = next
  BY <1>3, <1>5 DEF Reading
<1>7. FullyPlanned(l) /\ l \in AnyLeg
  BY <1>1, OfferLegs DEF AllPlanned
<1>8. CASE l.kind = "delta"
  <2>1. l \in Deltas /\ l.pool \in Pools /\ l.of # "unkeyed"
    BY <1>7, <1>8, LegTypes DEF Deltas, FullyPlanned
  <2>2. /\ l.of # "mapping" => world.value[l.pool] # Absent
        /\ Within(l, Reading(world, l.pool) + a)
    BY <1>8 DEF Needs
  <2>3. Reading(world, l.pool) \in Int
    BY <1>1, <2>1, ReadingIsInt
  <2>4. CASE l.pool = leg.pool
    <3>1. l.of = leg.of
      BY <1>1, <1>2, <1>8, <2>1, <2>4, SafeOffersAssumption DEF OneAccount, Kind
    <3>2. SameAccount(l, leg)
      BY <1>2, <1>8, <2>1, <2>4, <3>1 DEF SameAccount
    <3>3. b = a - leg.by
      BY <3>2
    <3>4. Reading(world', l.pool) + b = Reading(world, l.pool) + a
      BY <1>2, <1>6, <2>3, <2>4, <3>3 DEF next
    <3>5. l.of # "mapping" => world'.value[l.pool] # Absent
      BY <1>2, <1>3, <1>5, <2>4, <3>1 DEF Deltas
    <3> QED
      BY <1>8, <2>2, <3>4, <3>5 DEF Needs
  <2>5. CASE l.pool # leg.pool
    <3>1. ~SameAccount(l, leg)
      BY <2>5 DEF SameAccount
    <3>2. b = a
      BY <3>1
    <3>3. world'.value[l.pool] = world.value[l.pool]
      BY <1>5, <2>1, <2>5
    <3>4. Reading(world', l.pool) = Reading(world, l.pool)
      BY <3>3 DEF Reading
    <3> QED
      BY <1>8, <2>2, <3>2, <3>3, <3>4 DEF Needs
  <2> QED
    BY <2>4, <2>5
<1>9. CASE l.kind = "move"
  <2>1. \A p : Contents(world', p) = Contents(world, p)
    BY <1>5 DEF Contents
  <2> QED
    BY <1>9, <2>1 DEF Needs, KeyFree
<1> QED
  BY <1>7, <1>8, <1>9 DEF FullyPlanned

\* A move leaves the other legs what they need.
LEMMA MoveKeepsPlan ==
    ASSUME TransactionInv, phase = "applying", AllPlanned, Promised, Move,
           NEW i \in (at + 1)..Len(Legs[cur]), NEW a,
           Needs(Legs[cur][i], world, a)
    PROVE  Needs(Legs[cur][i], world', a)
<1> DEFINE l == Legs[cur][i]
           g == leg.giver
           r == leg.receiver
           t == leg.token
           y == Taken(world, g, t)
<1>1. /\ cur \in Offers /\ leg = Legs[cur][at] /\ at < i
      /\ Sound(world) /\ world \in Worlds /\ i \in DOMAIN Legs[cur] /\ at \in DOMAIN Legs[cur]
      /\ MovesPlanned(cur)
  <2>1. at \in DOMAIN Legs[cur] /\ cur \in Offers
    BY MemoStep
  <2>2. DOMAIN Legs[cur] = 1..Len(Legs[cur]) /\ Len(Legs[cur]) \in Nat
    BY <2>1, OfferLegs
  <2>3. MovesPlanned(cur)
    BY DEF TransactionInv, Halfway, Running
  <2> QED
    BY <2>1, <2>2, <2>3, BeforeCommit DEF leg
<1>2. /\ leg.kind = "move" /\ leg \in Moves /\ g \in Homes /\ r \in Homes /\ g # r
      /\ t \in Tokens /\ t \in Contents(world, g) /\ KeyFree(world, r, KeyOf[t], t)
  BY LegAtHand, LegSucceeds DEF Move, CanCommit, Moves
<1>3. world' = Added(y, r, t)
  BY DEF Move, Moved
<1>4. g \in Holders /\ r \in Holders /\ TidyAt(world, g)
  BY <1>1, <1>2, SoundHolders
<1>5. /\ y \in Worlds /\ y.value = world.value
      /\ Contents(y, g) = Contents(world, g) \ {t}
      /\ \A q \in Holders : q # g => Contents(y, q) = Contents(world, q)
      /\ t \notin Contents(y, r)
  BY <1>1, <1>2, <1>4, TakenFacts, ContentsTaken, TakenIsTidy DEF Sound
<1> HIDE DEF y
<1>6. KeyFree(y, r, KeyOf[t], t)
  BY <1>2, <1>4, <1>5 DEF KeyFree
<1>7. /\ world'.value = world.value
      /\ Contents(world', r) = Contents(world, r) \cup {t}
      /\ Contents(world', g) = Contents(world, g) \ {t}
      /\ \A q \in Holders : q # g /\ q # r => Contents(world', q) = Contents(world, q)
  <2>1. /\ Added(y, r, t).value = y.value
        /\ Contents(Added(y, r, t), r) = Contents(y, r) \cup {t}
        /\ \A q \in Holders : q # r => Contents(Added(y, r, t), q) = Contents(y, q)
    <3> HIDE DEF g, r, t
    <3>1. Added(y, r, t).value = y.value
      BY <1>2, <1>4, <1>5, AddedFacts
    <3>2. /\ Contents(Added(y, r, t), r) = Contents(y, r) \cup {t}
          /\ \A q \in Holders : q # r => Contents(Added(y, r, t), q) = Contents(y, q)
      BY <1>2, <1>4, <1>5, <1>6, ContentsAdded
    <3> QED
      BY <3>1, <3>2
  <2> QED
    BY <1>2, <1>3, <1>4, <1>5, <2>1
<1>8. FullyPlanned(l) /\ l \in AnyLeg
  BY <1>1, OfferLegs DEF AllPlanned
<1>9. CASE l.kind = "delta"
  <2>1. \A p : Reading(world', p) = Reading(world, p)
    BY <1>7 DEF Reading
  <2> QED
    BY <1>7, <1>9, <2>1 DEF Needs
<1>10. CASE l.kind = "move"
  <2>1. l.giver \in Holders /\ l.receiver \in Holders
    BY <1>8, <1>10, LegTypes DEF Moves
  <2>2. ~Clash(leg, l)
    BY <1>1, <1>2, <1>10 DEF MovesPlanned
  <2>3. l.token \in Contents(world, l.giver) /\ KeyFree(world, l.receiver, KeyOf[l.token], l.token)
    BY <1>10 DEF Needs
  <2>4. l.token \in Contents(world', l.giver)
    <3>1. CASE l.giver = g
      BY <1>7, <2>2, <2>3, <3>1 DEF Clash
    <3>2. CASE l.giver # g
      BY <1>7, <2>1, <2>3, <3>2
    <3> QED
      BY <3>1, <3>2
  <2>5. KeyFree(world', l.receiver, KeyOf[l.token], l.token)
    <3>1. CASE l.receiver = r
      <4>1. KeyOf[t] = KeyOf[l.token] => t = l.token
        BY <2>2, <3>1 DEF Clash
      <4> QED
        BY <1>7, <2>3, <3>1, <4>1 DEF KeyFree
    <3>2. CASE l.receiver # r
      <4>1. Contents(world', l.receiver) \subseteq Contents(world, l.receiver)
        BY <1>7, <2>1, <3>2
      <4> QED
        BY <2>3, <4>1 DEF KeyFree
    <3> QED
      BY <3>1, <3>2
  <2> QED
    BY <1>10, <2>4, <2>5 DEF Needs
<1> QED
  BY <1>8, <1>9, <1>10 DEF FullyPlanned

\* The legs that are left are still promised what they need.
LEMMA CommitPlans ==
    ASSUME TransactionInv, PlanInv, Commit
    PROVE  PlanInv'
<1> SUFFICES ASSUME AllPlanned'
             PROVE  phase' # "undoing" /\ (phase' = "applying" => Promised')
  BY DEF PlanInv
<1>1. phase = "applying" /\ cur' = cur
  BY DEF Commit
<1>2. AllPlanned /\ Promised
  BY <1>1 DEF PlanInv, AllPlanned
<1>3. FullyPlanned(leg) /\ leg.kind \in {"delta", "move"}
  BY <1>1, <1>2, LegSucceeds DEF FullyPlanned
<1>4. Delta \/ Move
  BY <1>3 DEF Commit, Transfer, Create, Register, Mount, Call
<1>5. phase' # "undoing" /\ (phase' = "applying" => at' = at + 1)
  BY <1>1, <1>3 DEF Commit
<1>6. ASSUME at' = at + 1 PROVE Promised'
  <2>1. /\ cur \in Offers /\ at \in DOMAIN Legs[cur] /\ leg = Legs[cur][at]
        /\ DOMAIN Legs[cur] = 1..Len(Legs[cur]) /\ Len(Legs[cur]) \in Nat
    BY MemoStep, OfferLegs DEF leg
  <2> SUFFICES ASSUME NEW i \in (at + 1)..Len(Legs[cur])
               PROVE  Needs(Legs[cur][i], world',
                            Planned(cur, i) - Account(cur, Legs[cur][i])[(at + 1) - 1])
    BY <1>1, <1>6 DEF Promised, More
  <2> DEFINE l == Legs[cur][i]
             acc == Account(cur, l)
             a == Planned(cur, i) - acc[at - 1]
             b == Planned(cur, i) - acc[(at + 1) - 1]
             by == IF SameAccount(l, leg) THEN leg.by ELSE 0
  <2>2. at \in 1..Len(Legs[cur]) /\ (at + 1) - 1 = at /\ i - 1 \in 0..Len(Legs[cur])
        /\ at - 1 \in 0..Len(Legs[cur]) /\ at \in 0..Len(Legs[cur])
        /\ i \in at..Len(Legs[cur])
    BY <2>1
  <2>3. /\ acc[at] = acc[at - 1] + by
        /\ acc[at] \in Int /\ acc[at - 1] \in Int /\ acc[i - 1] \in Int
    BY <2>1, <2>2, AccountSteps
  <2>4. Planned(cur, i) \in Int
    BY <2>3 DEF Planned
  <2>5. by \in Int
    BY LegAtHand DEF SameAccount, Deltas
  <2> HIDE DEF acc, by
  <2>6. a \in Int /\ b \in Int /\ b = a - by
    <3>1. b = Planned(cur, i) - acc[at]
      BY <2>2
    <3>2. \A x, y, p, d \in Int : x = y + d => p - x = (p - y) - d /\ p - x \in Int /\ p - y \in Int
      OBVIOUS
    <3> QED
      BY <2>3, <2>4, <2>5, <3>1, <3>2
  <2>7. Needs(l, world, a)
    BY <1>2, <2>2 DEF Promised, More, acc
  <2> HIDE DEF a, b
  <2>8. ASSUME Delta PROVE Needs(l, world', b)
    BY <1>1, <1>2, <2>6, <2>7, <2>8, DeltaKeepsPlan DEF by
  <2>9. ASSUME Move PROVE Needs(l, world', b)
    <3>1. by = 0
      BY <2>9 DEF Move, SameAccount, by
    <3>2. b = a
      BY <2>6, <3>1
    <3> QED
      BY <1>1, <1>2, <2>7, <2>9, <3>2, MoveKeepsPlan
  <2>10. Needs(l, world', b)
    BY <1>4, <2>8, <2>9
  <2> QED
    BY <2>10 DEF b, acc
<1> QED
  BY <1>5, <1>6

-----------------------------------------------------------------------------
(* The theorems.                                                           *)

\* While offers are accepted and rolled back, each started leg can be undone
\* exactly (accept and the commit and rollback methods).
THEOREM TransactionInvHolds == Spec => []TransactionInv
<1>1. TransactionInv /\ [Next]_vars => TransactionInv'
  <2> SUFFICES ASSUME TransactionInv, [Next]_vars PROVE TransactionInv'
    OBVIOUS
  <2>1. ASSUME NEW o \in Offers, Accept(o) PROVE TransactionInv'
    BY <2>1, AcceptStep
  <2>2. CASE Commit
    BY <2>2, CommitStep
  <2>3. CASE Balk
    BY <2>3, BalkStep
  <2>4. CASE Undo
    BY <2>4, UndoStep
  <2>5. CASE UNCHANGED vars
    BY <2>5 DEF vars, TransactionInv, TypeOK, Halfway, ChainOK, PlacesKept, Fresh,
                Running, leg, own
  <2> QED
    BY <2>1, <2>2, <2>3, <2>4, <2>5 DEF Next
<1> QED
  BY <1>1, InitInv, PTL DEF Spec

\* The world, the legs' memory and the worlds before each started leg are what
\* the code keeps (accept).
THEOREM TypeCorrect == Spec => []TypeOK
<1>1. TransactionInv => TypeOK
  BY DEF TransactionInv
<1> QED
  BY <1>1, TransactionInvHolds, PTL

\* An acceptance that raises leaves every wallet, number, holder, slot and the
\* registry as it found them, and no leg's rollback raises (accept).
THEOREM NothingSurvivesCorrect == Spec => []NothingSurvives
<1>1. TransactionInv => NothingSurvives
  BY DEF TransactionInv, NothingSurvives, Same
<1> QED
  BY <1>1, TransactionInvHolds, PTL

\* Coins are neither made nor lost, and an item that somebody has is in the
\* hands of exactly one holder, between any two legs and half way through a
\* rollback (CountableTransferCommitment, AssetMoveCommitment).
THEOREM NothingLostCorrect == Spec => []NothingLost
<1>1. TransactionInv => NothingLost
  <2> SUFFICES ASSUME TransactionInv PROVE NothingLost
    OBVIOUS
  <2>1. Sound(world)
    BY DEF TransactionInv
  <2>2. \A t \in Tokens : \A p, q \in Homes :
            t \in Contents(world, p) /\ t \in Contents(world, q) => p = q
    BY <2>1 DEF Sound, Tidy
  <2>3. \A t \in Tokens : (\E p \in Homes : t \in Contents(Opening, p))
            => \E p \in Homes : t \in Contents(world, p)
    BY <2>1 DEF Sound, Held
  <2> QED
    BY <2>1, <2>2, <2>3 DEF Sound, NothingLost
<1> QED
  BY <1>1, TransactionInvHolds, PTL

\* A slot holds components of its kind, no more than it has room for, within
\* the budgets and registered, whatever is assigned, moved and put back
\* (ComponentManager).
THEOREM SlotsFitCorrect == Spec => []SlotsFit
<1>1. TransactionInv => SlotsFit
  BY DEF TransactionInv, Sound, Tidy, SlotsFit
<1> QED
  BY <1>1, TransactionInvHolds, PTL

\* An offer of keyed deltas and of moves between lists and dicts that passes
\* the preflight is accepted, whatever the legs before each of its legs did:
\* no leg of it fails half way (can_commit_with_plan).
THEOREM PlanIsEnoughCorrect == Spec => []PlanIsEnough
<1>1. Init => PlanInv
  BY DEF Init, PlanInv
<1>2. TransactionInv /\ PlanInv /\ [Next]_vars => PlanInv'
  <2> SUFFICES ASSUME TransactionInv, PlanInv, [Next]_vars PROVE PlanInv'
    OBVIOUS
  <2>1. ASSUME NEW o \in Offers, Accept(o) PROVE PlanInv'
    BY <2>1, AcceptPlans DEF Accept, PlanInv
  <2>2. CASE Commit
    BY <2>2, CommitPlans
  <2>3. CASE Balk
    <3> SUFFICES ASSUME AllPlanned' PROVE FALSE
      BY DEF PlanInv
    <3>1. phase = "applying" /\ cur' = cur
      BY <2>3 DEF Balk
    <3>2. AllPlanned /\ Promised
      BY <3>1 DEF PlanInv, AllPlanned
    <3>3. /\ FullyPlanned(leg) /\ CanCommit(world, leg)
          /\ leg.kind = "move" =>
                CanAdd(Taken(world, leg.giver, leg.token), leg.receiver, leg.token)
      BY <3>1, <3>2, LegSucceeds
    <3> QED
      BY <2>3, <3>3 DEF Balk, FullyPlanned
  <2>4. CASE Undo
    <3>1. phase = "undoing" /\ cur' = cur
      BY <2>4 DEF Undo
    <3> QED
      BY <3>1 DEF PlanInv, AllPlanned
  <2>5. CASE UNCHANGED vars
    BY <2>5 DEF vars, PlanInv, AllPlanned, Promised, More
  <2> QED
    BY <2>1, <2>2, <2>3, <2>4, <2>5 DEF Next
<1>3. TransactionInv /\ PlanInv => PlanIsEnough
  BY DEF PlanInv, AllPlanned, PlanIsEnough
<1> QED
  BY <1>1, <1>2, <1>3, TransactionInvHolds, PTL DEF Spec
=============================================================================
