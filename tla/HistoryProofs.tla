----------------------------- MODULE HistoryProofs -----------------------------
(***************************************************************************)
(* A ledger whose story is replayable restores every moment it has lived   *)
(* through, and keeps its timeline: choices only add moments, rollbacks    *)
(* only cut them off.  The runs "reordered" and "truncation" show what     *)
(* goes wrong in stories that are not.                                     *)
(***************************************************************************)
EXTENDS LedgerHistory, LedgerProofs

-----------------------------------------------------------------------------
(* When the records of a stream restore the moments a story has lived through: *)
(* what deltas, checkpoints, step records and journal must say of them, how    *)
(* the stream may grow and be cut, and that a replay of such a stream gives    *)
(* back every moment.                                                          *)

\* A graph of which nothing is lost when it is stored.
StoredGraphs == {g \in GraphValues : Stored(g) = g}

\* The moments a history is made of.
Moments == [graph: StoredGraphs, cursor: Nodes, stack: Seq(CallEdges),
            content: {ContentOf(s, n) : s \in Seq(Records), n \in Nat}]

\* Each step lived has one step record, with its cursor and call stack.
StepsAgree(s, l) ==
    /\ \A i \in DOMAIN s : s[i].kind = "step" =>
          /\ s[i].step \in 1..(Len(l) - 1)
          /\ s[i].cursor_id = l[s[i].step + 1].cursor
          /\ s[i].call_stack_ids = l[s[i].step + 1].stack
    /\ \A n \in 1..(Len(l) - 1) : \E i \in DOMAIN s : s[i].kind = "step" /\ s[i].step = n
    /\ \A i, j \in DOMAIN s :
          s[i].kind = "step" /\ s[j].kind = "step" /\ s[i].step = s[j].step => i = j

\* A step record that names no delta changed nothing; the delta it names takes
\* the graph of the step before to its own.
DeltasAgree(s, l) ==
    \A i \in DOMAIN s : s[i].kind = "step" =>
        LET before == l[s[i].step].graph
            after  == l[s[i].step + 1].graph
        IN  /\ s[i].delta_id = 0 => after = before
            /\ s[i].delta_id # 0 => /\ s[s[i].delta_id] = Delta(before, after)
                                    /\ Patched(before.built, after.built) = after.built

CheckpointsAgree(s, l) ==
    \A i \in DOMAIN s : s[i].kind = "checkpoint" =>
        /\ s[i].step \in 0..(Len(l) - 1)
        /\ s[i].payload = l[s[i].step + 1].graph
        /\ s[i].cursor_id = l[s[i].step + 1].cursor
        /\ s[i].call_stack_ids = l[s[i].step + 1].stack

ContentAgrees(s, l) ==
    \A n \in 0..(Len(l) - 1) : ContentOf(s, n) = l[n + 1].content

Agrees(s, l) ==
    /\ StepsAgree(s, l) /\ DeltasAgree(s, l)
    /\ CheckpointsAgree(s, l) /\ ContentAgrees(s, l)

-----------------------------------------------------------------------------
(* Lists of moments, and the journal of a step.                            *)

\* A list of moments has its moments at the places from 1 to its length.
LEMMA MomentTypes ==
    ASSUME NEW l \in Seq(Moments)
    PROVE  /\ Len(l) \in Nat /\ DOMAIN l = 1..Len(l)
           /\ \A k \in 1..Len(l) :
                 /\ l[k] \in Moments /\ l[k].graph \in GraphValues
                 /\ Stored(l[k].graph) = l[k].graph
                 /\ l[k].cursor \in Nodes /\ l[k].stack \in Seq(CallEdges)
<1>1. Len(l) \in Nat /\ DOMAIN l = 1..Len(l)
  BY LenProperties
<1>2. \A k \in 1..Len(l) : l[k] \in Moments
  BY ElementOfSeq
<1> QED
  BY <1>1, <1>2 DEF Moments, StoredGraphs

\* The moment of any state is one of them.
LEMMA MomentType ==
    ASSUME NEW g \in GraphValues, NEW c \in Nodes, NEW k \in Seq(CallEdges),
           NEW s \in Seq(Records), NEW n \in Nat
    PROVE  MomentAt(g, c, k, s, n) \in Moments
  BY StoredType DEF MomentAt, Moments, StoredGraphs

\* One more moment leaves the others where they are.
LEMMA OneMoreMoment ==
    ASSUME NEW l \in Seq(Moments), NEW m \in Moments
    PROVE  /\ Append(l, m) \in Seq(Moments) /\ Len(Append(l, m)) = Len(l) + 1
           /\ \A k \in 1..Len(l) : Append(l, m)[k] = l[k]
           /\ Append(l, m)[Len(l) + 1] = m
           /\ \A k \in 0..(Len(l) - 1) : Append(l, m)[k + 1] = l[k + 1]
<1>1. /\ Append(l, m) \in Seq(Moments) /\ Len(Append(l, m)) = Len(l) + 1
      /\ \A k \in 1..Len(l) : Append(l, m)[k] = l[k]
      /\ Append(l, m)[Len(l) + 1] = m
  BY AppendProperties
<1>2. \A k \in 0..(Len(l) - 1) : k + 1 \in 1..Len(l)
  BY MomentTypes
<1> QED
  BY <1>1, <1>2

\* The first moments of a list; all of them are the list itself.
LEMMA FirstMoments ==
    ASSUME NEW l \in Seq(Moments), NEW n \in 1..Len(l)
    PROVE  /\ SubSeq(l, 1, n) \in Seq(Moments) /\ Len(SubSeq(l, 1, n)) = n
           /\ \A k \in 1..n : SubSeq(l, 1, n)[k] = l[k]
           /\ n = Len(l) => SubSeq(l, 1, n) = l
<1>1. Len(l) \in Nat /\ DOMAIN l = 1..Len(l) /\ n \in Nat /\ 1 <= n /\ n <= Len(l)
  BY MomentTypes
<1>2. \A k \in 1..n : l[k] \in Moments
  BY <1>1, ElementOfSeq
<1>3. /\ SubSeq(l, 1, n) \in Seq(Moments) /\ Len(SubSeq(l, 1, n)) = n
      /\ \A k \in 1..n : SubSeq(l, 1, n)[k] = l[k]
  BY <1>1, <1>2, SubSeqProperties
<1> QED
  BY <1>3, SeqEqual

\* A record that is no journal of a step leaves the content of that step alone.
LEMMA ContentStays ==
    ASSUME NEW s \in Seq(Records), NEW r \in Records, NEW n \in Nat,
           ~(IsJournal(r) /\ r.step = n)
    PROVE  ContentOf(Append(s, r), n) = ContentOf(s, n)
<1> DEFINE t == Append(s, r)
           Of(q) == {i \in DOMAIN q : IsJournal(q[i]) /\ q[i].step = n}
<1>1. /\ t \in Seq(Records) /\ Len(t) = Len(s) + 1
      /\ \A i \in 1..Len(s) : t[i] = s[i]
      /\ t[Len(s) + 1] = r
  BY AppendProperties
<1>2. Len(s) \in Nat /\ DOMAIN s = 1..Len(s) /\ DOMAIN t = 1..(Len(s) + 1)
  BY <1>1, LenProperties
<1>3. Of(t) = Of(s) /\ \A i \in Of(s) : t[i] = s[i]
  <2> HIDE DEF t
  <2> QED
    BY <1>1, <1>2
<1> QED
  BY <1>3 DEF ContentOf

\* Cutting off what is beyond a place leaves the content of a step whose
\* journal is all before it.
LEMMA ContentKept ==
    ASSUME NEW s \in Seq(Records), NEW c \in 1..Len(s), NEW n \in Nat,
           \A i \in DOMAIN s : IsJournal(s[i]) /\ s[i].step = n => i <= c
    PROVE  ContentOf(SubSeq(s, 1, c), n) = ContentOf(s, n)
<1> DEFINE t == SubSeq(s, 1, c)
           Of(q) == {i \in DOMAIN q : IsJournal(q[i]) /\ q[i].step = n}
<1>1. /\ Len(s) \in Nat /\ DOMAIN s = 1..Len(s) /\ c \in Nat /\ c <= Len(s)
      /\ \A i \in 1..c : s[i] \in Records
  BY LenProperties, ElementOfSeq
<1>2. t \in Seq(Records) /\ Len(t) = c /\ \A i \in 1..c : t[i] = s[i]
  BY <1>1, SubSeqProperties
<1>3. DOMAIN t = 1..c
  BY <1>2, LenProperties
<1>4. Of(t) = Of(s) /\ \A i \in Of(s) : t[i] = s[i]
  <2> HIDE DEF t
  <2> QED
    BY <1>1, <1>2, <1>3
<1> QED
  BY <1>4 DEF ContentOf
-----------------------------------------------------------------------------
(* What the events of a patch make of the members.                         *)

\* The places that are left when one of 1..m is taken out (none, if c = m + 1),
\* in order: those after the gap move up by one.
LEMMA PlacesLeft ==
    ASSUME NEW m \in Nat, NEW c \in 1..(m + 1)
    PROVE  LET stay == (1..m) \ {c}
           IN  /\ Cardinality(stay) = IF c = m + 1 THEN m ELSE m - 1
               /\ \A n \in 1..Cardinality(stay) : Nth(stay, n) = IF n < c THEN n ELSE n + 1
<1> DEFINE stay == (1..m) \ {c}
<1>1. Cardinality(stay) = IF c = m + 1 THEN m ELSE m - 1
  <2>1. IsFiniteSet(1..m) /\ Cardinality(1..m) = m
    BY FS_Interval
  <2>2. Cardinality((1..m) \ {c}) = IF c \in 1..m THEN m - 1 ELSE m
    BY <2>1, FS_RemoveElement
  <2> QED
    BY <2>2
<1>2. ASSUME NEW k \in stay
      PROVE  Cardinality({j \in stay : j <= k}) = IF k < c THEN k ELSE k - 1
  <2>1. {j \in stay : j <= k} = (1..k) \ {c}
    OBVIOUS
  <2>2. IsFiniteSet(1..k) /\ Cardinality(1..k) = k
    BY FS_Interval
  <2>3. Cardinality((1..k) \ {c}) = IF c \in 1..k THEN k - 1 ELSE k
    BY <2>2, FS_RemoveElement
  <2> QED
    BY <2>1, <2>3
<1>3. ASSUME NEW n \in 1..Cardinality(stay)
      PROVE  Nth(stay, n) = IF n < c THEN n ELSE n + 1
  <2> DEFINE nth == IF n < c THEN n ELSE n + 1
  <2>1. nth \in stay /\ (IF nth < c THEN nth ELSE nth - 1) = n
    BY <1>1
  <2>2. \A k \in stay : (IF k < c THEN k ELSE k - 1) = n => k = nth
    OBVIOUS
  <2> HIDE DEF nth
  <2>3. \A k \in stay : Cardinality({j \in stay : j <= k}) = n <=> k = nth
    BY <1>2, <2>1, <2>2
  <2>4. Nth(stay, n) = nth
    BY <2>1, <2>3 DEF Nth
  <2> QED
    BY <2>4 DEF nth
<1> QED
  BY <1>1, <1>3

\* Events leave the members as they were built, if at most one batch went, the
\* others kept their order, and what was added is sorted already.
LEMMA PatchedIsBuilt ==
    ASSUME NEW before \in Seq(Batches), NEW after \in Seq(Batches),
           NEW c \in 1..(Len(before) + 1),
           \A k \in DOMAIN before :
              (\E m \in DOMAIN after : after[m] = before[k]) <=> k # c,
           NEW kept \in Nat,
           kept = IF c = Len(before) + 1 THEN Len(before) ELSE Len(before) - 1,
           \A n \in 1..kept : after[n] = before[IF n < c THEN n ELSE n + 1],
           Len(after) >= kept,
           \A n \in (kept + 1)..Len(after) : Ascending(after[n]) = after[n]
    PROVE  Patched(before, after) = after
<1> DEFINE b == Len(before)
           a == Len(after)
           stay == {k \in DOMAIN before : \E m \in DOMAIN after : after[m] = before[k]}
           first == [n \in 1..Cardinality(stay) |-> before[Nth(stay, n)]]
           added == [k \in 1..(a - Len(first)) |-> Ascending(after[Len(first) + k])]
<1>1. /\ b \in Nat /\ DOMAIN before = 1..b
      /\ a \in Nat /\ DOMAIN after = 1..a /\ a >= kept
      /\ c \in 1..(b + 1)
      /\ kept = IF c = b + 1 THEN b ELSE b - 1
      /\ \A n \in (kept + 1)..a : Ascending(after[n]) = after[n]
      /\ \A n \in 1..a : after[n] \in Batches
  BY LenProperties, ElementOfSeq
<1>2. stay = (1..b) \ {c}
  BY <1>1
<1>10. Patched(before, after) = first \o added
  BY DEF Patched
<1> HIDE DEF a, b, stay
<1>3. Cardinality(stay) = kept /\ \A n \in 1..kept : Nth(stay, n) = IF n < c THEN n ELSE n + 1
  <2>1. b \in Nat /\ c \in 1..(b + 1)
    BY <1>1
  <2>2. /\ Cardinality(stay) = IF c = b + 1 THEN b ELSE b - 1
        /\ \A n \in 1..Cardinality(stay) : Nth(stay, n) = IF n < c THEN n ELSE n + 1
    BY ZenonT(40), <1>2, <2>1, PlacesLeft
  <2>3. Cardinality(stay) = kept
    BY <1>1, <2>2
  <2> QED
    BY <2>2, <2>3
<1>4. first = [n \in 1..kept |-> after[n]]
  BY <1>3
<1>5. first \in Seq(Batches) /\ Len(first) = kept
  <2>1. first \in [1..kept -> Batches]
    <3>1. \A n \in 1..kept : after[n] \in Batches
      BY <1>1
    <3> QED
      BY <1>4, <3>1
  <2> HIDE DEF first
  <2>2. first \in Seq(Batches)
    BY <2>1, SeqDef
  <2> QED
    BY <1>4, <2>2, LenProperties
<1>6. \A k \in 1..(a - kept) : kept + k \in 1..a /\ kept + k \in (kept + 1)..a
  BY <1>1
<1>7. added = [k \in 1..(a - kept) |-> after[kept + k]]
  <2> HIDE DEF first
  <2> QED
    BY <1>1, <1>5, <1>6
<1> HIDE DEF first, added
<1>8. added \in Seq(Batches) /\ Len(added) = a - kept
  <2>1. a - kept \in Nat
    BY <1>1
  <2>2. added \in [1..(a - kept) -> Batches]
    BY <1>1, <1>6, <1>7
  <2>3. added \in Seq(Batches)
    BY SMTT(30), <2>1, <2>2, SeqDef
  <2> QED
    BY <1>7, <2>1, <2>3, LenProperties
<1>9. first \o added = after
  <2>1. /\ first \o added \in Seq(Batches) /\ Len(first \o added) = Len(first) + Len(added)
        /\ \A i \in 1..(Len(first) + Len(added)) : (first \o added)[i] =
              IF i <= Len(first) THEN first[i] ELSE added[i - Len(first)]
    BY <1>5, <1>8, ConcatProperties
  <2>2. Len(first) + Len(added) = a
    BY <1>1, <1>5, <1>8
  <2>3. \A i \in 1..a : (first \o added)[i] = after[i]
    <3> TAKE i \in 1..a
    <3>1. CASE i <= kept
      BY <1>1, <1>4, <1>5, <2>1, <2>2, <3>1
    <3>2. CASE ~(i <= kept)
      <4>1. i - kept \in 1..(a - kept) /\ kept + (i - kept) = i
        BY <1>1, <3>2
      <4>2. (first \o added)[i] = added[i - kept]
        BY <1>5, <2>1, <2>2, <3>2
      <4> QED
        BY <1>7, <4>1, <4>2
    <3> QED
      BY <3>1, <3>2
  <2> QED
    BY <2>1, <2>2, <2>3, SeqEqual DEF a
<1> QED
  BY <1>9, <1>10

\* No node has two batches.
OnePerNode(g) == \A i, j \in DOMAIN g.built : g.built[i].at = g.built[j].at => i = j

\* A batch of one is sorted.
LEMMA AscendingOne ==
    ASSUME NEW n \in Nodes, NEW u \in Nat
    PROVE  Ascending([at |-> n, uids |-> <<u>>]) = [at |-> n, uids |-> <<u>>]
<1> DEFINE b == [at |-> n, uids |-> <<u>>]
           sorted == [k \in DOMAIN b.uids |-> Nth({b.uids[i] : i \in DOMAIN b.uids}, k)]
<1>1. {b.uids[i] : i \in DOMAIN b.uids} = {u} /\ DOMAIN b.uids = {1}
  OBVIOUS
<1>2. {v \in {u} : v <= u} = {u} /\ Cardinality({u}) = 1
  BY FS_Singleton
<1>3. Nth({u}, 1) = u
  BY <1>2 DEF Nth
<1>4. sorted = [k \in {1} |-> u]
  BY <1>1, <1>3
<1>5. [k \in {1} |-> u] = <<u>>
  OBVIOUS
<1>6. Ascending(b) = [b EXCEPT !.uids = sorted]
  BY DEF Ascending
<1> HIDE DEF sorted
<1> QED
  BY <1>4, <1>5, <1>6

\* Clearing the batch of a node takes out one place, or none.
LEMMA ClearedPlaces ==
    ASSUME NEW b \in Seq(Batches), NEW n \in Nodes
    PROVE  \E c \in 1..(Len(b) + 1) :
              /\ c = Len(b) + 1 => \A k \in DOMAIN b : b[k].at # n
              /\ c # Len(b) + 1 => b[c].at = n
              /\ Cleared(b, n) \in Seq(Batches)
              /\ Len(Cleared(b, n)) = IF c = Len(b) + 1 THEN Len(b) ELSE Len(b) - 1
              /\ \A i \in 1..Len(Cleared(b, n)) :
                    Cleared(b, n)[i] = b[IF i < c THEN i ELSE i + 1]
<1> DEFINE m == Len(b)
<1>1. m \in Nat /\ DOMAIN b = 1..m /\ \A i \in 1..m : b[i] \in Batches
  BY LenProperties, ElementOfSeq
<1>2. CASE \A k \in DOMAIN b : b[k].at # n
  <2>1. Cleared(b, n) = b
    BY <1>2 DEF Cleared
  <2>2. /\ m + 1 \in 1..(m + 1)
        /\ \A i \in 1..m : b[i] = b[IF i < m + 1 THEN i ELSE i + 1]
    <3> HIDE DEF m
    <3> QED
      BY <1>1
  <2> QED
    BY <1>2, <2>1, <2>2
<1>3. CASE ~ \A k \in DOMAIN b : b[k].at # n
  <2> DEFINE c == CHOOSE k \in DOMAIN b : b[k].at = n
             before == SubSeq(b, 1, c - 1)
             after == SubSeq(b, c + 1, m)
  <2>1. c \in DOMAIN b /\ b[c].at = n
    BY <1>3
  <2>2. Cleared(b, n) = before \o after
    BY <1>3 DEF Cleared
  <2> HIDE DEF c, m
  <2>3. /\ before \in Seq(Batches) /\ Len(before) = c - 1
        /\ \A i \in 1..(c - 1) : before[i] = b[i]
    <3>1. c - 1 \in Nat /\ \A i \in 1..(c - 1) : b[i] \in Batches
      BY <1>1, <2>1
    <3> QED
      BY <3>1, SubSeqProperties
  <2>4. /\ after \in Seq(Batches) /\ Len(after) = m - c
        /\ \A i \in 1..(m - c) : after[i] = b[c + i]
    <3>1. c + 1 \in Nat /\ m \in Nat /\ \A i \in (c + 1)..m : b[i] \in Batches
      BY <1>1, <2>1
    <3>2. /\ after \in Seq(Batches)
          /\ Len(after) = IF c + 1 <= m THEN m - (c + 1) + 1 ELSE 0
          /\ \A i \in 1..(m - (c + 1) + 1) : after[i] = b[(c + 1) + i - 1]
      BY <3>1, SubSeqProperties
    <3>3. m - (c + 1) + 1 = m - c /\ \A i \in 1..(m - c) : (c + 1) + i - 1 = c + i
      BY <1>1, <2>1
    <3> QED
      BY <1>1, <2>1, <3>2, <3>3
  <2> HIDE DEF before, after
  <2>5. /\ before \o after \in Seq(Batches)
        /\ Len(before \o after) = Len(before) + Len(after)
        /\ \A i \in 1..(Len(before) + Len(after)) : (before \o after)[i] =
              IF i <= Len(before) THEN before[i] ELSE after[i - Len(before)]
    BY <2>3, <2>4, ConcatProperties
  <2>6. Len(before) + Len(after) = m - 1
    BY <1>1, <2>1, <2>3, <2>4
  <2>7. ASSUME NEW i \in 1..(m - 1)
        PROVE  (before \o after)[i] = b[IF i < c THEN i ELSE i + 1]
    <3>1. CASE i < c
      BY <1>1, <2>1, <2>3, <2>5, <2>6, <3>1
    <3>2. CASE ~(i < c)
      <4>1. i - (c - 1) \in 1..(m - c) /\ c + (i - (c - 1)) = i + 1 /\ ~(i <= c - 1)
        BY <1>1, <2>1, <3>2
      <4>2. (before \o after)[i] = after[i - (c - 1)]
        BY <2>3, <2>5, <2>6, <4>1
      <4> QED
        BY <2>4, <3>2, <4>1, <4>2
    <3> QED
      BY <3>1, <3>2
  <2>8. c \in 1..(m + 1) /\ c # m + 1
    BY <1>1, <2>1
  <2> QED
    BY <2>1, <2>2, <2>5, <2>6, <2>7, <2>8 DEF m
<1> QED
  BY <1>2, <1>3

\* A hop whose projectors build at most one member for a node changes the graph
\* in a way its delta can be applied: the events make of the members what they
\* were when the delta was built.
LEMMA PlanningApplies ==
    ASSUME NEW g \in GraphValues, OnePerNode(g), NEW n \in Nodes, Projects[n] <= 1,
           NEW found \in SUBSET Open(g, n), NEW used, UidsOf(g.built) \subseteq used,
           NEW uids \in NewUids(Projects[n], used)
    PROVE  LET h == Project(Provision(g, found), n, uids)
           IN  /\ OnePerNode(h) /\ Patched(g.built, h.built) = h.built
               /\ h.successor = g.successor /\ h.visits = g.visits
<1> DEFINE h == Project(Provision(g, found), n, uids)
           b == g.built
           m == Len(b)
<1>1. b \in Seq(Batches) /\ Provision(g, found).built = b
  BY DEF GraphValues, Provision
<1>2. m \in Nat /\ DOMAIN b = 1..m /\ \A i \in 1..m : b[i] \in Batches
  BY <1>1, LenProperties, ElementOfSeq
<1>3. h.successor = g.successor /\ h.visits = g.visits
  BY DEF GraphValues, Provision, Project
<1>4. CASE uids = <<>>
  <2>1. h.built = b
    BY <1>1, <1>4 DEF Project
  <2>2. Patched(b, b) = b
    <3> HIDE DEF b, h
    <3>1. \A k \in DOMAIN b : (\E i \in DOMAIN b : b[i] = b[k]) <=> k # m + 1
      BY <1>2
    <3>2. \A i \in 1..m : b[i] = b[IF i < m + 1 THEN i ELSE i + 1]
      <4> HIDE DEF m
      <4> QED
        BY <1>2
    <3>3. m + 1 \in 1..(m + 1) /\ m >= m /\ (m + 1)..m = {}
      <4> HIDE DEF m
      <4> QED
        BY <1>2
    <3> QED
      BY <1>1, <1>2, <3>1, <3>2, <3>3, PatchedIsBuilt
  <2> QED
    BY <1>3, <2>1, <2>2 DEF OnePerNode
<1>5. CASE uids # <<>>
  <2>1. PICK u \in Nat : uids = <<u>> /\ u \notin used
    <3>1. uids \in [1..Projects[n] -> 1..(Cardinality(used) + Projects[n])]
      BY DEF NewUids
    <3>2. Projects[n] = 1
      <4>1. Projects[n] \in Nat
        BY StoryAssumption
      <4>2. Projects[n] # 0
        BY <1>5, <3>1
      <4> QED
        BY <4>1, <4>2
    <3>3. uids = <<uids[1]>> /\ uids[1] \in Nat /\ uids[1] \notin used
      BY <3>1, <3>2 DEF NewUids
    <3> QED
      BY <3>3
  <2> DEFINE new == [at |-> n, uids |-> <<u>>]
             rest == Cleared(b, n)
             after == Append(rest, new)
             kept == Len(rest)
  <2>2. PICK c \in 1..(m + 1) :
              /\ c = m + 1 => \A k \in DOMAIN b : b[k].at # n
              /\ c # m + 1 => b[c].at = n
              /\ rest \in Seq(Batches)
              /\ kept = IF c = m + 1 THEN m ELSE m - 1
              /\ \A i \in 1..kept : rest[i] = b[IF i < c THEN i ELSE i + 1]
    BY <1>1, ClearedPlaces
  <2>3. h.built = after
    BY <1>1, <1>5, <2>1 DEF Project, Provision, GraphValues
  <2>4. new \in Batches
    <3>1. <<u>> \in Seq(Nat)
      OBVIOUS
    <3> QED
      BY <3>1 DEF Batches
  <2>5. \A k \in DOMAIN b : b[k] # new
    <3> SUFFICES ASSUME NEW k \in DOMAIN b, b[k] = new PROVE FALSE
      OBVIOUS
    <3>1. b[k].uids = <<u>>
      BY <1>2
    <3>2. u \in {b[k].uids[i] : i \in DOMAIN b[k].uids}
      BY <3>1
    <3>3. u \in UidsOf(b)
      BY <3>2 DEF UidsOf
    <3> QED
      BY <2>1, <3>3
  <2>6. /\ after \in Seq(Batches) /\ Len(after) = kept + 1
        /\ \A i \in 1..kept : after[i] = rest[i]
        /\ after[kept + 1] = new
    BY <2>2, <2>4, AppendProperties
  <2>7. DOMAIN after = 1..(kept + 1)
    BY <2>6, LenProperties
  <2>8. kept \in Nat
    BY <2>2, LenProperties
  <2> HIDE DEF b, m, new, rest, after, kept
  <2>9. \A i \in 1..kept : /\ after[i] = b[IF i < c THEN i ELSE i + 1]
                           /\ (IF i < c THEN i ELSE i + 1) \in 1..m
                           /\ (IF i < c THEN i ELSE i + 1) # c
    BY <1>2, <2>2, <2>6
  <2>10. \A k \in DOMAIN b : b[k].at = n => k = c
    <3> SUFFICES ASSUME NEW k \in DOMAIN b, b[k].at = n PROVE k = c
      OBVIOUS
    <3>1. c # m + 1
      BY <2>2
    <3>2. c \in DOMAIN b /\ b[c].at = n
      BY <1>2, <2>2, <3>1
    <3> QED
      BY <3>2 DEF OnePerNode, b
  <2>11. \A k \in DOMAIN b : k # c => \E i \in 1..kept : after[i] = b[k]
    <3> SUFFICES ASSUME NEW k \in 1..m, k # c
                 PROVE  \E i \in 1..kept : after[i] = b[k]
      BY <1>2
    <3> DEFINE i == IF k < c THEN k ELSE k - 1
    <3>1. i \in 1..kept /\ (IF i < c THEN i ELSE i + 1) = k
      BY <1>2, <2>2
    <3> QED
      BY <2>9, <3>1
  <2>12. \A k \in DOMAIN b : (\E i \in DOMAIN after : after[i] = b[k]) <=> k # c
    <3> SUFFICES ASSUME NEW k \in DOMAIN b
                 PROVE  (\E i \in DOMAIN after : after[i] = b[k]) <=> k # c
      OBVIOUS
    <3>1. k # c => \E i \in DOMAIN after : after[i] = b[k]
      BY <2>7, <2>8, <2>11
    <3>2. ASSUME k = c, NEW i \in DOMAIN after, after[i] = b[k] PROVE FALSE
      <4>1. c # m + 1
        BY <1>2, <3>2
      <4>2. b[c].at = n
        BY <2>2, <4>1
      <4>3. CASE i = kept + 1
        BY <2>5, <2>6, <3>2, <4>3
      <4>4. CASE i \in 1..kept
        BY <1>2, <2>9, <2>10, <3>2, <4>2, <4>4
      <4> QED
        BY <2>7, <2>8, <4>3, <4>4
    <3> QED
      BY <3>1, <3>2
  <2>13. Patched(b, after) = after
    <3>1. Ascending(new) = new
      BY AscendingOne DEF new
    <3>2. \A i \in (kept + 1)..(kept + 1) : Ascending(after[i]) = after[i]
      BY <2>6, <2>8, <3>1
    <3>3. Len(after) >= kept
      BY <2>6, <2>8
    <3>4. /\ c \in 1..(Len(b) + 1)
          /\ kept = IF c = Len(b) + 1 THEN Len(b) ELSE Len(b) - 1
      BY <2>2 DEF m
    <3>5. \A i \in (kept + 1)..Len(after) : Ascending(after[i]) = after[i]
      BY <2>6, <3>2
    <3>6. \A i \in 1..kept : after[i] = b[IF i < c THEN i ELSE i + 1]
      BY <2>9
    <3>7. b \in Seq(Batches) /\ after \in Seq(Batches) /\ kept \in Nat
      BY <1>1, <2>6, <2>8
    <3> QED
      BY <2>12, <3>3, <3>4, <3>5, <3>6, <3>7, PatchedIsBuilt
  <2>14. \A i, j \in DOMAIN after : after[i].at = after[j].at => i = j
    <3>1. after[kept + 1].at = n
      BY <2>6 DEF new
    <3>2. \A i \in 1..kept : after[i].at # n
      BY <1>2, <2>9, <2>10
    <3>3. ASSUME NEW i \in 1..kept, NEW j \in 1..kept, after[i].at = after[j].at
          PROVE  i = j
      <4> DEFINE x == IF i < c THEN i ELSE i + 1
                 y == IF j < c THEN j ELSE j + 1
      <4>1. /\ x \in DOMAIN b /\ after[i] = b[x]
            /\ y \in DOMAIN b /\ after[j] = b[y]
        BY <1>2, <2>9
      <4> HIDE DEF x, y
      <4>2. x = y
        BY <3>3, <4>1 DEF OnePerNode, b
      <4> QED
        BY <2>8, <4>2 DEF x, y
    <3> QED
      BY <2>7, <2>8, <3>1, <3>2, <3>3
  <2> QED
    BY <1>3, <2>3, <2>13, <2>14 DEF OnePerNode, b
<1> QED
  BY <1>4, <1>5

-----------------------------------------------------------------------------
(* A replay of the stream restores what was lived.                         *)

\* A ledger whose stream agrees with a list of moments.
Recalls(l) ==
    /\ output_stream \in Seq(Records) /\ StreamOK(output_stream)
    /\ l \in Seq(Moments) /\ Agrees(output_stream, l)

\* Up to step n there are n step records.
LEMMA StepCount ==
    ASSUME NEW l, Recalls(l), NEW n \in 0..(Len(l) - 1)
    PROVE  /\ Cardinality(StepsUpTo(n)) = n
           /\ Sortable(StepsUpTo(n))
           /\ \A i \in StepsUpTo(n) : output_stream[i].step \in 1..n
<1> DEFINE steps == StepsUpTo(n)
           number == [i \in steps |-> output_stream[i].step]
           m == Len(l) - 1
<1>1. Len(l) \in Nat /\ n \in Nat /\ n \in 0..m /\ m \in Int
  BY MomentTypes DEF Recalls
<1> HIDE DEF m
<1>2. /\ Sortable(steps)
      /\ \A i \in steps : /\ i \in DOMAIN output_stream /\ output_stream[i].kind = "step"
                          /\ output_stream[i].step <= n
  BY <1>1, PlacesUpToType DEF Recalls
<1>3. \A i \in steps : output_stream[i].step \in 1..m
  BY <1>2 DEF Recalls, Agrees, StepsAgree, m
<1>4. \A i \in steps : output_stream[i].step \in 1..n
  BY <1>1, <1>2, <1>3
<1>5. \A k \in 1..n : \E i \in steps : output_stream[i].step = k
  <2> TAKE k \in 1..n
  <2>1. k \in 1..m /\ k <= n
    BY <1>1
  <2>2. PICK i \in DOMAIN output_stream :
              output_stream[i].kind = "step" /\ output_stream[i].step = k
    BY <2>1 DEF Recalls, Agrees, StepsAgree, m
  <2> QED
    BY <2>1, <2>2 DEF StepsUpTo, PlacesUpTo
<1>6. \A i, j \in steps : output_stream[i].step = output_stream[j].step => i = j
  BY <1>2 DEF Recalls, Agrees, StepsAgree
<1>7. number \in Bijection(steps, 1..n)
  BY <1>4, <1>5, <1>6 DEF Bijection, Injection, Surjection, IsInjective
<1>8. ExistsBijection(steps, 1..n)
  BY <1>7 DEF ExistsBijection
<1>9. IsFiniteSet(steps)
  BY <1>2, PlacesFinite DEF Recalls, Sortable
<1>10. Cardinality(1..n) = n
  BY <1>1, FS_Interval
<1> QED
  BY <1>2, <1>4, <1>8, <1>9, <1>10, FS_Bijection

\* Sorted, the k-th of them is the record of step k, and the last that of n.
LEMMA StepPlaces ==
    ASSUME NEW l, Recalls(l), NEW n \in 0..(Len(l) - 1)
    PROVE  /\ \A k \in 1..n : /\ Ordered(StepsUpTo(n))[k] \in StepsUpTo(n)
                              /\ output_stream[Ordered(StepsUpTo(n))[k]].step = k
           /\ n > 0 => /\ Latest(StepsUpTo(n)) \in StepsUpTo(n)
                       /\ output_stream[Latest(StepsUpTo(n))].step = n
<1> DEFINE steps == StepsUpTo(n)
           m == Len(l) - 1
<1>1. Len(l) \in Nat /\ n \in Nat /\ n \in 0..m /\ m \in Int
  BY MomentTypes DEF Recalls
<1>2. /\ Cardinality(steps) = n /\ Sortable(steps) /\ output_stream \in Seq(Records)
      /\ \A i \in steps : output_stream[i].step \in 1..n
  BY StepCount DEF Recalls
<1>3. ASSUME NEW i \in steps
      PROVE  Rank(steps, i) = output_stream[i].step
  <2> DEFINE k == output_stream[i].step
  <2>1. k \in 0..m /\ k \in 1..n
    BY <1>1, <1>2
  <2>2. Cardinality(StepsUpTo(k)) = k
    BY <2>1, StepCount
  <2>3. \A j \in steps : output_stream[j].step = k => j = i
    BY DEF Recalls, Agrees, StepsAgree, StepsUpTo, PlacesUpTo
  <2>4. i \in Nat
    BY <1>2, PlacesFinite DEF Sortable
  <2>5. \A j \in steps : Before(j, i) <=> output_stream[j].step <= k
    BY <1>2, <2>1, <2>3, <2>4 DEF Before
  <2>6. {j \in steps : Before(j, i)} = {j \in steps : output_stream[j].step <= k}
    BY <2>5
  <2>7. {j \in steps : output_stream[j].step <= k} = StepsUpTo(k)
    <3>1. \A j \in DOMAIN output_stream : output_stream[j].kind = "step" =>
              output_stream[j].step \in 1..m
      BY DEF Recalls, Agrees, StepsAgree
    <3> HIDE DEF k, m
    <3> QED
      BY <1>1, <2>1, <3>1 DEF StepsUpTo, PlacesUpTo
  <2> QED
    BY <2>2, <2>6, <2>7 DEF Rank
<1>4. ASSUME NEW k \in 1..n
      PROVE  Ordered(steps)[k] \in steps /\ output_stream[Ordered(steps)[k]].step = k
  BY <1>2, <1>3, OrderedRank
<1>5. ASSUME n > 0
      PROVE  Latest(steps) \in steps /\ output_stream[Latest(steps)].step = n
  <2>1. n \in 1..n
    BY <1>1, <1>5
  <2>2. Ordered(steps)[n] \in steps /\ output_stream[Ordered(steps)[n]].step = n
    BY <1>4, <2>1
  <2>3. Latest(steps) \in steps /\ Before(Ordered(steps)[n], Latest(steps))
    BY <1>2, <2>2, LatestPlace
  <2>4. output_stream[Latest(steps)].step \in 1..n
    BY <1>2, <2>3
  <2>5. n <= output_stream[Latest(steps)].step
    BY <1>1, <2>2, <2>3, <2>4 DEF Before
  <2> QED
    BY <1>1, <2>3, <2>4, <2>5
<1> QED
  BY <1>4, <1>5

\* While no step record names a delta the graph stays as it is.
LEMMA GraphStays ==
    ASSUME NEW l, Recalls(l), NEW a \in 0..(Len(l) - 1), NEW b \in a..(Len(l) - 1),
           \A i \in DOMAIN output_stream :
              /\ output_stream[i].kind = "step"
              /\ a < output_stream[i].step /\ output_stream[i].step <= b
              => output_stream[i].delta_id = 0
    PROVE  l[b + 1].graph = l[a + 1].graph
<1> DEFINE m == Len(l) - 1
           changed == {k \in a..b : l[k + 1].graph # l[a + 1].graph}
<1>1. Len(l) \in Nat /\ m \in Int /\ a \in 0..m /\ b \in a..m /\ a \in Nat /\ b \in Nat
  BY MomentTypes DEF Recalls
<1> SUFFICES ASSUME changed # {} PROVE FALSE
  <2>1. b \in a..b
    BY <1>1
  <2> QED
    BY <2>1
<1>2. changed \in SUBSET Nat
  BY <1>1
<1> HIDE DEF changed, m
<1>3. PICK k \in changed : \A j \in changed : k <= j
  BY <1>2, SmallestNumber
<1>4. k \in a..b /\ l[k + 1].graph # l[a + 1].graph
  BY DEF changed
<1>5. k # a
  BY <1>4
<1>6. k \in 1..m /\ a < k /\ k <= b /\ k - 1 \in a..b /\ k - 1 < k
  BY <1>1, <1>4, <1>5
<1>7. k - 1 \notin changed
  BY <1>2, <1>3, <1>6
<1>8. l[k].graph = l[a + 1].graph
  <2>1. (k - 1) + 1 = k
    BY <1>6
  <2> QED
    BY <1>6, <1>7, <2>1 DEF changed
<1>9. PICK i \in DOMAIN output_stream :
          output_stream[i].kind = "step" /\ output_stream[i].step = k
  BY <1>6 DEF Recalls, Agrees, StepsAgree, m
<1>10. output_stream[i].delta_id = 0
  BY <1>6, <1>9
<1>11. l[k + 1].graph = l[k].graph
  BY <1>9, <1>10 DEF Recalls, Agrees, DeltasAgree
<1> QED
  BY <1>4, <1>8, <1>11

\* The checkpoints a rollback starts from agree with what was lived, and the
\* earliest is that of step 0.
LEMMA CheckpointPlaces ==
    ASSUME NEW l, Recalls(l), NEW n \in 0..(Len(l) - 1)
    PROVE  LET base  == output_stream[Latest(CheckpointsUpTo(n))]
               first == output_stream[Earliest(CheckpointsUpTo(n))]
           IN  /\ base.step \in 0..n /\ base.payload = l[base.step + 1].graph
               /\ base.cursor_id = l[base.step + 1].cursor
               /\ base.call_stack_ids = l[base.step + 1].stack
               /\ first.cursor_id = l[1].cursor
<1> DEFINE points == CheckpointsUpTo(n)
           m == Len(l) - 1
<1>1. Len(l) \in Nat /\ n \in Nat /\ n \in 0..m /\ m \in Int
  BY MomentTypes DEF Recalls
<1>2. /\ Sortable(points) /\ points # {}
      /\ \A i \in points : /\ i \in DOMAIN output_stream
                           /\ output_stream[i].kind = "checkpoint"
                           /\ output_stream[i].step <= n
  BY <1>1, PlacesUpToType DEF Recalls
<1>3. Latest(points) \in points /\ Earliest(points) \in points
      /\ \A j \in points : Before(Earliest(points), j)
  BY <1>2, LatestPlace, EarliestPlace DEF Recalls
<1>4. \A i \in points : output_stream[i].step \in 0..n
  <2>1. \A i \in points : output_stream[i].step \in 0..m
    BY <1>2 DEF Recalls, Agrees, CheckpointsAgree
  <2> QED
    BY <1>1, <1>2, <2>1
<1>5. 1 \in points /\ output_stream[1].step = 0
  <2>1. 1 \in DOMAIN output_stream
    BY LenProperties, EmptySeq DEF Recalls, StreamOK
  <2> QED
    BY <1>1, <2>1 DEF Recalls, StreamOK, CheckpointsUpTo, PlacesUpTo
<1>6. output_stream[Earliest(points)].step = 0
  <2>1. Before(Earliest(points), 1)
    BY <1>3, <1>5
  <2>2. output_stream[Earliest(points)].step \in 0..n
    BY <1>3, <1>4
  <2> QED
    BY <1>5, <2>1, <2>2 DEF Before
<1>7. output_stream[Earliest(points)].cursor_id = l[0 + 1].cursor
  BY <1>2, <1>3, <1>6 DEF Recalls, Agrees, CheckpointsAgree
<1> QED
  BY <1>2, <1>3, <1>4, <1>7 DEF Recalls, Agrees, CheckpointsAgree

\* The deltas over a checkpoint apply one after the other, and end at the graph
\* of the step: between two of them, before the first and after the last, the
\* graph stays.
LEMMA DeltasRestore ==
    ASSUME NEW l, Recalls(l), NEW n \in 0..(Len(l) - 1),
           NEW base, base.step \in 0..n, base.payload = l[base.step + 1].graph
    PROVE  LET chosen == {i \in StepsUpTo(n) : IsReplayed(base, output_stream[i])}
           IN  /\ Chain(base.payload, DeltasAt(chosen))
               /\ RestoredGraph(base, DeltasAt(chosen)) = l[n + 1].graph
<1> DEFINE chosen == {i \in StepsUpTo(n) : IsReplayed(base, output_stream[i])}
           N == Cardinality(chosen)
           deltas == DeltasAt(chosen)
           p(k) == Ordered(chosen)[k]
           st(k) == output_stream[p(k)].step
           m == Len(l) - 1
<1>1. /\ Len(l) \in Nat /\ n \in Nat /\ n \in 0..m /\ m \in Int
      /\ base.step \in Nat /\ base.step <= n
  BY MomentTypes DEF Recalls
<1>2. /\ \A i \in chosen : /\ i \in DOMAIN output_stream
                           /\ output_stream[i].kind = "step"
                           /\ output_stream[i].step \in (base.step + 1)..n
                           /\ output_stream[i].delta_id # 0
      /\ Sortable(chosen)
  <2>1. /\ Sortable(StepsUpTo(n))
        /\ \A i \in StepsUpTo(n) : output_stream[i].step \in 1..n
    BY StepCount
  <2>2. \A i \in StepsUpTo(n) : i \in DOMAIN output_stream /\ output_stream[i].kind = "step"
    BY DEF StepsUpTo, PlacesUpTo
  <2>3. \A i \in chosen : base.step < output_stream[i].step /\ output_stream[i].delta_id # 0
    BY DEF IsReplayed
  <2>4. \A i \in chosen : output_stream[i].step \in (base.step + 1)..n
    <3> TAKE i \in chosen
    <3>1. output_stream[i].step \in 1..n /\ base.step < output_stream[i].step
      BY <2>1, <2>3
    <3> HIDE DEF chosen
    <3> QED
      BY <1>1, <3>1
  <2> QED
    BY <2>1, <2>2, <2>3, <2>4 DEF Sortable
<1>3. ASSUME NEW i \in DOMAIN output_stream, output_stream[i].kind = "step",
             output_stream[i].delta_id # 0,
             base.step < output_stream[i].step, output_stream[i].step <= n
      PROVE  i \in chosen
  BY <1>3 DEF StepsUpTo, PlacesUpTo, IsReplayed
<1>4. /\ N \in Nat /\ Len(deltas) = N /\ DOMAIN deltas = 1..N
      /\ \A i \in chosen : Rank(chosen, i) \in 1..N
  <2>1. \A i \in chosen : NamesDelta(output_stream, i)
    BY <1>2 DEF NamesDelta
  <2> HIDE DEF chosen
  <2> QED
    BY <1>2, <2>1, DeltasAtType, RankIsBijection, LenProperties DEF Recalls
<1> HIDE DEF chosen
<1>5. ASSUME NEW k \in 1..N
      PROVE  /\ p(k) \in chosen /\ Rank(chosen, p(k)) = k
             /\ st(k) \in (base.step + 1)..n
             /\ deltas[k] = Delta(l[st(k)].graph, l[st(k) + 1].graph)
             /\ Patched(l[st(k)].graph.built, l[st(k) + 1].graph.built)
                   = l[st(k) + 1].graph.built
  <2>1. p(k) \in chosen /\ Rank(chosen, p(k)) = k
    BY <1>2, OrderedRank DEF Recalls
  <2>2. deltas[k] = output_stream[output_stream[p(k)].delta_id]
    BY DEF DeltasAt
  <2> QED
    BY <1>2, <2>1, <2>2 DEF Recalls, Agrees, DeltasAgree
<1>6. ASSUME NEW i \in chosen, NEW k \in 1..N
      PROVE  /\ output_stream[i].step < st(k) => Rank(chosen, i) < k
             /\ Rank(chosen, i) <= k => output_stream[i].step <= st(k)
             /\ Rank(chosen, i) < k => output_stream[i].step < st(k)
  <2> DEFINE j == p(k)
  <2>1. j \in chosen /\ Rank(chosen, j) = k /\ Rank(chosen, i) \in 1..N
    BY <1>4, <1>5
  <2>2. /\ Before(i, j) <=> Rank(chosen, i) <= k
        /\ Before(j, i) <=> k <= Rank(chosen, i)
    BY <1>2, <2>1, RankGrows DEF Recalls
  <2>3. /\ output_stream[i].step \in Nat /\ output_stream[j].step \in Nat
    BY <1>2, <2>1 DEF Sortable
  <2>4. output_stream[i].step = output_stream[j].step => i = j
    BY <1>2, <2>1 DEF Recalls, Agrees, StepsAgree
  <2> HIDE DEF j
  <2>5. /\ Rank(chosen, i) \in Nat /\ k \in Nat
        /\ Before(i, j) => output_stream[i].step <= output_stream[j].step
        /\ Before(j, i) => output_stream[j].step <= output_stream[i].step
    BY SMTT(30), <1>4, <2>1, <2>3 DEF Before
  <2> DEFINE r == Rank(chosen, i)
             si == output_stream[i].step
             sj == output_stream[j].step
  <2>6. /\ r \in Nat /\ k \in Nat /\ si \in Nat /\ sj \in Nat
        /\ r <= k => si <= sj
        /\ k <= r => sj <= si
        /\ si = sj => r = k
    BY <2>1, <2>2, <2>3, <2>4, <2>5
  <2> HIDE DEF r, si, sj
  <2>7. (si < sj => r < k) /\ (r <= k => si <= sj) /\ (r < k => si < sj)
    BY <2>6
  <2> QED
    BY <2>7 DEF r, si, sj, j
<1>7. ASSUME NEW k \in 1..N
      PROVE  Applies(deltas[k], IF k = 1 THEN base.payload ELSE deltas[k - 1].final)
  <2> DEFINE lo == IF k = 1 THEN base.step ELSE st(k - 1)
             hi == st(k) - 1
  <2>1. st(k) \in (base.step + 1)..n /\ k # 1 => k - 1 \in 1..N
    BY <1>4, <1>5
  <2>2. lo \in base.step..hi
    <3>1. CASE k = 1
      BY <1>1, <1>5, <3>1
    <3>2. CASE k # 1
      <4>1. k - 1 \in 1..N /\ k - 1 < k
        BY <1>4, <3>2
      <4>2. p(k - 1) \in chosen /\ Rank(chosen, p(k - 1)) = k - 1
        BY <1>5, <4>1
      <4>3. st(k - 1) < st(k)
        BY <1>6, <4>1, <4>2
      <4>4. st(k - 1) \in (base.step + 1)..n /\ st(k) \in (base.step + 1)..n
        BY <1>5, <4>1
      <4> QED
        BY SMTT(30), <1>1, <3>2, <4>3, <4>4
    <3> QED
      BY <3>1, <3>2
  <2>3. ASSUME NEW i \in DOMAIN output_stream, output_stream[i].kind = "step",
               lo < output_stream[i].step, output_stream[i].step <= hi,
               output_stream[i].delta_id # 0
        PROVE  FALSE
    <3>1. output_stream[i].step \in 1..m
      BY <2>3 DEF Recalls, Agrees, StepsAgree
    <3> DEFINE s == output_stream[i].step
               sk == st(k)
    <3>2. sk \in (base.step + 1)..n /\ hi = sk - 1 /\ lo \in base.step..hi
      BY <1>5, <2>2
    <3>3. base.step < s /\ s <= n /\ s < sk
      <4> HIDE DEF s, sk, lo, hi
      <4>1. s \in Nat /\ lo < s /\ s <= hi
        BY <1>1, <2>3, <3>1 DEF s
      <4> QED
        BY <1>1, <3>2, <4>1
    <3>4. i \in chosen
      BY <1>3, <2>3, <3>3
    <3>5. Rank(chosen, i) < k /\ Rank(chosen, i) \in 1..N
      BY <1>4, <1>6, <3>3, <3>4
    <3>6. k # 1
      BY <3>5
    <3>7. k - 1 \in 1..N /\ Rank(chosen, i) <= k - 1
      BY <1>4, <3>5, <3>6
    <3>8. s <= st(k - 1)
      BY <1>6, <3>4, <3>7
    <3>9. st(k - 1) \in (base.step + 1)..n /\ lo = st(k - 1)
      BY <1>5, <3>6, <3>7
    <3> QED
      BY <1>1, <2>3, <3>1, <3>8, <3>9
  <2>4. lo \in 0..m /\ hi \in lo..m
    <3>1. hi <= n - 1
      BY <1>1, <1>5
    <3>2. hi \in Int
      BY <1>1, <1>5
    <3> HIDE DEF lo, hi
    <3> QED
      BY <1>1, <2>2, <3>1, <3>2
  <2>5. l[hi + 1].graph = l[lo + 1].graph
    <3> HIDE DEF lo, hi
    <3> QED
      BY <2>3, <2>4, GraphStays DEF m
  <2>6. hi + 1 = st(k)
    BY <1>1, <1>5
  <2>7. (IF k = 1 THEN base.payload ELSE deltas[k - 1].final) = l[lo + 1].graph
    <3>1. CASE k = 1
      BY <3>1
    <3>2. CASE k # 1
      <4>1. k - 1 \in 1..N
        BY <1>4, <3>2
      <4>2. deltas[k - 1] = Delta(l[st(k - 1)].graph, l[st(k - 1) + 1].graph)
        BY <1>5, <4>1
      <4> QED
        BY <3>2, <4>2 DEF Delta
    <3> QED
      BY <3>1, <3>2
  <2>8. deltas[k].initial = l[st(k)].graph /\ deltas[k].final = l[st(k) + 1].graph
    <3>1. deltas[k] = Delta(l[st(k)].graph, l[st(k) + 1].graph)
      BY <1>5
    <3> HIDE DEF deltas, st
    <3> QED
      BY <3>1 DEF Delta
  <2>9. Patched(l[st(k)].graph.built, l[st(k) + 1].graph.built) = l[st(k) + 1].graph.built
    BY <1>5
  <2> HIDE DEF lo, hi
  <2>10. (IF k = 1 THEN base.payload ELSE deltas[k - 1].final) = l[st(k)].graph
    BY <2>5, <2>6, <2>7
  <2> HIDE DEF st, deltas
  <2> QED
    BY <2>8, <2>9, <2>10 DEF Applies
<1>8. RestoredGraph(base, deltas) = l[n + 1].graph
  <2> DEFINE lo == IF N = 0 THEN base.step ELSE st(N)
  <2>1. N # 0 => N \in 1..N
    BY <1>4
  <2>2. lo \in base.step..n
    BY <1>1, <1>5, <2>1
  <2>3. ASSUME NEW i \in DOMAIN output_stream, output_stream[i].kind = "step",
               lo < output_stream[i].step, output_stream[i].step <= n,
               output_stream[i].delta_id # 0
        PROVE  FALSE
    <3>1. output_stream[i].step \in 1..m
      BY <2>3 DEF Recalls, Agrees, StepsAgree
    <3> DEFINE s == output_stream[i].step
    <3>2. base.step < s
      <4> HIDE DEF s, lo
      <4>1. s \in Nat /\ lo < s
        BY <1>1, <2>3, <3>1 DEF s
      <4> QED
        BY <1>1, <2>2, <4>1
    <3>3. i \in chosen
      BY <1>3, <2>3, <3>2
    <3>4. Rank(chosen, i) \in 1..N
      BY <1>4, <3>3
    <3>5. N # 0 /\ N \in 1..N /\ Rank(chosen, i) <= N
      BY <1>4, <3>4
    <3>6. s <= st(N)
      BY <1>6, <3>3, <3>5
    <3>7. st(N) \in (base.step + 1)..n /\ lo = st(N)
      BY <1>5, <3>5
    <3> QED
      BY <1>1, <2>3, <3>1, <3>6, <3>7
  <2>4. lo \in 0..m /\ n \in lo..m
    <3> HIDE DEF lo
    <3> QED
      BY <1>1, <2>2
  <2>5. l[n + 1].graph = l[lo + 1].graph
    <3> HIDE DEF lo
    <3> QED
      BY <2>3, <2>4, GraphStays DEF m
  <2>6. deltas = <<>> <=> N = 0
    <3>1. deltas \in Seq(Records)
      <4>1. \A i \in chosen : NamesDelta(output_stream, i)
        BY <1>2 DEF NamesDelta
      <4> QED
        BY <1>2, <4>1, DeltasAtType DEF Recalls
    <3> HIDE DEF deltas
    <3> QED
      BY <1>4, <3>1, EmptySeq
  <2>7. CASE N = 0
    BY <2>5, <2>6, <2>7 DEF RestoredGraph
  <2>8. CASE N # 0
    <3>1. deltas[N] = Delta(l[st(N)].graph, l[st(N) + 1].graph)
      BY <1>5, <2>1, <2>8
    <3>2. deltas[N].final = l[lo + 1].graph
      BY <2>8, <3>1 DEF Delta
    <3> HIDE DEF deltas, lo
    <3> QED
      BY <1>4, <2>5, <2>6, <2>8, <3>2 DEF RestoredGraph
  <2> QED
    BY <2>7, <2>8
<1>9. Chain(base.payload, deltas)
  <2> HIDE DEF deltas
  <2> QED
    BY <1>4, <1>7 DEF Chain
<1> QED
  BY <1>8, <1>9 DEF chosen

\* The choices made up to a step.
ChoicesUpTo(s, n) ==
    {i \in DOMAIN s : s[i].kind = "step" /\ s[i].step <= n /\ s[i].was_choice}

\* What a replay computes is what was lived: the moment of the step, and the
\* cursors and choices up to it.
LEMMA ReplayRecalls ==
    ASSUME NEW l, Recalls(l), NEW n \in 0..(Len(l) - 1)
    PROVE  /\ Replay(n).applies
           /\ Restored(n) = l[n + 1]
           /\ Replay(n).graph = l[n + 1].graph
           /\ Replay(n).cursor_id = l[n + 1].cursor
           /\ Replay(n).call_stack_ids = l[n + 1].stack
           /\ Replay(n).history \in Seq(Nodes) /\ Len(Replay(n).history) = n + 1
           /\ \A k \in 1..(n + 1) : Replay(n).history[k] = l[k].cursor
           /\ Replay(n).choices = Cardinality(ChoicesUpTo(output_stream, n))
<1> DEFINE base    == output_stream[Latest(CheckpointsUpTo(n))]
           first   == output_stream[Earliest(CheckpointsUpTo(n))]
           steps   == StepsUpTo(n)
           deltas  == DeltasAt({i \in steps : IsReplayed(base, output_stream[i])})
           cursors == [k \in 1..Cardinality(steps) |->
                          output_stream[Ordered(steps)[k]].cursor_id]
           m == Len(l) - 1
<1>1. Len(l) \in Nat /\ n \in Nat /\ n \in 0..m /\ m \in Int /\ n + 1 \in 1..Len(l)
  BY MomentTypes DEF Recalls
<1>2. /\ base.step \in 0..n /\ base.payload = l[base.step + 1].graph
      /\ base.cursor_id = l[base.step + 1].cursor
      /\ base.call_stack_ids = l[base.step + 1].stack
      /\ first.cursor_id = l[1].cursor
  BY CheckpointPlaces
<1>3. Chain(base.payload, deltas) /\ RestoredGraph(base, deltas) = l[n + 1].graph
  <2> HIDE DEF base
  <2> QED
    BY <1>2, DeltasRestore
<1>4. /\ Cardinality(steps) = n
      /\ \A k \in 1..n : Ordered(steps)[k] \in steps /\ output_stream[Ordered(steps)[k]].step = k
      /\ n > 0 => Latest(steps) \in steps /\ output_stream[Latest(steps)].step = n
  BY StepCount, StepPlaces
<1>5. \A i \in steps : /\ i \in DOMAIN output_stream
                       /\ output_stream[i].cursor_id = l[output_stream[i].step + 1].cursor
                       /\ output_stream[i].call_stack_ids = l[output_stream[i].step + 1].stack
  BY DEF Recalls, Agrees, StepsAgree, StepsUpTo, PlacesUpTo
<1>6. /\ LandsAt(base, steps).cursor_id = l[n + 1].cursor
      /\ LandsAt(base, steps).call_stack_ids = l[n + 1].stack
  <2>1. CASE n = 0
    <3>1. steps = {}
      <4>1. IsFiniteSet(steps)
        BY StepCount, PlacesFinite DEF Recalls, Sortable
      <4> QED
        BY <1>4, <2>1, <4>1, FS_EmptySet
    <3>2. base.step = n
      BY <1>2, <2>1
    <3> HIDE DEF base, steps
    <3> QED
      BY <1>2, <3>1, <3>2 DEF LandsAt
  <2>2. CASE n # 0
    <3>1. Latest(steps) \in steps /\ output_stream[Latest(steps)].step = n
      BY <1>1, <1>4, <2>2
    <3>2. steps # {}
      BY <3>1
    <3>3. LandsAt(base, steps) = output_stream[Latest(steps)]
      BY <3>2 DEF LandsAt
    <3> HIDE DEF steps
    <3> QED
      BY <1>5, <3>1, <3>3
  <2> QED
    BY <2>1, <2>2
<1>7. \A k \in 1..n : cursors[k] = l[k + 1].cursor
  <2> HIDE DEF steps
  <2> QED
    BY <1>4, <1>5
<1>8. cursors \in Seq(Nodes) /\ Len(cursors) = n
  <2>1. \A k \in 1..n : k + 1 \in 1..Len(l)
    BY <1>1
  <2>2. \A k \in 1..n : cursors[k] \in Nodes
    BY <1>7, <2>1, MomentTypes DEF Recalls
  <2>3. cursors \in [1..n -> Nodes]
    <3> HIDE DEF steps
    <3> QED
      BY <1>4, <2>2
  <2> HIDE DEF cursors
  <2>4. cursors \in Seq(Nodes)
    BY <1>1, <2>3, SeqDef
  <2> QED
    BY <1>1, <2>3, <2>4, LenProperties
<1> DEFINE history == <<first.cursor_id>> \o cursors
<1>9. /\ history \in Seq(Nodes) /\ Len(history) = n + 1
      /\ \A k \in 1..(n + 1) : history[k] = l[k].cursor
  <2> DEFINE one == <<first.cursor_id>>
  <2>1. one \in Seq(Nodes) /\ Len(one) = 1 /\ one[1] = l[1].cursor
    <3>1. 1 \in 1..Len(l)
      BY <1>1
    <3>2. first.cursor_id \in Nodes
      BY <1>2, <3>1, MomentTypes DEF Recalls
    <3> HIDE DEF first
    <3> QED
      BY <1>2, <3>2
  <2> HIDE DEF cursors, one
  <2>2. /\ one \o cursors \in Seq(Nodes)
        /\ Len(one \o cursors) = 1 + n
        /\ \A k \in 1..(1 + n) : (one \o cursors)[k] =
              IF k <= 1 THEN one[k] ELSE cursors[k - 1]
    <3>1. /\ one \o cursors \in Seq(Nodes)
          /\ Len(one \o cursors) = Len(one) + Len(cursors)
          /\ \A k \in 1..(Len(one) + Len(cursors)) : (one \o cursors)[k] =
                IF k <= Len(one) THEN one[k] ELSE cursors[k - Len(one)]
      BY <1>8, <2>1, ConcatProperties
    <3> QED
      BY <1>8, <2>1, <3>1
  <2>3. \A k \in 1..(n + 1) : (one \o cursors)[k] = l[k].cursor
    <3> TAKE k \in 1..(n + 1)
    <3>1. CASE k = 1
      BY <1>1, <2>1, <2>2, <3>1
    <3>2. CASE k # 1
      <4>1. k - 1 \in 1..n /\ (k - 1) + 1 = k /\ ~(k <= 1) /\ k \in 1..(1 + n)
        BY <1>1, <3>2
      <4>2. (one \o cursors)[k] = cursors[k - 1]
        BY <2>2, <4>1
      <4>3. cursors[k - 1] = l[(k - 1) + 1].cursor
        BY <1>7, <4>1
      <4> QED
        BY <4>1, <4>2, <4>3
    <3> QED
      BY <3>1, <3>2
  <2> QED
    BY <1>1, <2>2, <2>3 DEF one
<1>10. {i \in steps : output_stream[i].was_choice} = ChoicesUpTo(output_stream, n)
  BY DEF ChoicesUpTo, StepsUpTo, PlacesUpTo
<1>11. Replay(n) = [applies |-> Chain(base.payload, deltas),
                    graph |-> RestoredGraph(base, deltas),
                    cursor_id |-> LandsAt(base, steps).cursor_id,
                    call_stack_ids |-> LandsAt(base, steps).call_stack_ids,
                    history |-> history,
                    choices |-> Cardinality({i \in steps : output_stream[i].was_choice})]
  BY DEF Replay
<1> HIDE DEF base, first, steps, deltas, cursors, history
<1>12. /\ Replay(n).graph = l[n + 1].graph
       /\ Replay(n).cursor_id = l[n + 1].cursor
       /\ Replay(n).call_stack_ids = l[n + 1].stack
       /\ Replay(n).applies
       /\ Replay(n).history = history
       /\ Replay(n).choices = Cardinality(ChoicesUpTo(output_stream, n))
  <2> DEFINE landing == LandsAt(base, steps)
             applies == Chain(base.payload, deltas)
             restored == RestoredGraph(base, deltas)
             choices == {i \in steps : output_stream[i].was_choice}
  <2>1. /\ applies /\ restored = l[n + 1].graph
        /\ landing.cursor_id = l[n + 1].cursor
        /\ landing.call_stack_ids = l[n + 1].stack
        /\ choices = ChoicesUpTo(output_stream, n)
    BY <1>3, <1>6, <1>10
  <2>2. Replay(n) = [applies |-> applies, graph |-> restored,
                     cursor_id |-> landing.cursor_id,
                     call_stack_ids |-> landing.call_stack_ids,
                     history |-> history, choices |-> Cardinality(choices)]
    BY <1>11
  <2> HIDE DEF landing, applies, restored, choices
  <2>3. Replay(n).applies = applies
    BY <2>2
  <2>4. Replay(n).applies
    BY <2>1, <2>3
  <2> QED
    BY <2>1, <2>2, <2>4
<1>13. Restored(n) = l[n + 1]
  <2>1. ContentOf(output_stream, n) = l[n + 1].content
    BY <1>1 DEF Recalls, Agrees, ContentAgrees, m
  <2>2. l[n + 1] \in Moments
    BY <1>1, MomentTypes DEF Recalls
  <2> QED
    BY <1>12, <2>1, <2>2 DEF Restored, MomentAt, Moments, StoredGraphs
<1> QED
  BY <1>9, <1>12, <1>13

-----------------------------------------------------------------------------
(* How an agreeing stream grows and is cut.                                *)

\* The places of a stream with one record more.
LEMMA AppendedPlaces ==
    ASSUME NEW s \in Seq(Records), NEW r \in Records
    PROVE  LET t == Append(s, r)
               new == Len(s) + 1
           IN  /\ t \in Seq(Records) /\ DOMAIN t = DOMAIN s \cup {new}
               /\ new \notin DOMAIN s /\ t[new] = r
               /\ \A i \in DOMAIN s : t[i] = s[i] /\ i \in Nat /\ s[i] \in Records
<1> DEFINE t == Append(s, r)
           n == Len(s)
<1>1. /\ t \in Seq(Records) /\ Len(t) = n + 1
      /\ \A i \in 1..n : t[i] = s[i]
      /\ t[n + 1] = r
  BY AppendProperties
<1>2. n \in Nat /\ DOMAIN s = 1..n /\ DOMAIN t = 1..(n + 1)
  BY <1>1, LenProperties
<1>3. \A i \in 1..n : s[i] \in Records
  BY ElementOfSeq
<1> HIDE DEF t, n
<1>4. DOMAIN t = DOMAIN s \cup {n + 1} /\ n + 1 \notin DOMAIN s
  BY <1>2
<1> QED
  BY <1>1, <1>2, <1>3, <1>4 DEF t, n

\* The delta a step record names is in the stream.
LEMMA NamedDelta ==
    ASSUME NEW s \in Seq(Records), StreamOK(s),
           NEW i \in DOMAIN s, s[i].kind = "step", s[i].delta_id # 0
    PROVE  s[i].delta_id \in DOMAIN s /\ s[i].delta_id < i
<1>1. DOMAIN s = 1..Len(s) /\ Len(s) \in Nat /\ s[i] \in Records
  BY LenProperties, ElementOfSeq
<1>2. s[i].delta_id \in Nat
  BY <1>1, RecordTypes
<1>3. s[i].delta_id < i
  BY DEF StreamOK, NamesDelta
<1> QED
  BY <1>1, <1>2, <1>3

\* A record that is neither a step nor journal of a step lived may be appended;
\* a checkpoint must be that of a moment lived.
LEMMA AppendAgrees ==
    ASSUME NEW s \in Seq(Records), StreamOK(s), NEW l \in Seq(Moments), Agrees(s, l),
           NEW r \in Records, r.kind # "step",
           IsJournal(r) => r.step \notin 0..(Len(l) - 1),
           r.kind = "checkpoint" =>
              /\ r.step \in 0..(Len(l) - 1)
              /\ r.payload = l[r.step + 1].graph
              /\ r.cursor_id = l[r.step + 1].cursor
              /\ r.call_stack_ids = l[r.step + 1].stack
    PROVE  Agrees(Append(s, r), l)
<1> DEFINE t == Append(s, r)
           new == Len(s) + 1
<1>1. /\ t \in Seq(Records) /\ DOMAIN t = DOMAIN s \cup {new}
      /\ new \notin DOMAIN s /\ t[new] = r
      /\ \A i \in DOMAIN s : t[i] = s[i]
  BY AppendedPlaces
<1>2. ContentAgrees(t, l)
  <2>1. ASSUME NEW n \in 0..(Len(l) - 1) PROVE ContentOf(t, n) = ContentOf(s, n)
    BY ContentStays
  <2> QED
    BY <2>1 DEF Agrees, ContentAgrees
<1> HIDE DEF t, new
<1>3. \A i \in DOMAIN t : t[i].kind = "step" => i \in DOMAIN s
  BY <1>1
<1>4. StepsAgree(t, l)
  <2>1. \A i \in DOMAIN s : s[i].kind = "step" =>
            /\ s[i].step \in 1..(Len(l) - 1)
            /\ s[i].cursor_id = l[s[i].step + 1].cursor
            /\ s[i].call_stack_ids = l[s[i].step + 1].stack
    BY DEF Agrees, StepsAgree
  <2>2. \A n \in 1..(Len(l) - 1) : \E i \in DOMAIN s : s[i].kind = "step" /\ s[i].step = n
    BY DEF Agrees, StepsAgree
  <2>3. \A n \in 1..(Len(l) - 1) : \E i \in DOMAIN t : t[i].kind = "step" /\ t[i].step = n
    BY <1>1, <2>2
  <2>4. \A i, j \in DOMAIN s :
            s[i].kind = "step" /\ s[j].kind = "step" /\ s[i].step = s[j].step => i = j
    BY DEF Agrees, StepsAgree
  <2>5. \A i, j \in DOMAIN t :
            t[i].kind = "step" /\ t[j].kind = "step" /\ t[i].step = t[j].step => i = j
    BY <1>1, <1>3, <2>4
  <2>6. \A i \in DOMAIN t : t[i].kind = "step" =>
            /\ t[i].step \in 1..(Len(l) - 1)
            /\ t[i].cursor_id = l[t[i].step + 1].cursor
            /\ t[i].call_stack_ids = l[t[i].step + 1].stack
    BY <1>1, <1>3, <2>1
  <2> QED
    BY <2>3, <2>5, <2>6 DEF StepsAgree
<1>5. DeltasAgree(t, l)
  <2> SUFFICES ASSUME NEW i \in DOMAIN s, s[i].kind = "step"
               PROVE  LET before == l[s[i].step].graph
                          after  == l[s[i].step + 1].graph
                      IN  /\ s[i].delta_id = 0 => after = before
                          /\ s[i].delta_id # 0 =>
                                /\ t[s[i].delta_id] = Delta(before, after)
                                /\ Patched(before.built, after.built) = after.built
    BY <1>1, <1>3 DEF DeltasAgree
  <2>1. s[i].delta_id # 0 => t[s[i].delta_id] = s[s[i].delta_id]
    BY <1>1, NamedDelta
  <2> QED
    BY <2>1 DEF Agrees, DeltasAgree
<1>6. CheckpointsAgree(t, l)
  BY <1>1 DEF Agrees, CheckpointsAgree
<1> QED
  BY <1>2, <1>4, <1>5, <1>6 DEF Agrees, t

\* The step record of a hop, and the moment in which the hop ends.
LEMMA HopAgrees ==
    ASSUME NEW s \in Seq(Records), StreamOK(s), NEW l \in Seq(Moments), Agrees(s, l),
           Len(l) > 0, NEW m \in Moments, NEW r \in Records,
           r.kind = "step", r.step = Len(l),
           r.cursor_id = m.cursor, r.call_stack_ids = m.stack,
           r.delta_id = 0 => m.graph = l[Len(l)].graph,
           r.delta_id # 0 =>
              /\ r.delta_id \in DOMAIN s
              /\ s[r.delta_id] = Delta(l[Len(l)].graph, m.graph)
              /\ Patched(l[Len(l)].graph.built, m.graph.built) = m.graph.built,
           m.content = ContentOf(Append(s, r), Len(l))
    PROVE  Agrees(Append(s, r), Append(l, m))
<1> DEFINE t == Append(s, r)
           q == Append(l, m)
           new == Len(s) + 1
           n == Len(l)
<1>1. /\ t \in Seq(Records) /\ DOMAIN t = DOMAIN s \cup {new}
      /\ new \notin DOMAIN s /\ t[new] = r
      /\ \A i \in DOMAIN s : t[i] = s[i]
  BY AppendedPlaces
<1>2. /\ n \in Nat /\ n > 0 /\ Len(q) = n + 1 /\ q[n + 1] = m
      /\ \A k \in 1..n : q[k] = l[k]
      /\ \A k \in 0..(n - 1) : q[k + 1] = l[k + 1]
  BY OneMoreMoment, MomentTypes
<1>3. ContentAgrees(t, q)
  <2>1. ASSUME NEW k \in 0..(n - 1) PROVE ContentOf(t, k) = ContentOf(s, k)
    BY ContentStays DEF IsJournal
  <2>2. \A k \in 0..n : k = n \/ k \in 0..(n - 1)
    BY <1>2
  <2>3. \A k \in 0..(n - 1) : ContentOf(t, k) = l[k + 1].content
    BY <2>1 DEF Agrees, ContentAgrees
  <2>4. ContentOf(t, n) = q[n + 1].content
    BY <1>2
  <2> HIDE DEF t, q, n
  <2>5. \A k \in 0..n : ContentOf(t, k) = q[k + 1].content
    BY <1>2, <2>2, <2>3, <2>4
  <2>6. Len(q) - 1 = n
    BY <1>2
  <2> QED
    BY <2>5, <2>6 DEF ContentAgrees
<1>4. \A i \in DOMAIN s : s[i].kind = "step" =>
          s[i].step \in 1..(n - 1) /\ s[i].step \in 1..n /\ s[i].step + 1 \in 1..n
  <2>1. \A i \in DOMAIN s : s[i].kind = "step" => s[i].step \in 1..(n - 1)
    BY DEF Agrees, StepsAgree
  <2> HIDE DEF n
  <2> QED
    BY <1>2, <2>1
<1> USE DEF n
<1>5. r.kind = "step" /\ r.step = n /\ Len(q) - 1 = n
  BY <1>2
<1> HIDE DEF t, q, new, n
<1>6. StepsAgree(t, q)
  <2>1. ASSUME NEW i \in DOMAIN t, t[i].kind = "step"
        PROVE  /\ t[i].step \in 1..n
               /\ t[i].cursor_id = q[t[i].step + 1].cursor
               /\ t[i].call_stack_ids = q[t[i].step + 1].stack
    <3>1. CASE i = new
      BY <1>1, <1>2, <1>5, <3>1
    <3>2. CASE i \in DOMAIN s
      <4>1. t[i] = s[i] /\ s[i].kind = "step"
        BY <1>1, <2>1, <3>2
      <4>2. s[i].cursor_id = l[s[i].step + 1].cursor
            /\ s[i].call_stack_ids = l[s[i].step + 1].stack
        BY <3>2, <4>1 DEF Agrees, StepsAgree
      <4>3. s[i].step \in 1..n /\ q[s[i].step + 1] = l[s[i].step + 1]
        BY <1>2, <1>4, <3>2, <4>1
      <4> QED
        BY <4>1, <4>2, <4>3
    <3> QED
      BY <1>1, <3>1, <3>2
  <2>2. ASSUME NEW k \in 1..n
        PROVE  \E i \in DOMAIN t : t[i].kind = "step" /\ t[i].step = k
    <3>1. CASE k = n
      BY <1>1, <1>5, <3>1
    <3>2. CASE k \in 1..(n - 1)
      <4>1. \A j \in 1..(n - 1) : \E i \in DOMAIN s : s[i].kind = "step" /\ s[i].step = j
        BY DEF Agrees, StepsAgree, n
      <4>2. PICK i \in DOMAIN s : s[i].kind = "step" /\ s[i].step = k
        BY <3>2, <4>1
      <4> QED
        BY <1>1, <4>2
    <3> QED
      BY <1>2, <3>1, <3>2
  <2>3. ASSUME NEW i \in DOMAIN t, NEW j \in DOMAIN t,
               t[i].kind = "step", t[j].kind = "step", t[i].step = t[j].step
        PROVE  i = j
    <3>1. CASE i \in DOMAIN s /\ j \in DOMAIN s
      BY <1>1, <2>3, <3>1 DEF Agrees, StepsAgree
    <3>2. CASE i = new /\ j = new
      BY <3>2
    <3>3. \A k \in DOMAIN s : t[k].kind = "step" => t[k].step # t[new].step
      <4>1. n \notin 1..(n - 1)
        BY <1>2
      <4> QED
        BY <1>1, <1>4, <1>5, <4>1
    <3> QED
      BY <1>1, <2>3, <3>1, <3>2, <3>3
  <2> QED
    BY <1>5, <2>1, <2>2, <2>3 DEF StepsAgree
<1>7. DeltasAgree(t, q)
  <2> SUFFICES ASSUME NEW i \in DOMAIN t, t[i].kind = "step"
               PROVE  LET before == q[t[i].step].graph
                          after  == q[t[i].step + 1].graph
                      IN  /\ t[i].delta_id = 0 => after = before
                          /\ t[i].delta_id # 0 =>
                                /\ t[t[i].delta_id] = Delta(before, after)
                                /\ Patched(before.built, after.built) = after.built
    BY DEF DeltasAgree
  <2>1. CASE i = new
    <3>1. /\ t[i] = r /\ q[t[i].step + 1] = m /\ q[t[i].step] = l[n]
      BY <1>1, <1>2, <1>5, <2>1
    <3>2. r.delta_id # 0 => t[r.delta_id] = s[r.delta_id]
      BY <1>1
    <3> QED
      BY <3>1, <3>2 DEF n
  <2>2. CASE i \in DOMAIN s
    <3>1. t[i] = s[i] /\ s[i].kind = "step"
      BY <1>1, <2>2
    <3>2. q[s[i].step] = l[s[i].step] /\ q[s[i].step + 1] = l[s[i].step + 1]
      BY <1>2, <1>4, <2>2, <3>1
    <3>3. s[i].delta_id # 0 => t[s[i].delta_id] = s[s[i].delta_id]
      BY <1>1, <2>2, <3>1, NamedDelta
    <3> QED
      BY <2>2, <3>1, <3>2, <3>3 DEF Agrees, DeltasAgree
  <2> QED
    BY <1>1, <2>1, <2>2
<1>8. CheckpointsAgree(t, q)
  <2> SUFFICES ASSUME NEW i \in DOMAIN s, s[i].kind = "checkpoint"
               PROVE  /\ s[i].step \in 0..n
                      /\ s[i].payload = q[s[i].step + 1].graph
                      /\ s[i].cursor_id = q[s[i].step + 1].cursor
                      /\ s[i].call_stack_ids = q[s[i].step + 1].stack
    BY <1>1, <1>5 DEF CheckpointsAgree
  <2>1. s[i].step \in 0..(n - 1)
    BY DEF Agrees, CheckpointsAgree, n
  <2>2. q[s[i].step + 1] = l[s[i].step + 1] /\ s[i].step \in 0..n
    BY <1>2, <2>1
  <2> QED
    BY <2>2 DEF Agrees, CheckpointsAgree
<1> QED
  BY <1>3, <1>6, <1>7, <1>8 DEF Agrees, t, q

\* A stream cut off at a step agrees with the moments up to it.
LEMMA CutAgrees ==
    ASSUME NEW s \in Seq(Records), StreamOK(s), NEW l \in Seq(Moments), Agrees(s, l),
           NEW n \in 0..(Len(l) - 1), NEW c \in 1..Len(s),
           \A i \in DOMAIN s : HasStep(s[i]) => (s[i].step <= n <=> i <= c)
    PROVE  Agrees(SubSeq(s, 1, c), SubSeq(l, 1, n + 1))
<1> DEFINE t == SubSeq(s, 1, c)
           q == SubSeq(l, 1, n + 1)
           m == Len(l)
<1>1. /\ Len(s) \in Nat /\ DOMAIN s = 1..Len(s)
      /\ \A i \in 1..Len(s) : s[i] \in Records
  BY LenProperties, ElementOfSeq
<1>2. /\ t \in Seq(Records) /\ Len(t) = c
      /\ \A i \in 1..c : t[i] = s[i]
  <2>1. c \in Nat /\ \A i \in 1..c : s[i] \in Records
    BY <1>1
  <2> QED
    BY <2>1, SubSeqProperties
<1>3. DOMAIN t = 1..c /\ \A i \in 1..c : i \in DOMAIN s
  BY <1>1, <1>2, LenProperties
<1>4. /\ m \in Nat /\ n \in Nat /\ n + 1 \in 1..m /\ n \in 0..(m - 1)
  BY MomentTypes
<1>5. /\ Len(q) = n + 1 /\ \A k \in 1..(n + 1) : q[k] = l[k]
  BY <1>4, FirstMoments
<1>6. \A k \in 0..n : k + 1 \in 1..(n + 1) /\ k \in 0..(m - 1)
  <2> HIDE DEF m
  <2> QED
    BY <1>4
<1>7. ContentAgrees(t, q)
  <2>1. ASSUME NEW k \in 0..n
        PROVE  ContentOf(t, k) = q[k + 1].content
    <3>1. k \in Nat /\ k <= n
      BY <1>4
    <3>2. ASSUME NEW i \in DOMAIN s, IsJournal(s[i]), s[i].step = k
          PROVE  i <= c
      BY <3>1, <3>2 DEF IsJournal, HasStep
    <3>3. ContentOf(t, k) = ContentOf(s, k)
      BY <3>1, <3>2, ContentKept
    <3>4. ContentOf(s, k) = l[k + 1].content
      BY <1>6 DEF Agrees, ContentAgrees
    <3> QED
      BY <1>5, <1>6, <3>3, <3>4
  <2> HIDE DEF t, q
  <2>2. Len(q) - 1 = n
    BY <1>4, <1>5
  <2> QED
    BY <2>1, <2>2 DEF ContentAgrees
<1>8. \A i \in 1..c : HasStep(s[i]) => s[i].step <= n
  BY <1>3
<1> HIDE DEF t, q, m
<1>9. Len(q) - 1 = n
  BY <1>4, <1>5
<1>10. \A i \in 1..c : s[i].kind = "step" =>
          /\ s[i].step \in 1..n
          /\ q[s[i].step] = l[s[i].step] /\ q[s[i].step + 1] = l[s[i].step + 1]
  <2> TAKE i \in 1..c
  <2> SUFFICES ASSUME s[i].kind = "step"
               PROVE  /\ s[i].step \in 1..n
                      /\ q[s[i].step] = l[s[i].step] /\ q[s[i].step + 1] = l[s[i].step + 1]
    OBVIOUS
  <2>1. s[i].step \in 1..(m - 1)
    BY <1>3 DEF Agrees, StepsAgree, m
  <2>2. s[i].step <= n
    BY <1>8 DEF HasStep
  <2>3. s[i].step \in 1..n /\ s[i].step \in 1..(n + 1) /\ s[i].step + 1 \in 1..(n + 1)
    BY <1>4, <2>1, <2>2
  <2> QED
    BY <1>5, <2>3
<1>11. StepsAgree(t, q)
  <2>1. ASSUME NEW k \in 1..n
        PROVE  \E i \in DOMAIN t : t[i].kind = "step" /\ t[i].step = k
    <3>1. k \in 1..(m - 1)
      BY <1>4
    <3>2. PICK i \in DOMAIN s : s[i].kind = "step" /\ s[i].step = k
      BY <3>1 DEF Agrees, StepsAgree, m
    <3>3. i <= c
      BY <3>2 DEF HasStep
    <3>4. i \in 1..c
      BY <1>1, <3>3
    <3> QED
      BY <1>2, <1>3, <3>2, <3>4
  <2>2. \A i \in 1..c : s[i].kind = "step" =>
            /\ s[i].cursor_id = l[s[i].step + 1].cursor
            /\ s[i].call_stack_ids = l[s[i].step + 1].stack
    BY <1>3 DEF Agrees, StepsAgree
  <2>3. \A i, j \in 1..c : s[i].kind = "step" /\ s[j].kind = "step"
                            /\ s[i].step = s[j].step => i = j
    BY <1>3 DEF Agrees, StepsAgree
  <2>4. \A i \in DOMAIN t : t[i].kind = "step" =>
            /\ t[i].step \in 1..n
            /\ t[i].cursor_id = q[t[i].step + 1].cursor
            /\ t[i].call_stack_ids = q[t[i].step + 1].stack
    BY <1>2, <1>3, <1>10, <2>2
  <2>5. \A i, j \in DOMAIN t : t[i].kind = "step" /\ t[j].kind = "step"
                                /\ t[i].step = t[j].step => i = j
    BY <1>2, <1>3, <2>3
  <2> QED
    BY <1>9, <2>1, <2>4, <2>5 DEF StepsAgree
<1>12. DeltasAgree(t, q)
  <2> SUFFICES ASSUME NEW i \in 1..c, s[i].kind = "step"
               PROVE  LET before == l[s[i].step].graph
                          after  == l[s[i].step + 1].graph
                      IN  /\ s[i].delta_id = 0 => after = before
                          /\ s[i].delta_id # 0 =>
                                /\ t[s[i].delta_id] = Delta(before, after)
                                /\ Patched(before.built, after.built) = after.built
    <3>1. \A i \in DOMAIN t : t[i].kind = "step" =>
              /\ i \in 1..c /\ t[i] = s[i]
              /\ q[t[i].step] = l[s[i].step] /\ q[t[i].step + 1] = l[s[i].step + 1]
      BY <1>2, <1>3, <1>10
    <3> QED
      BY SMTT(30), <3>1 DEF DeltasAgree
  <2>1. s[i].delta_id # 0 => t[s[i].delta_id] = s[s[i].delta_id]
    <3> SUFFICES ASSUME s[i].delta_id # 0 PROVE t[s[i].delta_id] = s[s[i].delta_id]
      OBVIOUS
    <3>1. s[i].delta_id \in DOMAIN s /\ s[i].delta_id < i
      BY <1>3, NamedDelta
    <3>2. s[i].delta_id \in 1..c
      BY <1>1, <3>1
    <3> QED
      BY <1>2, <3>2
  <2> QED
    BY <1>3, <2>1 DEF Agrees, DeltasAgree
<1>13. CheckpointsAgree(t, q)
  <2> SUFFICES ASSUME NEW i \in 1..c, s[i].kind = "checkpoint"
               PROVE  /\ s[i].step \in 0..n
                      /\ s[i].payload = q[s[i].step + 1].graph
                      /\ s[i].cursor_id = q[s[i].step + 1].cursor
                      /\ s[i].call_stack_ids = q[s[i].step + 1].stack
    BY <1>2, <1>3, <1>9 DEF CheckpointsAgree
  <2>1. s[i].step \in 0..(m - 1)
    BY <1>3 DEF Agrees, CheckpointsAgree, m
  <2>2. s[i].step <= n
    BY <1>8 DEF HasStep
  <2>3. s[i].step \in 0..n
    BY <1>4, <2>1, <2>2
  <2>4. q[s[i].step + 1] = l[s[i].step + 1]
    BY <1>5, <1>6, <2>3
  <2> QED
    BY <1>3, <2>3, <2>4 DEF Agrees, CheckpointsAgree
<1> QED
  BY <1>7, <1>11, <1>12, <1>13 DEF Agrees, t, q

-----------------------------------------------------------------------------
(* The counters.                                                           *)

\* The choices up to a step are those of its step records: another record adds
\* none.
LEMMA ChoicesStay ==
    ASSUME NEW s \in Seq(Records), NEW r \in Records, NEW n \in Nat,
           r.kind = "step" => ~ (r.step <= n)
    PROVE  ChoicesUpTo(Append(s, r), n) = ChoicesUpTo(s, n)
<1> DEFINE t == Append(s, r)
           new == Len(s) + 1
<1>1. /\ DOMAIN t = DOMAIN s \cup {new} /\ new \notin DOMAIN s /\ t[new] = r
      /\ \A i \in DOMAIN s : t[i] = s[i]
  BY AppendedPlaces
<1> HIDE DEF t, new
<1>2. ChoicesUpTo(t, n) = ChoicesUpTo(s, n)
  BY <1>1 DEF ChoicesUpTo
<1> QED
  BY <1>2 DEF t

\* Cutting the stream off at the step takes none of them away.
LEMMA ChoicesKept ==
    ASSUME NEW s \in Seq(Records), NEW n \in Nat, NEW c \in 1..Len(s),
           \A i \in DOMAIN s : HasStep(s[i]) => (s[i].step <= n <=> i <= c)
    PROVE  ChoicesUpTo(SubSeq(s, 1, c), n) = ChoicesUpTo(s, n)
<1> DEFINE t == SubSeq(s, 1, c)
<1>1. /\ Len(s) \in Nat /\ DOMAIN s = 1..Len(s) /\ c \in Nat
      /\ \A i \in 1..c : s[i] \in Records
  BY LenProperties, ElementOfSeq
<1>2. t \in Seq(Records) /\ Len(t) = c /\ \A i \in 1..c : t[i] = s[i]
  BY <1>1, SubSeqProperties
<1>3. DOMAIN t = 1..c /\ \A i \in 1..c : i \in DOMAIN s
  BY <1>1, <1>2, LenProperties
<1>4. \A i \in DOMAIN s : s[i].kind = "step" /\ s[i].step <= n => i \in 1..c
  BY <1>1 DEF HasStep
<1> HIDE DEF t
<1>5. ChoicesUpTo(t, n) = ChoicesUpTo(s, n)
  BY <1>2, <1>3, <1>4 DEF ChoicesUpTo
<1> QED
  BY <1>5 DEF t

\* The choices are a finite set of places.
LEMMA ChoicesFinite ==
    ASSUME NEW s \in Seq(Records), NEW n
    PROVE  IsFiniteSet(ChoicesUpTo(s, n)) /\ Cardinality(ChoicesUpTo(s, n)) \in Nat
<1>1. ChoicesUpTo(s, n) \in SUBSET DOMAIN s
  BY DEF ChoicesUpTo
<1> QED
  BY <1>1, PlacesFinite, FS_CardinalityType

\* The hops of one choice add one to the choices: the first of them.
LEMMA OneMoreChoice ==
    ASSUME NEW s \in Seq(Records), NEW l \in Seq(Moments), StepsAgree(s, l),
           NEW n \in Nat, n < Len(l) - 1,
           \A i \in DOMAIN s : s[i].kind = "step" /\ s[i].step > n =>
                                  (s[i].was_choice <=> s[i].step = n + 1)
    PROVE  Cardinality(ChoicesUpTo(s, Len(l) - 1)) = Cardinality(ChoicesUpTo(s, n)) + 1
<1> DEFINE m == Len(l) - 1
<1>1. m \in Nat /\ n < m
  BY MomentTypes
<1>2. n + 1 \in 1..m
  BY <1>1
<1>3. PICK p \in DOMAIN s : s[p].kind = "step" /\ s[p].step = n + 1
  BY <1>2 DEF StepsAgree
<1>4. \A i \in DOMAIN s : s[i].kind = "step" => s[i].step \in 1..m
  BY DEF StepsAgree
<1>5. \A i \in DOMAIN s : s[i].kind = "step" /\ s[i].step = n + 1 => i = p
  BY <1>3 DEF StepsAgree
<1> HIDE DEF m
<1>6. s[p].was_choice /\ p \notin ChoicesUpTo(s, n) /\ p \in ChoicesUpTo(s, m)
  BY <1>1, <1>3 DEF ChoicesUpTo
<1>7. ChoicesUpTo(s, m) = ChoicesUpTo(s, n) \cup {p}
  <2>1. ASSUME NEW i \in ChoicesUpTo(s, m), i \notin ChoicesUpTo(s, n) PROVE i = p
    <3>1. i \in DOMAIN s /\ s[i].kind = "step" /\ s[i].was_choice /\ ~(s[i].step <= n)
      BY <2>1 DEF ChoicesUpTo
    <3>2. s[i].step \in 1..m
      BY <1>4, <3>1
    <3>3. s[i].step > n
      BY <3>1, <3>2
    <3> QED
      BY <1>5, <3>1, <3>3
  <2>2. ASSUME NEW i \in ChoicesUpTo(s, n) PROVE i \in ChoicesUpTo(s, m)
    <3>1. i \in DOMAIN s /\ s[i].kind = "step" /\ s[i].was_choice
      BY DEF ChoicesUpTo
    <3>2. s[i].step \in 1..m
      BY <1>4, <3>1
    <3>3. s[i].step <= m
      BY <1>1, <3>2
    <3> QED
      BY <3>1, <3>3 DEF ChoicesUpTo
  <2> QED
    BY <1>6, <2>1, <2>2
<1>8. Cardinality(ChoicesUpTo(s, m)) = Cardinality(ChoicesUpTo(s, n)) + 1
  <2> DEFINE C == ChoicesUpTo(s, n)
  <2>1. IsFiniteSet(C) /\ p \notin C /\ ChoicesUpTo(s, m) = C \cup {p}
    BY <1>6, <1>7, ChoicesFinite
  <2> HIDE DEF C
  <2>2. Cardinality(C \cup {p}) = Cardinality(C) + 1
    BY <2>1, FS_AddElement
  <2> QED
    BY <2>1, <2>2 DEF C
<1> QED
  BY <1>8 DEF m

\* The re-entries among b cursors of a history, after the first a of them.
Again(h, a, b) == {i \in (a + 1)..(a + b) : h[i] = h[i - 1]}

\* Counted along the trace, they are those at its places in the whole.
LEMMA ReentriesInPlace ==
    ASSUME NEW h \in Seq(Nodes), NEW trace \in Seq(Nodes), NEW a \in Nat, a > 0,
           a + Len(trace) = Len(h),
           \A i \in 1..Len(trace) : trace[i] = h[a + i]
    PROVE  Reentries(h[a], trace) = Cardinality(Again(h, a, Len(trace)))
<1> DEFINE b == Len(trace)
           there == {i \in 1..b : trace[i] = IF i = 1 THEN h[a] ELSE trace[i - 1]}
           here == Again(h, a, b)
           shift == [i \in there |-> a + i]
<1>1. b \in Nat
  BY LenProperties
<1> HIDE DEF b
<1>2. ASSUME NEW i \in 1..b
      PROVE  /\ i \in there <=> a + i \in here
             /\ a + i \in (a + 1)..(a + b)
  <2>1. a + i \in (a + 1)..(a + b)
    BY <1>1
  <2>2. trace[i] = h[a + i]
    BY DEF b
  <2>3. (IF i = 1 THEN h[a] ELSE trace[i - 1]) = h[(a + i) - 1]
    <3>1. CASE i = 1
      <4>1. (a + i) - 1 = a
        BY <3>1
      <4> QED
        BY <3>1, <4>1
    <3>2. CASE i # 1
      <4>1. i - 1 \in 1..b /\ a + (i - 1) = (a + i) - 1
        BY <1>1, <3>2
      <4>2. trace[i - 1] = h[a + (i - 1)]
        BY <4>1 DEF b
      <4> QED
        BY <3>2, <4>1, <4>2
    <3> QED
      BY <3>1, <3>2
  <2> QED
    BY <2>1, <2>2, <2>3 DEF Again
<1>3. shift \in Bijection(there, here)
  <2>1. \A i \in there : i \in 1..b /\ a + i \in here
    BY <1>2
  <2>2. \A j \in here : \E i \in there : a + i = j
    <3> TAKE j \in here
    <3>1. j \in (a + 1)..(a + b)
      BY DEF Again
    <3>2. j - a \in 1..b /\ a + (j - a) = j
      BY <1>1, <3>1
    <3>3. j - a \in there
      BY <1>2, <3>2
    <3> QED
      BY <3>2, <3>3
  <2>3. \A i, j \in there : a + i = a + j => i = j
    BY <2>1
  <2> HIDE DEF there, here
  <2> QED
    BY <2>1, <2>2, <2>3 DEF Bijection, Injection, Surjection, IsInjective
<1>4. IsFiniteSet(there)
  <2>1. IsFiniteSet(1..b)
    BY <1>1, FS_Interval
  <2> QED
    BY <2>1, FS_Subset, there \in SUBSET (1..b)
<1>5. Cardinality(here) = Cardinality(there)
  <2> HIDE DEF there, here
  <2> QED
    BY <1>3, <1>4, FS_Bijection DEF ExistsBijection
<1> QED
  BY <1>5 DEF Reentries, b

\* Re-entries add up when a trace is added to a history.
LEMMA ReentriesAdd ==
    ASSUME NEW h \in Seq(Nodes), h # <<>>, NEW trace \in Seq(Nodes)
    PROVE  Reentries((h \o trace)[1], Tail(h \o trace))
              = Reentries(h[1], Tail(h)) + Reentries(h[Len(h)], trace)
<1> DEFINE f == h \o trace
           a == Len(h)
           b == Len(trace)
<1>1. /\ f \in Seq(Nodes) /\ Len(f) = a + b
      /\ \A i \in 1..(a + b) : f[i] = IF i <= a THEN h[i] ELSE trace[i - a]
  BY ConcatProperties
<1>2. a \in Nat /\ a > 0 /\ b \in Nat /\ 1 \in Nat
  <2>1. a \in Nat /\ b \in Nat /\ a # 0
    BY LenProperties, EmptySeq
  <2> HIDE DEF a, b
  <2> QED
    BY <2>1
<1>3. f # <<>>
  BY <1>1, <1>2, ConcatEqualIffEmpty
<1>4. /\ Tail(f) \in Seq(Nodes) /\ Len(Tail(f)) = Len(f) - 1
      /\ \A i \in 1..Len(Tail(f)) : Tail(f)[i] = f[i + 1]
      /\ Tail(h) \in Seq(Nodes) /\ Len(Tail(h)) = a - 1
      /\ \A i \in 1..Len(Tail(h)) : Tail(h)[i] = h[i + 1]
  <2> HIDE DEF f
  <2> QED
    BY <1>1, <1>3, HeadTailProperties
<1> HIDE DEF f, a, b
<1>5. Reentries(f[1], Tail(f)) = Cardinality(Again(f, 1, a + b - 1))
  <2> DEFINE q == Tail(f)
  <2>1. Len(q) = a + b - 1 /\ 1 + Len(q) = Len(f)
    BY <1>1, <1>2, <1>4
  <2>2. \A i \in 1..Len(q) : q[i] = f[1 + i]
    <3>1. \A i \in 1..(a + b - 1) : i + 1 = 1 + i
      BY <1>2
    <3> QED
      BY <1>4, <2>1, <3>1
  <2>3. q \in Seq(Nodes)
    BY <1>4
  <2> DEFINE k == 1
  <2>4. k \in Nat /\ k > 0 /\ k + Len(q) = Len(f) /\ \A i \in 1..Len(q) : q[i] = f[k + i]
    BY <2>1, <2>2
  <2> HIDE DEF q, k
  <2>5. Reentries(f[k], q) = Cardinality(Again(f, k, Len(q)))
    BY <1>1, <2>3, <2>4, ReentriesInPlace
  <2> QED
    BY <2>1, <2>5 DEF q, k
<1>6. Reentries(h[1], Tail(h)) = Cardinality(Again(f, 1, a - 1))
  <2> DEFINE q == Tail(h)
  <2>1. Len(q) = a - 1 /\ 1 + Len(q) = Len(h)
    BY <1>2, <1>4 DEF a
  <2>2. \A i \in 1..Len(q) : q[i] = h[1 + i]
    <3>1. \A i \in 1..(a - 1) : i + 1 = 1 + i
      BY <1>2
    <3> QED
      BY <1>4, <2>1, <3>1
  <2>3. q \in Seq(Nodes)
    BY <1>4
  <2> DEFINE k == 1
  <2>4. k \in Nat /\ k > 0 /\ k + Len(q) = Len(h) /\ \A i \in 1..Len(q) : q[i] = h[k + i]
    BY <2>1, <2>2
  <2> HIDE DEF q, k
  <2>5. Reentries(h[k], q) = Cardinality(Again(h, k, Len(q)))
    BY <1>1, <2>3, <2>4, ReentriesInPlace
  <2>6. Again(h, 1, a - 1) = Again(f, 1, a - 1)
    <3>1. \A i \in (1 + 1)..(1 + (a - 1)) : f[i] = h[i] /\ f[i - 1] = h[i - 1]
      BY <1>1, <1>2
    <3> QED
      BY <3>1 DEF Again
  <2> QED
    BY <2>1, <2>5, <2>6 DEF q, k
<1>7. Reentries(h[a], trace) = Cardinality(Again(f, a, b))
  <2>1. f[a] = h[a]
    BY <1>1, <1>2
  <2>2. \A i \in 1..b : trace[i] = f[a + i]
    <3> TAKE i \in 1..b
    <3>1. a + i \in 1..(a + b) /\ ~(a + i <= a) /\ (a + i) - a = i
      BY <1>2
    <3> QED
      BY <1>1, <3>1
  <2>3. \A i \in 1..Len(trace) : trace[i] = f[a + i]
    BY <2>2 DEF b
  <2>4. a + Len(trace) = Len(f)
    BY <1>1 DEF b
  <2>5. Reentries(f[a], trace) = Cardinality(Again(f, a, Len(trace)))
    BY <1>1, <1>2, <2>3, <2>4, ReentriesInPlace
  <2> QED
    BY <2>1, <2>5 DEF b
<1>8. Cardinality(Again(f, 1, a + b - 1))
         = Cardinality(Again(f, 1, a - 1)) + Cardinality(Again(f, a, b))
  <2> DEFINE S == Again(f, 1, a - 1)
             T == Again(f, a, b)
  <2>1. Again(f, 1, a + b - 1) = S \cup T /\ S \cap T = {}
    <3>1. S \cap T = {}
      <4>1. \A i \in S : i <= a
        BY <1>2 DEF Again
      <4>2. \A i \in T : i > a
        BY <1>2 DEF Again
      <4>3. S \subseteq Int
        BY <1>2 DEF Again
      <4> QED
        BY <1>2, <4>1, <4>2, <4>3
    <3>2. (1 + 1)..(1 + (a + b - 1)) = ((1 + 1)..(1 + (a - 1))) \cup ((a + 1)..(a + b))
      BY <1>2
    <3>3. Again(f, 1, a + b - 1) = S \cup T
      BY <3>2 DEF Again
    <3> QED
      BY <3>1, <3>3
  <2>2. IsFiniteSet(S) /\ IsFiniteSet(T)
    <3>1. IsFiniteSet((1 + 1)..(1 + (a - 1))) /\ IsFiniteSet((a + 1)..(a + b))
      BY <1>2, FS_Interval
    <3>2. S \in SUBSET ((1 + 1)..(1 + (a - 1))) /\ T \in SUBSET ((a + 1)..(a + b))
      BY DEF Again
    <3> QED
      BY <3>1, <3>2, FS_Subset
  <2> HIDE DEF S, T
  <2>3. Cardinality(S \cup T) = Cardinality(S) + Cardinality(T) - Cardinality(S \cap T)
    BY <2>2, FS_Union
  <2>4. Cardinality(S) \in Nat /\ Cardinality(T) \in Nat /\ Cardinality(S \cap T) = 0
    BY <2>1, <2>2, FS_CardinalityType, FS_EmptySet
  <2>5. Cardinality(S \cup T) = Cardinality(S) + Cardinality(T)
    BY <2>3, <2>4
  <2> QED
    BY <2>1, <2>5 DEF S, T
<1> QED
  BY <1>5, <1>6, <1>7, <1>8 DEF f, a

-----------------------------------------------------------------------------
(* The ledger of a replayable story.                                           *)

\* What a story must keep to: no handler or tool marks the stream between its
\* steps, a ledger starts with a choice and not with the priming hop, a hop
\* builds at most one member of a node anew, and an open destination is never
\* bound outside of a hop.
Replayable ==
    /\ Undisturbed /\ ~Primed /\ BookmarkNames = {}
    /\ \A n \in Nodes : Projects[n] <= 1
    /\ \A e \in Edges : Authored[e] = NoNode => Destination[e] = NoNode

\* No hop is under way; the last step whose moment has been lived.
Between == frame.at \in {"idle", "follow", "done"}
Reached == IF Between THEN Limit ELSE Limit - 1

Last == lived[Len(lived)]

\* The moments of the steps the ledger has committed.
Committed == SubSeq(lived, 1, cursor_steps + 1)

Arrivals(l, k, n) == {i \in 1..k : l[i].cursor = n}

\* In every moment the edges are as authored, no node has two batches, and a
\* node has not been visited more often than the cursor was there.
MomentsOK(l) ==
    \A k \in 1..Len(l) :
        /\ OnePerNode(l[k].graph) /\ l[k].graph.successor = Authored
        /\ \A n \in Nodes : l[k].graph.visits[n] <= Cardinality(Arrivals(l, k, n))

\* The ledger stands at the last moment committed, and counts what was lived.
LedgerAgrees ==
    /\ Len(cursor_history) = cursor_steps + 1
    /\ \A k \in 1..(cursor_steps + 1) : cursor_history[k] = lived[k].cursor
    /\ cursor_id = lived[cursor_steps + 1].cursor
    /\ call_stack_ids = lived[cursor_steps + 1].stack
    /\ reentrant_steps = Reentries(cursor_history[1], Tail(cursor_history))
    /\ choice_steps = Cardinality(ChoicesUpTo(output_stream, cursor_steps))

\* What a frame would be thrown away for is where the ledger stands.
LoadedAgrees ==
    /\ frame.observed /\ frame.step_base = cursor_steps
    /\ frame.loaded.graph = lived[cursor_steps + 1].graph
    /\ Agrees(frame.loaded.stream, Committed)
    /\ choice_steps = Cardinality(ChoicesUpTo(frame.loaded.stream, cursor_steps))

FirstIsChoice(s, n) ==
    \A i \in DOMAIN s : s[i].kind = "step" /\ s[i].step > n =>
        (s[i].was_choice <=> s[i].step = n + 1)

\* The frame has lived the moments after the committed ones: its trace is
\* theirs, and only the first of them is of a choice.
TraceAgrees ==
    /\ Len(frame.cursor_trace) = frame.cursor_steps
    /\ \A k \in 1..(Reached - cursor_steps) :
          frame.cursor_trace[k] = lived[cursor_steps + 1 + k].cursor
    /\ frame.return_stack = Last.stack
    /\ frame.was_choice <=> Reached = cursor_steps
    /\ FirstIsChoice(output_stream, cursor_steps)

\* Between two hops the frame stands at the last moment lived; the live graph
\* may have counted visits that are not stored.
AtRest ==
    /\ frame.cursor = Last.cursor /\ Stored(graph) = Last.graph
    /\ frame.at = "done" => frame.cursor_steps > 0

\* In a hop the graph is one its delta will be applicable to.
UnderWay ==
    /\ frame.cursor_steps > 0
    /\ frame.cursor = frame.cursor_trace[frame.cursor_steps]
    /\ frame.before = Last.graph
    /\ Stored(graph) # frame.before =>
          Patched(frame.before.built, graph.built) = graph.built
    /\ frame.at = "planning" => Stored(graph) = frame.before
    /\ OnePerNode(graph) /\ graph.successor = Authored
    /\ \A n \in Nodes :
          Stored(graph).visits[n] <= frame.before.visits[n]
            + IF frame.at \in {"journal", "finalize", "postreqs", "next"} /\ n = frame.cursor
              THEN 1 ELSE 0

HistoryInv ==
    /\ lived \in Seq(Moments) /\ Len(lived) = Reached + 1
    /\ MomentsOK(lived) /\ Agrees(output_stream, lived) /\ LedgerAgrees
    /\ Idle => graph = Last.graph
    /\ ~Idle => LoadedAgrees /\ TraceAgrees
    /\ ~Idle /\ Between => AtRest
    /\ ~Between => UnderWay

-----------------------------------------------------------------------------
(* Types, and the first state.                                             *)

\* What the types of ledger and frame give in every state of the invariant.
LEMMA HistoryTypes ==
    ASSUME TypeInv, OrderInv, HistoryInv
    PROVE  /\ frame \in FrameType /\ graph \in GraphValues
           /\ output_stream \in Seq(Records) /\ StreamOK(output_stream)
           /\ cursor_steps \in Nat /\ frame.cursor_steps \in Nat /\ Limit \in Nat
           /\ Limit = cursor_steps + frame.cursor_steps
           /\ Reached \in Nat /\ cursor_steps <= Reached
           /\ Idle => Reached = cursor_steps
           /\ ~Between => Reached = Limit - 1
           /\ Between => Reached = Limit
           /\ lived \in Seq(Moments) /\ Len(lived) = Reached + 1
           /\ DOMAIN lived = 1..(Reached + 1)
           /\ \A k \in 1..(Reached + 1) : lived[k] \in Moments
           /\ Last \in Moments /\ Last = lived[Reached + 1]
<1>1. /\ frame \in FrameType /\ graph \in GraphValues
      /\ output_stream \in Seq(Records) /\ StreamOK(output_stream)
      /\ cursor_steps \in Nat
  BY DEF TypeInv, TypeOK, FrameTypeOK
<1>2. frame.cursor_steps \in Nat
  BY <1>1 DEF FrameType
<1>3. /\ frame.at = "idle" => frame.cursor_steps = 0
      /\ ~Between => frame.cursor_steps > 0
  BY DEF OrderInv, HistoryInv, UnderWay
<1>4. /\ Limit = cursor_steps + frame.cursor_steps
      /\ ~Between => Reached = Limit - 1
      /\ Between => Reached = Limit
      /\ Idle => Between
  BY DEF Limit, Reached, Between, Idle
<1>5. /\ Limit \in Nat /\ Reached \in Nat /\ cursor_steps <= Reached
      /\ Idle => Reached = cursor_steps
  BY <1>1, <1>2, <1>3, <1>4 DEF Idle
<1>6. lived \in Seq(Moments) /\ Len(lived) = Reached + 1
  BY DEF HistoryInv
<1>7. /\ DOMAIN lived = 1..(Reached + 1)
      /\ \A k \in 1..(Reached + 1) : lived[k] \in Moments
  BY <1>6, MomentTypes
<1>8. Last \in Moments /\ Last = lived[Reached + 1]
  BY <1>5, <1>6, <1>7 DEF Last
<1> QED
  BY <1>1, <1>2, <1>4, <1>5, <1>6, <1>7, <1>8

\* Arrivals are counted by natural numbers.
LEMMA ArrivalsCount ==
    ASSUME NEW l, NEW k \in Nat, NEW n
    PROVE  IsFiniteSet(Arrivals(l, k, n)) /\ Cardinality(Arrivals(l, k, n)) \in Nat
<1>1. IsFiniteSet(1..k)
  BY FS_Interval
<1>2. Arrivals(l, k, n) \in SUBSET (1..k)
  BY DEF Arrivals
<1> QED
  BY <1>1, <1>2, FS_Subset, FS_CardinalityType

\* A ledger just made has lived its first moment, and its checkpoint has it.
LEMMA HistoryInvInit ==
    ASSUME HInit
    PROVE  HistoryInv /\ Live = lived[1] /\ lived = <<Start>>
<1>1. Entry \in Nodes /\ <<>> \in Seq(CallEdges) /\ <<>> \in Seq(Records)
  BY LedgerAssumption, EmptySeq
<1>2. Start \in Moments
  BY <1>1, AuthoredGraphType, MomentType DEF Start
<1>3. /\ Start.graph = AuthoredGraph /\ Start.cursor = Entry /\ Start.stack = <<>>
      /\ Start.content = ContentOf(<<>>, 0)
  BY AuthoredGraphStored DEF Start, MomentAt
<1>4. /\ lived = <<Start>> /\ lived \in Seq(Moments) /\ Len(lived) = 1 /\ lived[1] = Start
  BY <1>2 DEF HInit
<1> DEFINE r == CheckpointRecord(0, AuthoredGraph, Entry, <<>>)
<1>5. output_stream = <<r>> /\ DOMAIN output_stream = {1} /\ output_stream[1] = r
  BY DEF HInit, Init
<1>6. /\ r.kind = "checkpoint" /\ r.step = 0 /\ r.payload = AuthoredGraph
      /\ r.cursor_id = Entry /\ r.call_stack_ids = <<>>
  BY DEF CheckpointRecord
<1> HIDE DEF r
<1>7. ContentOf(output_stream, 0) = ContentOf(<<>>, 0)
  <2> DEFINE Of(q) == {i \in DOMAIN q : IsJournal(q[i]) /\ q[i].step = 0}
  <2>1. Of(output_stream) = {}
    BY <1>5, <1>6 DEF IsJournal
  <2>2. Of(<<>>) = {}
    OBVIOUS
  <2> QED
    BY <2>1, <2>2 DEF ContentOf
<1>8. Agrees(output_stream, lived)
  <2>1. StepsAgree(output_stream, lived) /\ DeltasAgree(output_stream, lived)
    BY <1>4, <1>5, <1>6 DEF StepsAgree, DeltasAgree
  <2>2. CheckpointsAgree(output_stream, lived)
    BY <1>3, <1>4, <1>5, <1>6 DEF CheckpointsAgree
  <2>3. ContentAgrees(output_stream, lived)
    BY <1>3, <1>4, <1>7 DEF ContentAgrees
  <2> QED
    BY <2>1, <2>2, <2>3 DEF Agrees
<1>9. MomentsOK(lived)
  <2>1. OnePerNode(AuthoredGraph) /\ AuthoredGraph.successor = Authored
    BY DEF OnePerNode, AuthoredGraph
  <2>2. ASSUME NEW n \in Nodes
        PROVE  AuthoredGraph.visits[n] <= Cardinality(Arrivals(lived, 1, n))
    <3>1. AuthoredGraph.visits[n] = 0
      BY DEF AuthoredGraph
    <3> QED
      BY <3>1, ArrivalsCount
  <2> QED
    BY <1>3, <1>4, <2>1, <2>2 DEF MomentsOK
<1>10. frame.at = "idle" /\ frame.cursor_steps = 0 /\ cursor_steps = 0
  BY DEF HInit, Init, IdleFrame
<1>11. LedgerAgrees
  <2>1. Reentries(cursor_history[1], Tail(cursor_history)) = 0
    <3>1. Len(Tail(cursor_history)) = 0
      BY DEF HInit, Init
    <3>2. {i \in 1..Len(Tail(cursor_history)) : Tail(cursor_history)[i] =
              IF i = 1 THEN cursor_history[1] ELSE Tail(cursor_history)[i - 1]} = {}
      BY <3>1
    <3> QED
      BY <3>2, FS_EmptySet DEF Reentries
  <2>2. ChoicesUpTo(output_stream, cursor_steps) = {}
    BY <1>5, <1>6 DEF ChoicesUpTo
  <2>3. Cardinality(ChoicesUpTo(output_stream, cursor_steps)) = 0
    BY <2>2, FS_EmptySet
  <2>4. /\ cursor_history = <<Entry>> /\ cursor_id = Entry /\ call_stack_ids = <<>>
        /\ reentrant_steps = 0 /\ choice_steps = 0
    BY DEF HInit, Init
  <2> QED
    BY <1>3, <1>4, <1>10, <2>1, <2>3, <2>4 DEF LedgerAgrees
<1>12. Reached = 0 /\ Between /\ Idle
  BY <1>10 DEF Reached, Between, Limit, Idle
<1>13. graph = Last.graph
  BY <1>3, <1>4 DEF HInit, Init, Last
<1>14. Live = lived[1]
  <2>1. graph = AuthoredGraph /\ cursor_id = Entry /\ call_stack_ids = <<>>
    BY DEF HInit, Init
  <2> QED
    BY <1>4, <1>7, <1>10, <2>1 DEF Live, Start, MomentAt
<1> QED
  BY <1>4, <1>8, <1>9, <1>11, <1>12, <1>13, <1>14 DEF HistoryInv

-----------------------------------------------------------------------------
(* The steps of a hop.                                                     *)

\* A record that is neither a step, a checkpoint nor journal of a step lived
\* leaves what the stream says of the moments and choices as it was.
LEMMA StreamStays ==
    ASSUME NEW s \in Seq(Records), StreamOK(s), NEW l \in Seq(Moments), Agrees(s, l),
           NEW r \in Records, r.kind \notin {"step", "checkpoint"},
           IsJournal(r) => r.step \notin 0..(Len(l) - 1), NEW cond, NEW n \in Nat
    PROVE  /\ Agrees(AppendIf(s, r, cond), l)
           /\ ChoicesUpTo(AppendIf(s, r, cond), n) = ChoicesUpTo(s, n)
           /\ FirstIsChoice(s, n) => FirstIsChoice(AppendIf(s, r, cond), n)
<1> DEFINE t == Append(s, r)
<1>1. Agrees(t, l) /\ ChoicesUpTo(t, n) = ChoicesUpTo(s, n)
  BY AppendAgrees, ChoicesStay
<1>2. \A i \in DOMAIN t : t[i].kind = "step" => i \in DOMAIN s /\ t[i] = s[i]
  BY AppendedPlaces
<1> HIDE DEF t
<1>3. FirstIsChoice(s, n) => FirstIsChoice(t, n)
  BY <1>2 DEF FirstIsChoice
<1> QED
  BY <1>1, <1>3 DEF AppendIf, t

\* Events that neither delete nor create leave the members as they are.
LEMMA PatchedSelf ==
    ASSUME NEW g \in GraphValues
    PROVE  Patched(g.built, g.built) = g.built
<1> DEFINE b == g.built
           m == Len(b)
<1>1. b \in Seq(Batches) /\ m \in Nat /\ DOMAIN b = 1..m
  BY LenProperties DEF GraphValues
<1> HIDE DEF b
<1>2. m + 1 \in 1..(m + 1)
  BY <1>1
<1>3. \A k \in DOMAIN b : (\E i \in DOMAIN b : b[i] = b[k]) <=> k # m + 1
  BY <1>1
<1>4. m = IF m + 1 = m + 1 THEN m ELSE m - 1
  OBVIOUS
<1>5. \A n \in 1..m : b[n] = b[IF n < m + 1 THEN n ELSE n + 1]
  BY <1>1
<1>6. m >= m /\ \A n \in (m + 1)..m : Ascending(b[n]) = b[n]
  BY <1>1
<1>7. Patched(b, b) = b
  BY <1>1, <1>2, <1>3, <1>4, <1>5, <1>6, PatchedIsBuilt
<1> QED
  BY <1>7 DEF b

\* What a phase of a hop leaves alone.
SameHop ==
    /\ frame'.observed = frame.observed /\ frame'.step_base = frame.step_base
    /\ frame'.cursor = frame.cursor /\ frame'.cursor_steps = frame.cursor_steps
    /\ frame'.cursor_trace = frame.cursor_trace
    /\ frame'.return_stack = frame.return_stack
    /\ frame'.was_choice = frame.was_choice
    /\ frame'.before = frame.before /\ frame'.loaded = frame.loaded

\* In the middle of a hop only the graph and the stream are at stake.
LEMMA HistoryInvInHop ==
    ASSUME TypeInv, OrderInv, HistoryInv, UNCHANGED <<lived, ledgerVars>>,
           ~Between, frame'.at \notin {"idle", "follow", "done"}, SameHop,
           Agrees(output_stream', lived),
           ChoicesUpTo(output_stream', cursor_steps) = ChoicesUpTo(output_stream, cursor_steps),
           FirstIsChoice(output_stream', cursor_steps),
           UnderWay'
    PROVE  HistoryInv'
<1>1. ~Between' /\ ~Idle /\ ~Idle' /\ Reached' = Reached
  BY DEF Between, Idle, Reached, Limit, SameHop, ledgerVars
<1>2. LedgerAgrees'
  BY DEF HistoryInv, LedgerAgrees, ledgerVars
<1>3. (frame'.loaded = frame.loaded) /\ cursor_steps' = cursor_steps
  BY DEF SameHop, ledgerVars
<1>4. LoadedAgrees'
  BY <1>1, <1>3 DEF HistoryInv, LoadedAgrees, Committed, SameHop, ledgerVars
<1>5. TraceAgrees'
  BY <1>1, <1>3 DEF HistoryInv, TraceAgrees, Last, SameHop
<1>6. Agrees(output_stream, lived)' /\ MomentsOK(lived)'
  BY DEF HistoryInv
<1> QED
  BY <1>1, <1>2, <1>4, <1>5, <1>6 DEF HistoryInv

\* A choice begins where the ledger stands, and changes nothing: an open
\* destination is not bound.
LEMMA HistoryInvBegin ==
    ASSUME Replayable, TypeInv, OrderInv, HistoryInv,
           NEW e \in Edges, BeginChoice(e), lived' = lived
    PROVE  HistoryInv'
<1>1. Idle /\ Between
  BY DEF BeginChoice, Ready, Idle, Between
<1>2. /\ Reached = cursor_steps /\ Len(lived) = cursor_steps + 1 /\ cursor_steps \in Nat
      /\ graph = Last.graph /\ Last = lived[cursor_steps + 1] /\ graph \in GraphValues
      /\ Last \in Moments /\ lived \in Seq(Moments) /\ cursor_steps + 1 \in 1..Len(lived)
  BY <1>1, HistoryTypes DEF HistoryInv
<1>2a. Stored(graph) = Last.graph
  BY <1>2 DEF Moments, StoredGraphs
<1>3. graph' = graph
  <2>1. graph.successor = Authored
    BY <1>2 DEF HistoryInv, MomentsOK
  <2>2. [graph EXCEPT !.successor[e] = Destination[e]] = graph \/ Authored[e] # NoNode
    <3> SUFFICES ASSUME Authored[e] = NoNode
                 PROVE  [graph EXCEPT !.successor[e] = Destination[e]] = graph
      OBVIOUS
    <3>1. graph.successor[e] = Destination[e]
      BY <2>1 DEF Replayable
    <3> QED
      BY ZenonT(40), <1>2, <3>1 DEF GraphValues
  <2> QED
    BY <2>1, <2>2 DEF BeginChoice, ProvisionDestination
<1>4. /\ frame'.at = "follow" /\ frame'.observed = TRUE /\ frame'.step_base = cursor_steps
      /\ frame'.cursor = cursor_id /\ frame'.cursor_steps = 0 /\ frame'.cursor_trace = <<>>
      /\ frame'.return_stack = call_stack_ids /\ frame'.was_choice = TRUE
      /\ frame'.loaded.graph = graph /\ frame'.loaded.stream = output_stream
  BY DEF BeginChoice, StartFrame, IdleFrame
<1>5. UNCHANGED <<output_stream, ledgerVars>> /\ cursor_steps' = cursor_steps
  BY DEF BeginChoice, ledgerVars
<1>6. ~Idle' /\ Between' /\ Reached' = Reached
  BY <1>2, <1>4, <1>5 DEF Idle, Between, Reached, Limit
<1>7. LedgerAgrees'
  BY <1>5 DEF HistoryInv, LedgerAgrees, ledgerVars
<1>8. Committed = lived /\ Committed' = lived
  BY <1>2, <1>5, FirstMoments DEF Committed
<1>9. LoadedAgrees'
  BY <1>2, <1>4, <1>5, <1>8 DEF HistoryInv, LoadedAgrees, LedgerAgrees, ledgerVars
<1>10. FirstIsChoice(output_stream, cursor_steps)
  BY <1>2 DEF HistoryInv, Agrees, StepsAgree, FirstIsChoice
<1>11. Last' = Last
  BY DEF Last
<1>12. TraceAgrees'
  BY <1>2, <1>4, <1>5, <1>6, <1>10, <1>11 DEF HistoryInv, LedgerAgrees, TraceAgrees
<1>13. AtRest'
  BY <1>2, <1>2a, <1>3, <1>4, <1>11 DEF HistoryInv, LedgerAgrees, AtRest
<1> QED
  BY <1>2, <1>5, <1>6, <1>7, <1>9, <1>12, <1>13 DEF HistoryInv

\* The cursor moves: what can be stored of the graph is that of the last moment,
\* and a delta that changes nothing is never recorded.
LEMMA HistoryInvPrepare ==
    ASSUME TypeInv, OrderInv, HistoryInv,
           PrepareFollowEdge, UNCHANGED ledgerVars, lived' = lived
    PROVE  HistoryInv'
<1>1. frame \in FrameType /\ frame.cursor_steps \in Nat /\ cursor_steps \in Nat
  BY HistoryTypes
<1>2. Between /\ ~Idle /\ Reached = Limit /\ frame.at = "follow"
  BY DEF PrepareFollowEdge, Between, Idle, Reached
<1>3. frame.hop.to \in Nodes
  BY <1>1 DEF PrepareFollowEdge, MayValidate, FrameType, Hops
<1> DEFINE trace == Append(frame.cursor_trace, frame.hop.to)
<1>4. /\ frame'.at = "planning" /\ frame'.observed = frame.observed
      /\ frame'.step_base = frame.step_base /\ frame'.cursor = frame.hop.to
      /\ frame'.cursor_steps = frame.cursor_steps + 1 /\ frame'.cursor_trace = trace
      /\ frame'.return_stack = frame.return_stack /\ frame'.was_choice = frame.was_choice
      /\ frame'.before = Stored(graph) /\ frame'.loaded = frame.loaded
      /\ graph' = graph /\ output_stream' = output_stream
  BY <1>1 DEF PrepareFollowEdge, FrameType
<1>5. /\ frame.cursor_trace \in Seq(Nodes) /\ Len(trace) = Len(frame.cursor_trace) + 1
      /\ \A k \in 1..Len(frame.cursor_trace) : trace[k] = frame.cursor_trace[k]
      /\ trace[Len(frame.cursor_trace) + 1] = frame.hop.to
  BY <1>1, <1>3, AppendProperties DEF FrameType
<1> HIDE DEF trace
<1>6. cursor_steps' = cursor_steps /\ Limit' = Limit + 1 /\ Limit = cursor_steps + frame.cursor_steps
  BY <1>1, <1>4 DEF Limit, ledgerVars
<1>7. ~Between' /\ ~Idle' /\ Reached' = Reached
  BY <1>1, <1>2, <1>4, <1>6 DEF Between, Idle, Reached
<1>8. LedgerAgrees'
  BY <1>4 DEF HistoryInv, LedgerAgrees, ledgerVars
<1>9. Last' = Last /\ Committed' = Committed
  BY <1>6 DEF Last, Committed
<1>10. LoadedAgrees'
  BY <1>2, <1>4, <1>6, <1>9 DEF HistoryInv, LoadedAgrees, ledgerVars
<1>11. TraceAgrees'
  <2>1. Len(frame.cursor_trace) = frame.cursor_steps
    BY <1>2 DEF HistoryInv, TraceAgrees
  <2>2. \A k \in 1..(Reached - cursor_steps) : trace[k] = lived[cursor_steps + 1 + k].cursor
    <3>1. Reached - cursor_steps = frame.cursor_steps
      BY <1>1, <1>2, <1>6
    <3>2. \A k \in 1..(Reached - cursor_steps) :
             frame.cursor_trace[k] = lived[cursor_steps + 1 + k].cursor
      BY <1>2 DEF HistoryInv, TraceAgrees
    <3> QED
      BY <1>5, <2>1, <3>1, <3>2
  <2> QED
    BY <1>2, <1>4, <1>5, <1>6, <1>7, <1>9, <2>1, <2>2 DEF HistoryInv, TraceAgrees
<1>12. UnderWay'
  <2>1. /\ Stored(graph) = Last.graph /\ Last = lived[Reached + 1] /\ Reached \in Nat
        /\ graph \in GraphValues
    BY <1>2, HistoryTypes DEF HistoryInv, AtRest
  <2>2. Reached + 1 \in 1..Len(lived)
    BY <2>1 DEF HistoryInv
  <2>3. OnePerNode(graph) /\ graph.successor = Authored
    <3>1. Stored(graph).built = graph.built /\ Stored(graph).successor = graph.successor
      BY <2>1, StoredType
    <3> QED
      BY <2>1, <2>2, <3>1 DEF HistoryInv, MomentsOK, OnePerNode
  <2>4. frame'.cursor = frame'.cursor_trace[frame'.cursor_steps]
    BY <1>2, <1>4, <1>5 DEF HistoryInv, TraceAgrees
  <2>5. \A n \in Nodes : Stored(graph).visits[n] <= Stored(graph).visits[n] + 0
    BY <2>1, StoredType DEF GraphValues
  <2>6. (Stored(graph))' = Stored(graph)
    BY <1>4 DEF Stored
  <2>7. OnePerNode(graph)' /\ (graph.successor)' = Authored
    BY <1>4, <2>3 DEF OnePerNode
  <2> QED
    BY <1>1, <1>4, <1>9, <2>1, <2>4, <2>5, <2>6, <2>7 DEF UnderWay
<1>13. Agrees(output_stream, lived)' /\ MomentsOK(lived)'
  BY <1>4 DEF HistoryInv
<1> QED
  BY <1>7, <1>8, <1>10, <1>11, <1>12, <1>13 DEF HistoryInv

\* What the phases of a hop may do to the graph, to keep it one that its delta
\* will restore.
LEMMA HistoryInvQuietPhase ==
    ASSUME TypeInv, OrderInv, HistoryInv, UNCHANGED <<lived, output_stream, ledgerVars>>,
           ~Between, frame'.at \notin {"idle", "follow", "done", "planning"}, SameHop,
           OnePerNode(graph'), graph'.successor = Authored,
           Stored(graph') # frame.before =>
              Patched(frame.before.built, graph'.built) = graph'.built,
           \A n \in Nodes : Stored(graph').visits[n] <= frame.before.visits[n]
              + IF frame'.at \in {"journal", "finalize", "postreqs", "next"} /\ n = frame.cursor
                THEN 1 ELSE 0
    PROVE  HistoryInv'
<1>1. frame'.before = frame.before /\ Last' = Last
  BY DEF SameHop, Last
<1>2. OnePerNode(graph)' /\ (Stored(graph))' = Stored(graph')
  BY DEF OnePerNode, Stored
<1>3. UnderWay'
  BY <1>1, <1>2 DEF HistoryInv, UnderWay, SameHop
<1>4. /\ Agrees(output_stream', lived)
      /\ ChoicesUpTo(output_stream', cursor_steps) = ChoicesUpTo(output_stream, cursor_steps)
      /\ FirstIsChoice(output_stream', cursor_steps)
  BY DEF HistoryInv, TraceAgrees, Between, Idle
<1> QED
  BY <1>3, <1>4, HistoryInvInHop

\* PLANNING rebuilds at most one batch.
LEMMA HistoryInvPlanning ==
    ASSUME Replayable, TypeInv, OrderInv, HistoryInv,
           PlanningPhase, UNCHANGED ledgerVars, lived' = lived
    PROVE  HistoryInv'
<1>1. /\ frame \in FrameType /\ graph \in GraphValues /\ frame.at = "planning"
      /\ frame.cursor \in Nodes /\ ~Between
  BY HistoryTypes DEF PlanningPhase, TypeInv, TypeOK, FrameTypeOK, Between
<1>2. /\ frame'.at = "prereqs" /\ SameHop /\ output_stream' = output_stream
  BY <1>1 DEF PlanningPhase, Goto, FrameType, SameHop
<1>3. /\ Stored(graph) = frame.before /\ OnePerNode(graph) /\ graph.successor = Authored
  BY <1>1 DEF HistoryInv, UnderWay
<1>4. /\ OnePerNode(graph') /\ graph'.successor = graph.successor
      /\ graph'.visits = graph.visits
      /\ graph' # graph => Patched(graph.built, graph'.built) = graph'.built
  <2>1. CASE graph' = graph
    <3>1. OnePerNode(graph') <=> OnePerNode(graph)
      BY <2>1 DEF OnePerNode
    <3> QED
      BY <1>3, <2>1, <3>1
  <2>2. CASE graph' # graph
    <3> DEFINE used == UidsOf(graph.built) \cup UidsOf(frame.before.built)
    <3>1. PICK found \in SUBSET Open(graph, frame.cursor),
               uids \in NewUids(Projects[frame.cursor], used) :
              graph' = Project(Provision(graph, found), frame.cursor, uids)
      BY <2>2 DEF PlanningPhase
    <3>2. Projects[frame.cursor] <= 1 /\ UidsOf(graph.built) \subseteq used
      BY <1>1 DEF Replayable
    <3> HIDE DEF used
    <3> DEFINE h == Project(Provision(graph, found), frame.cursor, uids)
    <3>3. /\ OnePerNode(h) /\ Patched(graph.built, h.built) = h.built
          /\ h.successor = graph.successor /\ h.visits = graph.visits
      <4> DEFINE n == frame.cursor
                 g == graph
      <4>1. /\ g \in GraphValues /\ OnePerNode(g) /\ n \in Nodes /\ Projects[n] <= 1
            /\ found \in SUBSET Open(g, n) /\ UidsOf(g.built) \subseteq used
            /\ uids \in NewUids(Projects[n], used)
        BY <1>1, <1>3, <3>2
      <4> HIDE DEF n, g
      <4>2. LET after == Project(Provision(g, found), n, uids)
            IN  /\ OnePerNode(after) /\ Patched(g.built, after.built) = after.built
                /\ after.successor = g.successor /\ after.visits = g.visits
        BY <4>1, PlanningApplies
      <4> QED
        BY <4>2 DEF n, g
    <3> HIDE DEF h
    <3>4. graph' = h
      BY <3>1 DEF h
    <3> QED
      BY <3>3, <3>4
  <2> QED
    BY <2>1, <2>2
<1>5. graph' \in GraphValues
  <2>1. TypeInv'
    BY TypeInvPlanning
  <2> QED
    BY <2>1 DEF TypeInv, TypeOK, FrameTypeOK
<1>6. Stored(graph') # frame.before => Patched(frame.before.built, graph'.built) = graph'.built
  <2>1. frame.before.built = graph.built
    BY <1>1, <1>3, StoredType
  <2>2. graph' = graph => Stored(graph') = frame.before
    BY <1>3
  <2> QED
    BY <1>4, <2>1, <2>2
<1>7. \A n \in Nodes : Stored(graph').visits[n] = frame.before.visits[n]
  BY <1>1, <1>3, <1>4, <1>5, StoredType
<1>8. \A n \in Nodes : Stored(graph').visits[n] <= frame.before.visits[n] + 0
  <2>1. Stored(graph') \in GraphValues
    BY <1>5, StoredType
  <2> QED
    BY <1>7, <2>1 DEF GraphValues
<1> QED
  BY <1>1, <1>2, <1>3, <1>4, <1>6, <1>8, HistoryInvQuietPhase

\* PREREQS and POSTREQS leave the graph alone, and UPDATE marks one visit.
LEMMA HistoryInvQuiet ==
    ASSUME TypeInv, OrderInv, HistoryInv, UNCHANGED ledgerVars, lived' = lived,
           PrereqsPhase \/ UpdatePhase \/ PostreqsPhase
    PROVE  HistoryInv'
<1>1. /\ frame \in FrameType /\ graph \in GraphValues /\ ~Between
      /\ frame.before \in GraphValues /\ frame.at \notin {"idle", "follow", "done"}
  BY HistoryTypes DEF PrereqsPhase, UpdatePhase, PostreqsPhase, Between, FrameType
<1>2. /\ SameHop /\ output_stream' = output_stream
      /\ frame'.at \in {"update", "journal", "next"}
      /\ frame.at \in {"journal", "finalize", "postreqs", "next"} => frame'.at = "next"
  BY ZenonT(40), <1>1 DEF PrereqsPhase, UpdatePhase, PostreqsPhase, Goto, FrameType, SameHop
<1>3. /\ OnePerNode(graph) /\ graph.successor = Authored
      /\ Stored(graph) # frame.before =>
            Patched(frame.before.built, graph.built) = graph.built
      /\ frame.before = Last.graph
  BY <1>1 DEF HistoryInv, UnderWay
<1>3a. /\ Stored(graph) \in GraphValues /\ Stored(graph).built = graph.built
       /\ \A n \in Nodes : Stored(graph).visits[n] \in Nat /\ frame.before.visits[n] \in Nat
  BY <1>1, StoredType DEF GraphValues
<1>4. CASE graph' = graph
  <2>1. ASSUME NEW n \in Nodes
        PROVE  Stored(graph').visits[n] <= frame.before.visits[n]
                 + IF frame'.at \in {"journal", "finalize", "postreqs", "next"} /\ n = frame.cursor
                   THEN 1 ELSE 0
    <3>1. Stored(graph).visits[n] \in Nat /\ frame.before.visits[n] \in Nat
      BY <1>3a
    <3>2. Stored(graph).visits[n] <= frame.before.visits[n]
             + IF frame.at \in {"journal", "finalize", "postreqs", "next"} /\ n = frame.cursor
               THEN 1 ELSE 0
      BY <1>1 DEF HistoryInv, UnderWay
    <3>3. Stored(graph').visits[n] = Stored(graph).visits[n]
      BY <1>4
    <3> QED
      BY <1>2, <3>1, <3>2, <3>3
  <2>2. Stored(graph') = Stored(graph) /\ graph'.built = graph.built
    BY <1>4
  <2> QED
    BY <1>1, <1>2, <1>3, <1>4, <2>1, <2>2, HistoryInvQuietPhase
<1>5. CASE graph' # graph
  <2>1. frame.at = "update" /\ frame'.at = "journal" /\ graph' = MarkVisited(graph, frame.cursor)
    BY <1>1, <1>5 DEF PrereqsPhase, UpdatePhase, PostreqsPhase, Goto, FrameType
  <2>2. /\ graph'.built = graph.built /\ graph'.successor = graph.successor
        /\ graph'.visits = [graph.visits EXCEPT ![frame.cursor] = @ + 1]
    BY <1>1, <2>1 DEF MarkVisited, GraphValues
  <2>3. OnePerNode(graph')
    BY <1>3, <2>2 DEF OnePerNode
  <2>4. graph' \in GraphValues
    <3>1. UpdatePhase
      BY <2>1 DEF PrereqsPhase, PostreqsPhase
    <3>2. TypeInv'
      BY <3>1, TypeInvUpdate
    <3> QED
      BY <3>2 DEF TypeInv, TypeOK, FrameTypeOK
  <2>5. ASSUME NEW n \in Nodes
        PROVE  Stored(graph').visits[n] <= frame.before.visits[n]
                 + IF frame'.at \in {"journal", "finalize", "postreqs", "next"} /\ n = frame.cursor
                   THEN 1 ELSE 0
    <3>1. /\ Stored(graph).visits[n] \in Nat /\ frame.before.visits[n] \in Nat
          /\ graph.visits \in [Nodes -> Nat]
      BY <1>1, <1>3a DEF GraphValues
    <3>2. Stored(graph).visits[n] <= frame.before.visits[n] + 0
      BY <1>1, <2>1 DEF HistoryInv, UnderWay
    <3>3. graph'.visits[n] = graph.visits[n] + IF n = frame.cursor THEN 1 ELSE 0
      BY <2>2, <3>1
    <3>4. /\ Stored(graph').visits[n] = IF n \in Stateful THEN graph'.visits[n] ELSE 0
          /\ Stored(graph).visits[n] = IF n \in Stateful THEN graph.visits[n] ELSE 0
      BY <1>1, <2>4, StoredType
    <3> QED
      BY <2>1, <3>1, <3>2, <3>3, <3>4
  <2>6. Stored(graph') # frame.before => Patched(frame.before.built, graph'.built) = graph'.built
    <3>1. CASE Stored(graph) # frame.before
      BY <1>3, <2>2, <3>1
    <3>2. CASE Stored(graph) = frame.before
      BY <1>1, <1>3a, <2>2, <3>2, PatchedSelf
    <3> QED
      BY <3>1, <3>2
  <2> QED
    BY <1>1, <1>2, <1>3, <2>2, <2>3, <2>5, <2>6, HistoryInvQuietPhase
<1> QED
  BY <1>4, <1>5

\* In a hop no moment has been lived of the step it is at.
LEMMA StepIsNew ==
    ASSUME TypeInv, OrderInv, HistoryInv, ~Between
    PROVE  /\ Step = Len(lived) /\ Len(lived) = Limit /\ Step = Reached + 1
           /\ Step \in Nat /\ Step > cursor_steps /\ Step \notin 0..(Len(lived) - 1)
<1>1. frame.at # "idle"
  BY DEF Between
<1>2. Step = Limit /\ Limit \in Nat
  BY <1>1, StepIsLimit
<1> QED
  BY <1>2, HistoryTypes

\* JOURNAL and FINALIZE append what is of the step under way.
LEMMA HistoryInvLoud ==
    ASSUME TypeInv, OrderInv, HistoryInv, UNCHANGED ledgerVars, lived' = lived,
           JournalPhase \/ FinalizePhase
    PROVE  HistoryInv'
<1>1. /\ frame \in FrameType /\ ~Between /\ cursor_steps \in Nat
      /\ lived \in Seq(Moments) /\ output_stream \in Seq(Records) /\ StreamOK(output_stream)
  BY HistoryTypes DEF JournalPhase, FinalizePhase, Between
<1>2. /\ SameHop /\ graph' = graph /\ frame'.at \in {"finalize", "postreqs"}
      /\ frame.at \in {"journal", "finalize"}
  BY <1>1 DEF JournalPhase, FinalizePhase, Goto, FrameType, SameHop
<1>3. Step \in Nat /\ Step \notin 0..(Len(lived) - 1)
  BY <1>1, StepIsNew
<1>4. /\ Fragment(Step) \in Records /\ Fragment(Step).step = Step
      /\ Fragment(Step).kind \notin {"step", "checkpoint"}
      /\ Receipt(Step) \in Records /\ ~IsJournal(Receipt(Step))
      /\ Receipt(Step).kind \notin {"step", "checkpoint"}
  BY <1>3 DEF Fragment, Receipt, Records, IsJournal
<1>5. Agrees(output_stream, lived) /\ FirstIsChoice(output_stream, cursor_steps)
  BY <1>1 DEF HistoryInv, TraceAgrees, Between, Idle
<1>6. /\ Agrees(output_stream', lived)
      /\ ChoicesUpTo(output_stream', cursor_steps) = ChoicesUpTo(output_stream, cursor_steps)
      /\ FirstIsChoice(output_stream', cursor_steps)
  <2>1. CASE JournalPhase
    <3>1. PICK cond : output_stream' = AppendIf(output_stream, Fragment(Step), cond)
      BY <2>1 DEF JournalPhase
    <3> QED
      BY <1>1, <1>3, <1>4, <1>5, <3>1, StreamStays
  <2>2. CASE FinalizePhase
    <3>1. PICK cond : output_stream' = AppendIf(output_stream, Receipt(Step), cond)
      BY <2>2 DEF FinalizePhase
    <3> QED
      BY <1>1, <1>4, <1>5, <3>1, StreamStays
  <2> QED
    BY <2>1, <2>2
<1>7. UnderWay'
  <2>1. UnderWay /\ Last' = Last /\ OnePerNode(graph)' /\ (Stored(graph))' = Stored(graph)
    BY <1>1, <1>2 DEF HistoryInv, UnderWay, Last, OnePerNode, Stored
  <2> QED
    BY <1>2, <2>1 DEF UnderWay, SameHop
<1> QED
  BY <1>1, <1>2, <1>6, <1>7, HistoryInvInHop

\* The records of a hop say of its moment what it was.
LEMMA StepTraceAgrees ==
    ASSUME TypeInv, OrderInv, HistoryInv, frame.at = "next", NEW stack \in Seq(CallEdges)
    PROVE  LET s == StepTrace(output_stream, frame.was_choice, stack)
               m == MomentAt(graph, frame.cursor, stack, s, Step)
           IN  /\ m \in Moments /\ Agrees(s, Append(lived, m))
               /\ ChoicesUpTo(s, cursor_steps) = ChoicesUpTo(output_stream, cursor_steps)
               /\ FirstIsChoice(s, cursor_steps)
<1> DEFINE changed    == frame.before # Stored(graph)
           withDelta  == AppendIf(output_stream, Delta(frame.before, Stored(graph)), changed)
           delta      == IF changed THEN Len(withDelta) ELSE 0
           withMarker == AppendIf(withDelta, Section(Step), frame.cursor \in Sections)
           record     == StepRecord(Step, frame.cursor, frame.was_choice, delta, stack)
           s == StepTrace(output_stream, frame.was_choice, stack)
           m == MomentAt(graph, frame.cursor, stack, s, Step)
<1>1. /\ ~Between /\ ~Idle /\ frame \in FrameType /\ graph \in GraphValues
      /\ frame.before \in GraphValues /\ frame.cursor \in Nodes /\ cursor_steps \in Nat
      /\ output_stream \in Seq(Records) /\ StreamOK(output_stream)
      /\ lived \in Seq(Moments) /\ Agrees(output_stream, lived)
      /\ frame.was_choice \in BOOLEAN
      /\ Stored(graph) \in GraphValues /\ Stored(graph).built = graph.built
  BY HistoryTypes, StoredType DEF Between, Idle, FrameType, TypeInv, TypeOK, FrameTypeOK, HistoryInv
<1>2. /\ Step = Len(lived) /\ Step = Reached + 1 /\ Reached \in Nat
      /\ Step \in Nat /\ Step > cursor_steps /\ Step \notin 0..(Len(lived) - 1)
  BY <1>1, StepIsNew, HistoryTypes
<1>3. /\ frame.before = lived[Len(lived)].graph /\ FirstIsChoice(output_stream, cursor_steps)
      /\ changed => Patched(frame.before.built, Stored(graph).built) = Stored(graph).built
      /\ frame.was_choice <=> Reached = cursor_steps
  BY <1>1 DEF HistoryInv, UnderWay, TraceAgrees, Last
<1>4. s = Append(withMarker, record)
  BY DEF StepTrace
<1>5. /\ withDelta \in Seq(Records) /\ StreamOK(withDelta)
      /\ Agrees(withDelta, lived) /\ FirstIsChoice(withDelta, cursor_steps)
      /\ ChoicesUpTo(withDelta, cursor_steps) = ChoicesUpTo(output_stream, cursor_steps)
  <2>1. /\ Delta(frame.before, Stored(graph)) \in Records
        /\ Delta(frame.before, Stored(graph)).kind \notin {"step", "checkpoint"}
        /\ ~IsJournal(Delta(frame.before, Stored(graph)))
    BY <1>1 DEF Delta, Records, IsJournal
  <2> HIDE DEF changed
  <2> QED
    BY <1>1, <1>3, <2>1, StreamStays, AppendIfType
<1>6. /\ withMarker \in Seq(Records) /\ StreamOK(withMarker)
      /\ Agrees(withMarker, lived) /\ FirstIsChoice(withMarker, cursor_steps)
      /\ ChoicesUpTo(withMarker, cursor_steps) = ChoicesUpTo(output_stream, cursor_steps)
  <2>1. /\ Section(Step) \in Records /\ Section(Step).step = Step
        /\ Section(Step).kind \notin {"step", "checkpoint"}
    BY <1>2 DEF Section, Records
  <2> DEFINE r == Section(Step)
             cond == frame.cursor \in Sections
  <2>2. /\ r \in Records /\ r.kind # "step" /\ r.kind \notin {"step", "checkpoint"}
        /\ IsJournal(r) => r.step \notin 0..(Len(lived) - 1)
    BY <1>2, <2>1
  <2> HIDE DEF withDelta, r, cond
  <2>3. AppendIf(withDelta, r, cond) \in Seq(Records) /\ StreamOK(AppendIf(withDelta, r, cond))
    BY <1>5, <2>2, AppendIfType
  <2>4. /\ Agrees(AppendIf(withDelta, r, cond), lived)
        /\ FirstIsChoice(AppendIf(withDelta, r, cond), cursor_steps)
        /\ ChoicesUpTo(AppendIf(withDelta, r, cond), cursor_steps)
              = ChoicesUpTo(withDelta, cursor_steps)
    BY <1>1, <1>5, <2>2, StreamStays
  <2> QED
    BY <1>5, <2>3, <2>4 DEF r, cond
<1>7. delta \in Nat /\ (delta = 0 <=> ~changed)
  <2>1. Len(withDelta) \in Nat /\ (changed => Len(withDelta) = Len(output_stream) + 1)
    <3>1. changed => withDelta = Append(output_stream, Delta(frame.before, Stored(graph)))
      BY DEF AppendIf
    <3>2. Len(Append(output_stream, Delta(frame.before, Stored(graph)))) = Len(output_stream) + 1
      BY <1>1, AppendProperties DEF Delta, Records
    <3> HIDE DEF withDelta
    <3> QED
      BY <1>5, <3>1, <3>2, LenProperties
  <2>2. Len(output_stream) \in Nat
    BY <1>1, LenProperties
  <2> HIDE DEF withDelta
  <2> QED
    BY <2>1, <2>2
<1>8. changed => delta \in DOMAIN withMarker /\ withMarker[delta] = Delta(frame.before, Stored(graph))
  <2> SUFFICES ASSUME changed
               PROVE  delta \in DOMAIN withMarker /\ withMarker[delta] = Delta(frame.before, Stored(graph))
    OBVIOUS
  <2>1. Delta(frame.before, Stored(graph)) \in Records
    BY <1>1 DEF Delta, Records
  <2>2. delta = Len(withDelta) /\ withDelta[delta] = Delta(frame.before, Stored(graph))
    BY <1>1, <2>1, AppendProperties DEF AppendIf
  <2>3. delta \in DOMAIN withDelta
    <3> HIDE DEF withDelta
    <3> QED
      BY <1>5, <1>7, <2>2, LenProperties
  <2> HIDE DEF withDelta, delta
  <2>4. CASE frame.cursor \in Sections
    <3>1. Section(Step) \in Records
      BY <1>2 DEF Section, Records
    <3> QED
      BY <1>5, <2>2, <2>3, <2>4, <3>1, AppendedPlaces DEF AppendIf
  <2>5. CASE frame.cursor \notin Sections
    BY <2>2, <2>3, <2>5 DEF AppendIf
  <2> QED
    BY <2>4, <2>5
<1> HIDE DEF withDelta, withMarker, delta
<1>9. /\ record \in Records /\ record.kind = "step" /\ record.step = Step
      /\ record.cursor_id = frame.cursor /\ record.call_stack_ids = stack
      /\ record.delta_id = delta /\ record.was_choice = frame.was_choice
  BY <1>1, <1>2, <1>7, NewRecords DEF StepRecord
<1>10. s \in Seq(Records)
  BY <1>4, <1>6, <1>9, AppendProperties
<1>11. /\ m \in Moments /\ m.graph = Stored(graph) /\ m.cursor = frame.cursor /\ m.stack = stack
       /\ m.content = ContentOf(s, Step)
  <2>1. m \in Moments
    BY <1>1, <1>2, <1>10, MomentType
  <2> QED
    BY <2>1 DEF MomentAt
<1> HIDE DEF record, m
<1>12. Agrees(Append(withMarker, record), Append(lived, m))
  <2>1. m.content = ContentOf(Append(withMarker, record), Len(lived))
    BY <1>2, <1>4, <1>11
  <2>2. record.delta_id = 0 => m.graph = lived[Len(lived)].graph
    BY <1>3, <1>7, <1>9, <1>11
  <2>3. record.delta_id # 0 =>
           /\ record.delta_id \in DOMAIN withMarker
           /\ withMarker[record.delta_id] = Delta(lived[Len(lived)].graph, m.graph)
           /\ Patched(lived[Len(lived)].graph.built, m.graph.built) = m.graph.built
    BY <1>3, <1>7, <1>8, <1>9, <1>11
  <2>4. Len(lived) > 0 /\ record.step = Len(lived)
    BY <1>2, <1>9
  <2>5. record.cursor_id = m.cursor /\ record.call_stack_ids = m.stack
    BY <1>9, <1>11
  <2> QED
    BY <1>1, <1>6, <1>9, <1>11, <2>1, <2>2, <2>3, <2>4, <2>5, HopAgrees
<1>13. ChoicesUpTo(Append(withMarker, record), cursor_steps) = ChoicesUpTo(output_stream, cursor_steps)
  <2>1. ~(record.step <= cursor_steps)
    BY <1>1, <1>2, <1>9
  <2> QED
    BY <1>1, <1>6, <1>9, <2>1, ChoicesStay
<1>14. FirstIsChoice(Append(withMarker, record), cursor_steps)
  <2>1. record.was_choice <=> record.step = cursor_steps + 1
    BY <1>1, <1>2, <1>3, <1>9
  <2> QED
    BY <1>6, <1>9, <2>1, AppendedPlaces DEF FirstIsChoice
<1> HIDE DEF s
<1> QED
  BY <1>4, <1>11, <1>12, <1>13, <1>14 DEF s, m

\* Lists with the same first moments: prefixes and arrivals are the same.
LEMMA SameFirstMoments ==
    ASSUME NEW l \in Seq(Moments), NEW q \in Seq(Moments), NEW c \in Nat, c > 0,
           c <= Len(l), c <= Len(q), \A k \in 1..c : q[k] = l[k]
    PROVE  /\ SubSeq(q, 1, c) = SubSeq(l, 1, c)
           /\ \A k \in 1..c : \A n : Arrivals(q, k, n) = Arrivals(l, k, n)
<1>1. c \in 1..Len(l) /\ c \in 1..Len(q)
  BY MomentTypes
<1>2. /\ SubSeq(l, 1, c) \in Seq(Moments) /\ Len(SubSeq(l, 1, c)) = c
      /\ \A k \in 1..c : SubSeq(l, 1, c)[k] = l[k]
      /\ SubSeq(q, 1, c) \in Seq(Moments) /\ Len(SubSeq(q, 1, c)) = c
      /\ \A k \in 1..c : SubSeq(q, 1, c)[k] = q[k]
  BY <1>1, FirstMoments
<1>3. SubSeq(q, 1, c) = SubSeq(l, 1, c)
  BY <1>2, SeqEqual
<1>4. ASSUME NEW k \in 1..c, NEW n PROVE Arrivals(q, k, n) = Arrivals(l, k, n)
  <2>1. \A i \in 1..k : i \in 1..c
    OBVIOUS
  <2> QED
    BY <2>1 DEF Arrivals
<1> QED
  BY <1>3, <1>4

\* The first moments of a list are as sound as the list.
LEMMA MomentsKept ==
    ASSUME NEW l \in Seq(Moments), MomentsOK(l), NEW q \in Seq(Moments), Len(q) <= Len(l),
           \A k \in 1..Len(q) : q[k] = l[k]
    PROVE  MomentsOK(q)
<1>1. Len(q) \in Nat /\ Len(l) \in Nat
  BY MomentTypes
<1>2. CASE Len(q) = 0
  BY <1>2 DEF MomentsOK
<1>3. CASE Len(q) > 0
  <2>1. \A k \in 1..Len(q) : \A n : Arrivals(q, k, n) = Arrivals(l, k, n)
    BY <1>1, <1>3, SameFirstMoments
  <2>2. \A k \in 1..Len(q) : k \in 1..Len(l)
    BY <1>1
  <2> QED
    BY <2>1, <2>2 DEF MomentsOK
<1> QED
  BY <1>1, <1>2, <1>3

\* The moment of a hop has the graph the hop left, on which the cursor arrived
\* once more.
LEMMA MomentsGrow ==
    ASSUME NEW l \in Seq(Moments), Len(l) > 0, MomentsOK(l), NEW m \in Moments,
           OnePerNode(m.graph), m.graph.successor = Authored,
           \A n \in Nodes : m.graph.visits[n]
              <= l[Len(l)].graph.visits[n] + IF n = m.cursor THEN 1 ELSE 0
    PROVE  MomentsOK(Append(l, m))
<1> DEFINE q == Append(l, m)
           t == Len(l)
<1>1. /\ q \in Seq(Moments) /\ Len(q) = t + 1 /\ t \in Nat /\ t > 0
      /\ \A k \in 1..t : q[k] = l[k]
      /\ q[t + 1] = m
  BY OneMoreMoment, MomentTypes
<1>2. l[t].graph \in GraphValues /\ m.graph \in GraphValues
  <2>1. Len(l) \in 1..Len(l)
    BY <1>1
  <2>2. l[Len(l)].graph \in GraphValues
    BY <2>1, MomentTypes
  <2> QED
    BY <2>2 DEF Moments, StoredGraphs
<1> HIDE DEF q, t
<1>3. ASSUME NEW k \in 1..t
      PROVE  /\ OnePerNode(q[k].graph) /\ q[k].graph.successor = Authored
             /\ \A n \in Nodes : q[k].graph.visits[n] <= Cardinality(Arrivals(q, k, n))
  <2>1. \A n : Arrivals(q, k, n) = Arrivals(l, k, n)
    <3>1. \A i \in 1..k : i \in 1..t
      BY <1>1
    <3> QED
      BY <1>1, <3>1 DEF Arrivals
  <2> QED
    BY <1>1, <2>1 DEF MomentsOK, t
<1>4. ASSUME NEW n \in Nodes
      PROVE  m.graph.visits[n] <= Cardinality(Arrivals(q, t + 1, n))
  <2>1. /\ Cardinality(Arrivals(l, t, n)) \in Nat
        /\ l[t].graph.visits[n] \in Nat /\ m.graph.visits[n] \in Nat
    BY <1>1, <1>2, ArrivalsCount DEF GraphValues
  <2>2. l[t].graph.visits[n] <= Cardinality(Arrivals(l, t, n))
    BY <1>1 DEF MomentsOK, t
  <2>3. \A i \in 1..t : q[i].cursor = l[i].cursor
    BY <1>1
  <2>4. Cardinality(Arrivals(q, t + 1, n))
          = Cardinality(Arrivals(l, t, n)) + IF q[t + 1].cursor = n THEN 1 ELSE 0
    <3> DEFINE A == Arrivals(l, t, n)
    <3>1. IsFiniteSet(A) /\ Cardinality(A) \in Nat
      BY <1>1, ArrivalsCount
    <3>2. t + 1 \notin A
      BY <1>1 DEF Arrivals
    <3>3. Arrivals(q, t + 1, n) = IF q[t + 1].cursor = n THEN A \cup {t + 1} ELSE A
      <4>1. \A i \in 1..(t + 1) : i = t + 1 \/ i \in 1..t
        BY <1>1
      <4>2. \A i \in 1..t : i \in 1..(t + 1)
        BY <1>1
      <4> QED
        BY <1>1, <2>3, <4>1, <4>2 DEF Arrivals
    <3>4. Cardinality(A \cup {t + 1}) = Cardinality(A) + 1
      BY <3>1, <3>2, FS_AddElement
    <3> HIDE DEF A
    <3> QED
      BY <3>1, <3>3, <3>4 DEF A
  <2>5. m.graph.visits[n] <= l[t].graph.visits[n] + IF n = m.cursor THEN 1 ELSE 0
    BY DEF t
  <2> QED
    BY <1>1, <2>1, <2>2, <2>4, <2>5
<1>5. \A k \in 1..(t + 1) : k = t + 1 \/ k \in 1..t
  BY <1>1
<1>6. MomentsOK(q)
  BY <1>1, <1>3, <1>4, <1>5 DEF MomentsOK
<1> QED
  BY <1>6 DEF q

\* A hop ends: its moment is lived, and the records tell it.
LEMMA HistoryInvNext ==
    ASSUME TypeInv, OrderInv, HistoryInv,
           NextResolveEdge, UNCHANGED ledgerVars, Remember
    PROVE  HistoryInv' /\ Committed' = Committed
<1>1. /\ frame.at = "next" /\ ~Between /\ ~Idle /\ frame \in FrameType
      /\ graph \in GraphValues /\ cursor_steps \in Nat /\ frame.cursor_steps \in Nat
      /\ Reached \in Nat /\ cursor_steps <= Reached /\ Limit = Reached + 1
      /\ Limit = cursor_steps + frame.cursor_steps /\ frame.cursor_steps > 0
      /\ lived \in Seq(Moments) /\ Len(lived) = Reached + 1 /\ MomentsOK(lived)
  <2>1. frame.at = "next" /\ ~Between /\ ~Idle
    BY DEF NextResolveEdge, Between, Idle
  <2>2. UnderWay
    BY <2>1 DEF HistoryInv
  <2>3. MomentsOK(lived)
    BY DEF HistoryInv
  <2> QED
    BY <2>1, <2>2, <2>3, HistoryTypes DEF UnderWay
<1> DEFINE stack == NextStack(Pushed)
           m == MomentAt(graph, frame.cursor, stack, output_stream', Step)
<1>2. stack \in Seq(CallEdges)
  BY <1>1, StackTypes
<1>3. LoadedAgrees /\ TraceAgrees /\ UnderWay /\ LedgerAgrees
  BY <1>1 DEF HistoryInv
<1>4. /\ output_stream' = StepTrace(output_stream, frame.was_choice, stack)
      /\ frame'.at \in {"done", "follow"} /\ frame'.observed = frame.observed
      /\ frame'.step_base = frame.step_base /\ frame'.cursor = frame.cursor
      /\ frame'.cursor_steps = frame.cursor_steps
      /\ frame'.cursor_trace = frame.cursor_trace
      /\ frame'.return_stack = stack /\ frame'.was_choice = FALSE
      /\ frame'.loaded = frame.loaded /\ graph' = graph
      /\ (Stored(graph))' = Stored(graph)
  BY <1>1, <1>3 DEF Stored, NextResolveEdge, LoadedAgrees, FrameType
<1>5. lived' = Append(lived, m)
  BY <1>1, <1>4 DEF Remember
<1>6. /\ m \in Moments /\ Agrees(output_stream', Append(lived, m))
      /\ ChoicesUpTo(output_stream', cursor_steps) = ChoicesUpTo(output_stream, cursor_steps)
      /\ FirstIsChoice(output_stream', cursor_steps)
  BY <1>1, <1>2, <1>4, StepTraceAgrees
<1>7. m.graph = Stored(graph) /\ m.cursor = frame.cursor /\ m.stack = stack
  BY DEF MomentAt
<1> HIDE DEF stack, m
<1>8. /\ lived' \in Seq(Moments) /\ Len(lived') = Reached + 2
      /\ \A k \in 1..(Reached + 1) : lived'[k] = lived[k]
      /\ lived'[Reached + 2] = m
  BY <1>1, <1>5, <1>6, OneMoreMoment
<1>9. cursor_steps' = cursor_steps /\ Limit' = Limit
  BY <1>4 DEF Limit, ledgerVars
<1>10. Between' /\ ~Idle' /\ Reached' = Reached + 1
  BY <1>1, <1>4, <1>9 DEF Between, Idle, Reached
<1>11. Last' = m
  BY <1>1, <1>8 DEF Last
<1>12. MomentsOK(lived)'
  <2>1. OnePerNode(m.graph) /\ m.graph.successor = Authored
    BY <1>1, <1>3, <1>7, StoredType DEF UnderWay, OnePerNode
  <2>2. lived[Len(lived)].graph = frame.before
    BY <1>3 DEF UnderWay, Last
  <2>3. \A n \in Nodes : Stored(graph).visits[n] <= frame.before.visits[n]
                           + IF n = frame.cursor THEN 1 ELSE 0
    BY <1>1, <1>3 DEF UnderWay
  <2>4. \A n \in Nodes : m.graph.visits[n] <= lived[Len(lived)].graph.visits[n]
                           + IF n = m.cursor THEN 1 ELSE 0
    BY <1>7, <2>2, <2>3
  <2>5. Len(lived) > 0
    BY <1>1
  <2>6. MomentsOK(Append(lived, m))
    BY <1>1, <1>6, <2>1, <2>4, <2>5, MomentsGrow
  <2> QED
    BY <1>5, <2>6
<1>13. LedgerAgrees'
  <2>1. \A k \in 1..(cursor_steps + 1) : lived'[k] = lived[k]
    BY <1>1, <1>8
  <2>2. cursor_steps + 1 \in 1..(cursor_steps + 1)
    BY <1>1
  <2> QED
    BY <1>3, <1>6, <1>9, <2>1, <2>2 DEF LedgerAgrees, ledgerVars
<1>14. Committed' = Committed /\ lived'[cursor_steps + 1] = lived[cursor_steps + 1]
  BY <1>1, <1>8, <1>9, SameFirstMoments DEF Committed
<1>15. LoadedAgrees'
  BY <1>3, <1>4, <1>9, <1>14 DEF LoadedAgrees, ledgerVars
<1>16. TraceAgrees'
  <2>1. \A k \in 1..(Reached + 1 - cursor_steps) :
           frame.cursor_trace[k] = lived'[cursor_steps + 1 + k].cursor
    <3> TAKE k \in 1..(Reached + 1 - cursor_steps)
    <3>1. CASE k \in 1..(Reached - cursor_steps)
      <4>1. cursor_steps + 1 + k \in 1..(Reached + 1)
        BY <1>1, <3>1
      <4> QED
        BY <1>3, <1>8, <3>1, <4>1 DEF TraceAgrees
    <3>2. CASE k = Reached + 1 - cursor_steps
      <4>1. k = frame.cursor_steps /\ cursor_steps + 1 + k = Reached + 2
        BY <1>1, <3>2
      <4> QED
        BY <1>3, <1>7, <1>8, <4>1 DEF UnderWay
    <3> QED
      BY <1>1, <3>1, <3>2
  <2>2. ~(Reached' = cursor_steps')
    BY <1>1, <1>9, <1>10
  <2>3. FirstIsChoice(output_stream, cursor_steps)'
    BY <1>6, <1>9
  <2>4. \A k \in 1..(Reached' - cursor_steps') :
           frame'.cursor_trace[k] = lived'[cursor_steps' + 1 + k].cursor
    <3>1. Reached' - cursor_steps' = Reached + 1 - cursor_steps
      BY <1>1, <1>9, <1>10
    <3>2. (frame'.cursor_trace) = frame.cursor_trace
      BY <1>4
    <3> QED
      BY <1>9, <2>1, <3>1, <3>2
  <2> QED
    BY <1>3, <1>4, <1>7, <1>11, <2>2, <2>3, <2>4 DEF TraceAgrees
<1>17. AtRest'
  BY <1>1, <1>4, <1>7, <1>11 DEF AtRest
<1>18. Agrees(output_stream, lived)'
  BY <1>5, <1>6
<1> QED
  BY <1>1, <1>8, <1>10, <1>12, <1>13, <1>14, <1>15, <1>16, <1>17, <1>18 DEF HistoryInv

-----------------------------------------------------------------------------
(* The steps of the ledger.                                                *)

\* After a step that ends between choices the invariant is about the ledger
\* alone.
LEMMA HistoryInvIdle ==
    ASSUME frame'.at = "idle", frame'.cursor_steps = 0, cursor_steps' \in Nat,
           lived' \in Seq(Moments), Len(lived') = cursor_steps' + 1,
           MomentsOK(lived'), Agrees(output_stream', lived'), LedgerAgrees',
           graph' = lived'[cursor_steps' + 1].graph
    PROVE  HistoryInv'
<1>1. Idle' /\ Between' /\ Reached' = cursor_steps'
  <2>1. Idle' /\ Between'
    BY DEF Idle, Between
  <2>2. Limit' = cursor_steps' + frame'.cursor_steps
    BY DEF Limit
  <2>3. cursor_steps' + frame'.cursor_steps = cursor_steps'
    <3>1. \A c, d : c \in Nat /\ d = 0 => c + d = c
      OBVIOUS
    <3> QED
      BY <3>1, Zenon
  <2> QED
    BY <2>1, <2>2, <2>3 DEF Reached
<1>2. graph' = (Last.graph)'
  BY DEF Last
<1> QED
  BY <1>1, <1>2 DEF HistoryInv

\* A choice is written back: the moments its hops lived become the ledger's.
LEMMA HistoryInvCommit ==
    ASSUME Replayable, TypeInv, OrderInv, HistoryInv, CommitChoice, Remember
    PROVE  /\ HistoryInv' /\ lived' = lived
           /\ cursor_steps < cursor_steps' /\ Len(lived) = cursor_steps' + 1
<1>1. /\ frame.at = "done" /\ Between /\ ~Idle /\ frame \in FrameType
      /\ graph \in GraphValues /\ cursor_steps \in Nat /\ frame.cursor_steps \in Nat
      /\ Reached = Limit /\ Limit \in Nat
      /\ Limit = cursor_steps + frame.cursor_steps
      /\ lived \in Seq(Moments) /\ Len(lived) = Limit + 1
      /\ Last \in Moments /\ Last = lived[Limit + 1]
      /\ output_stream \in Seq(Records) /\ StreamOK(output_stream)
      /\ frame.cursor \in Nodes
  <2>1. frame.at = "done" /\ Between /\ ~Idle
    BY DEF CommitChoice, Between, Idle
  <2>2. frame.cursor \in Nodes
    BY <2>1 DEF TypeInv, TypeOK, FrameTypeOK
  <2> QED
    BY <2>1, <2>2, HistoryTypes
<1>2. /\ MomentsOK(lived) /\ Agrees(output_stream, lived) /\ LedgerAgrees
      /\ LoadedAgrees /\ TraceAgrees /\ AtRest
  BY <1>1 DEF HistoryInv
<1>3. /\ choice_steps' = choice_steps + 1 /\ cursor_steps' = Limit
      /\ reentrant_steps' = reentrant_steps
            + Reentries(cursor_history[Len(cursor_history)], frame.cursor_trace)
      /\ cursor_id' = frame.cursor
      /\ cursor_history' = cursor_history \o frame.cursor_trace
      /\ call_stack_ids' = frame.return_stack
      /\ frame' = IdleFrame /\ graph' = Stored(graph)
  BY <1>1 DEF CommitChoice, SyncFromFrame, Persisted, Replayable, Undisturbed
<1>4. frame'.at = "idle" /\ frame'.cursor_steps = 0
  BY <1>3 DEF IdleFrame
<1>4a. /\ cursor_steps \in Nat /\ frame.cursor_steps \in Nat /\ Limit \in Nat
       /\ Limit = cursor_steps + frame.cursor_steps /\ Reached = Limit /\ Len(lived) = Limit + 1
  BY <1>1
<1>5. lived' = lived
  <2>1. lived' = SubSeq(lived, 1, cursor_steps' + 1)
    BY <1>1, <1>4 DEF Remember
  <2>2. Limit + 1 \in 1..(Limit + 1)
    BY SMTT(30), <1>1
  <2>3. Len(lived) \in 1..Len(lived)
    BY <1>1, <2>2
  <2>4. lived' = SubSeq(lived, 1, Len(lived))
    BY <1>1, <1>3, <2>1
  <2> QED
    BY <1>1, <2>3, <2>4, FirstMoments
<1>6. cursor_steps < Limit
  BY <1>1, <1>2 DEF AtRest
<1>7. /\ Last.graph = Stored(graph) /\ Last.cursor = frame.cursor /\ Last.stack = frame.return_stack
      /\ lived[Limit + 1].graph = Stored(graph) /\ lived[Limit + 1].cursor = cursor_id'
      /\ lived[Limit + 1].stack = call_stack_ids'
  BY <1>1, <1>2, <1>3 DEF AtRest, TraceAgrees
<1> DEFINE r == CheckpointRecord(cursor_steps', Stored(graph), cursor_id', call_stack_ids')
           s == output_stream'
<1>8. /\ r \in Records /\ r.kind = "checkpoint" /\ r.step = Limit /\ r.payload = Stored(graph)
      /\ r.cursor_id = cursor_id' /\ r.call_stack_ids = call_stack_ids'
  <2>1. call_stack_ids' \in Seq(CallEdges)
    BY <1>1, <1>3 DEF FrameType
  <2> QED
    BY <1>1, <1>3, <2>1, StoredType DEF CheckpointRecord, Records
<1>9. s = AppendIf(output_stream, r, Due(choice_steps'))
  BY DEF CommitChoice, SyncFromFrame, Checkpoint
<1> HIDE DEF r, s
<1>10. Agrees(s, lived)
  <2>1. r.step \in 0..(Len(lived) - 1)
    BY <1>1, <1>8
  <2>2. r.kind # "step" /\ ~IsJournal(r)
    BY <1>8 DEF IsJournal
  <2>3. /\ r.payload = lived[r.step + 1].graph
        /\ r.cursor_id = lived[r.step + 1].cursor
        /\ r.call_stack_ids = lived[r.step + 1].stack
    BY <1>7, <1>8
  <2>4. Agrees(Append(output_stream, r), lived)
    BY <1>1, <1>2, <1>8, <2>1, <2>2, <2>3, AppendAgrees
  <2> QED
    BY <1>2, <1>9, <2>4 DEF AppendIf
<1>11. Cardinality(ChoicesUpTo(s, Limit)) = choice_steps + 1
  <2>1. ChoicesUpTo(s, Limit) = ChoicesUpTo(output_stream, Limit)
    <3>1. r.kind = "step" => ~ (r.step <= Limit)
      BY <1>8
    <3>2. ChoicesUpTo(Append(output_stream, r), Limit) = ChoicesUpTo(output_stream, Limit)
      BY <1>1, <1>8, <3>1, ChoicesStay
    <3> QED
      BY <1>9, <3>2 DEF AppendIf
  <2>2. Len(lived) - 1 = Limit
    BY <1>1
  <2>3. StepsAgree(output_stream, lived)
    BY <1>2 DEF Agrees
  <2>4. \A i \in DOMAIN output_stream :
           output_stream[i].kind = "step" /\ output_stream[i].step > cursor_steps =>
              (output_stream[i].was_choice <=> output_stream[i].step = cursor_steps + 1)
    BY <1>2 DEF TraceAgrees, FirstIsChoice
  <2>5. cursor_steps < Len(lived) - 1
    BY <1>6, <2>2
  <2>6. Cardinality(ChoicesUpTo(output_stream, Len(lived) - 1))
           = Cardinality(ChoicesUpTo(output_stream, cursor_steps)) + 1
    BY <1>1, <2>3, <2>4, <2>5, OneMoreChoice
  <2> QED
    BY <1>2, <2>1, <2>2, <2>6 DEF LedgerAgrees
<1>12. /\ cursor_history \in Seq(Nodes) /\ cursor_history # <<>>
       /\ frame.cursor_trace \in Seq(Nodes)
  BY <1>1 DEF TypeInv, TypeOK, FrameType
<1> DEFINE h == cursor_history
           t == frame.cursor_trace
<1>13. /\ h \o t \in Seq(Nodes) /\ Len(h \o t) = Len(h) + Len(t)
       /\ \A i \in 1..(Len(h) + Len(t)) :
             (h \o t)[i] = IF i <= Len(h) THEN h[i] ELSE t[i - Len(h)]
  BY <1>12, ConcatProperties
<1>14. Len(h) = cursor_steps + 1 /\ Len(t) = frame.cursor_steps
  BY <1>2 DEF LedgerAgrees, TraceAgrees
<1>15. \A k \in 1..(cursor_steps + 1) : h[k] = lived[k].cursor
  BY <1>2 DEF LedgerAgrees
<1>16. \A k \in 1..frame.cursor_steps : t[k] = lived[cursor_steps + 1 + k].cursor
  <2>1. Reached - cursor_steps = frame.cursor_steps
    BY <1>4a
  <2> QED
    BY <1>2, <2>1 DEF TraceAgrees
<1>17. reentrant_steps' = Reentries((h \o t)[1], Tail(h \o t))
  BY <1>2, <1>3, <1>12, ReentriesAdd DEF LedgerAgrees
<1>18. cursor_history' = h \o t
  BY <1>3
<1> HIDE DEF h, t
<1>19. Len(h \o t) = Limit + 1
  BY <1>4a, <1>13, <1>14
<1>20. \A k \in 1..(Limit + 1) : (h \o t)[k] = lived[k].cursor
  <2> TAKE k \in 1..(Limit + 1)
  <2>1. CASE k <= cursor_steps + 1
    BY SMTT(30), <1>4a, <1>13, <1>14, <1>15, <2>1
  <2>2. CASE ~(k <= cursor_steps + 1)
    <3>1. k - (cursor_steps + 1) \in 1..frame.cursor_steps
      BY <1>4a, <2>2
    <3>2. t[k - (cursor_steps + 1)] = lived[cursor_steps + 1 + (k - (cursor_steps + 1))].cursor
      BY <1>16, <3>1
    <3>3. cursor_steps + 1 + (k - (cursor_steps + 1)) = k
      BY <1>4a
    <3>4. k \in 1..(Len(h) + Len(t)) /\ ~(k <= Len(h))
      BY <1>4a, <1>14, <2>2
    <3>5. (h \o t)[k] = t[k - Len(h)]
      BY <1>13, <3>4
    <3> QED
      BY <1>14, <3>2, <3>3, <3>5
  <2> QED
    BY <2>1, <2>2
<1>21. LedgerAgrees'
  <2>1. (output_stream') = s
    BY DEF s
  <2> QED
    BY <1>3, <1>5, <1>7, <1>11, <1>17, <1>18, <1>19, <1>20, <2>1 DEF LedgerAgrees
<1>22. Agrees(output_stream, lived)' /\ MomentsOK(lived)'
  BY <1>2, <1>5, <1>10 DEF s
<1>23. HistoryInv'
  <2>1. cursor_steps' \in Nat /\ lived' \in Seq(Moments) /\ Len(lived') = cursor_steps' + 1
    BY <1>1, <1>3, <1>5
  <2>2. graph' = lived'[cursor_steps' + 1].graph
    BY <1>3, <1>5, <1>7
  <2> QED
    BY <1>4, <1>21, <1>22, <2>1, <2>2, HistoryInvIdle
<1> QED
  BY <1>1, <1>3, <1>5, <1>6, <1>23

\* A choice that raises: what was loaded comes back, and it is where the
\* ledger stands.
LEMMA HistoryInvFail ==
    ASSUME Replayable, TypeInv, OrderInv, HistoryInv, FailChoice, Remember
    PROVE  HistoryInv' /\ cursor_steps' = cursor_steps /\ lived' = Committed
<1>1. /\ frame.at # "next" /\ ~Idle
  BY DEF FailChoice, ResolveRaises, DepthExceeded, ValidationFails, HandlerFails,
         InPhase, Idle
<1>2. /\ lived \in Seq(Moments) /\ Len(lived) = Reached + 1 /\ Reached \in Nat
      /\ cursor_steps \in Nat /\ cursor_steps <= Reached
      /\ MomentsOK(lived) /\ LedgerAgrees /\ LoadedAgrees
  BY <1>1, HistoryTypes DEF HistoryInv
<1>3. /\ graph' = frame.loaded.graph /\ output_stream' = frame.loaded.stream
      /\ frame' = IdleFrame /\ UNCHANGED ledgerVars
  BY DEF Replayable, Undisturbed, FailChoice, Kept, Reload
<1>4. /\ frame'.at = "idle" /\ frame'.cursor_steps = 0 /\ cursor_steps' = cursor_steps
  BY <1>3 DEF IdleFrame, ledgerVars
<1>5. lived' = Committed
  BY <1>1, <1>4 DEF Remember, Committed
<1>6. cursor_steps + 1 \in 1..Len(lived) /\ cursor_steps + 1 \in 1..(cursor_steps + 1)
  BY <1>2
<1>7. /\ lived' \in Seq(Moments) /\ Len(lived') = cursor_steps + 1
      /\ \A k \in 1..(cursor_steps + 1) : lived'[k] = lived[k]
  BY <1>2, <1>5, <1>6, FirstMoments DEF Committed
<1>8. MomentsOK(lived')
  <2>1. Len(lived') <= Len(lived)
    BY <1>2, <1>7
  <2>2. \A k \in 1..Len(lived') : lived'[k] = lived[k]
    BY <1>7
  <2> QED
    BY <1>2, <1>7, <2>1, <2>2, MomentsKept
<1>9. Agrees(output_stream', lived')
  BY <1>2, <1>3, <1>5 DEF LoadedAgrees
<1>10. LedgerAgrees'
  <2>1. choice_steps = Cardinality(ChoicesUpTo(output_stream', cursor_steps))
    BY <1>2, <1>3 DEF LoadedAgrees
  <2> QED
    BY <1>2, <1>3, <1>4, <1>6, <1>7, <2>1 DEF LedgerAgrees, ledgerVars
<1>11. graph' = lived'[cursor_steps' + 1].graph
  BY <1>2, <1>3, <1>4, <1>6, <1>7 DEF LoadedAgrees
<1>12. HistoryInv'
  <2>1. cursor_steps' \in Nat /\ Len(lived') = cursor_steps' + 1
    BY <1>2, <1>4, <1>7
  <2> QED
    BY <1>4, <1>7, <1>8, <1>9, <1>10, <1>11, <2>1, HistoryInvIdle
<1> QED
  BY <1>4, <1>5, <1>12

\* A causality transition between choices is no record of a moment.
LEMMA HistoryInvEscalate ==
    ASSUME Replayable, TypeInv, OrderInv, HistoryInv,
           NEW to \in {SOFT_DIRTY, HARD_DIRTY}, Escalate(to), Remember
    PROVE  HistoryInv' /\ lived' = lived /\ frame' = frame /\ cursor_steps' = cursor_steps
<1>1. Idle /\ frame.at = "idle" /\ frame.cursor_steps = 0
  BY DEF Escalate, Ready, Idle, Replayable, Undisturbed, OrderInv
<1>2. /\ lived \in Seq(Moments) /\ Len(lived) = cursor_steps + 1 /\ cursor_steps \in Nat
      /\ MomentsOK(lived) /\ Agrees(output_stream, lived) /\ LedgerAgrees
      /\ output_stream \in Seq(Records) /\ StreamOK(output_stream)
      /\ graph = Last.graph /\ Last = lived[cursor_steps + 1]
  BY <1>1, HistoryTypes DEF HistoryInv
<1>3. /\ graph' = graph /\ frame' = frame /\ UNCHANGED ledgerVars
      /\ cursor_steps' = cursor_steps
      /\ output_stream' = Append(output_stream, CausalityTransition(cursor_steps, to))
  BY DEF Escalate, ledgerVars
<1>4. lived' = lived
  <2>1. lived' = SubSeq(lived, 1, cursor_steps + 1)
    BY <1>1, <1>3 DEF Remember
  <2>2. cursor_steps + 1 \in 1..(cursor_steps + 1)
    BY <1>2
  <2>3. Len(lived) \in 1..Len(lived) /\ lived' = SubSeq(lived, 1, Len(lived))
    BY <1>2, <2>1, <2>2
  <2> QED
    BY <1>2, <2>3, FirstMoments
<1>5. /\ Agrees(output_stream', lived)
      /\ ChoicesUpTo(output_stream', cursor_steps) = ChoicesUpTo(output_stream, cursor_steps)
  <2> DEFINE r == CausalityTransition(cursor_steps, to)
  <2>1. r \in Records /\ r.kind \notin {"step", "checkpoint"} /\ ~IsJournal(r)
    BY <1>2 DEF CausalityTransition, Records, IsJournal
  <2> HIDE DEF r
  <2>2. /\ Agrees(Append(output_stream, r), lived)
        /\ ChoicesUpTo(Append(output_stream, r), cursor_steps)
              = ChoicesUpTo(output_stream, cursor_steps)
    BY <1>2, <2>1, AppendAgrees, ChoicesStay
  <2> QED
    BY <1>3, <2>2 DEF r
<1>6. LedgerAgrees'
  BY <1>2, <1>3, <1>4, <1>5 DEF LedgerAgrees, ledgerVars
<1>7. HistoryInv'
  <2>1. frame'.at = "idle" /\ frame'.cursor_steps = 0
    BY <1>1, <1>3
  <2>2. cursor_steps' \in Nat /\ lived' \in Seq(Moments) /\ Len(lived') = cursor_steps' + 1
    BY <1>2, <1>3, <1>4
  <2>3. graph' = lived'[cursor_steps' + 1].graph
    BY <1>2, <1>3, <1>4
  <2>4. MomentsOK(lived') /\ Agrees(output_stream', lived')
    BY <1>2, <1>4, <1>5
  <2> QED
    BY <1>6, <2>1, <2>2, <2>3, <2>4, HistoryInvIdle
<1> QED
  BY <1>3, <1>4, <1>7

\* A rollback restores the moment of its target and forgets the later ones.
LEMMA HistoryInvRollback ==
    ASSUME TypeInv, OrderInv, HistoryInv,
           NEW n \in Nat, RollbackToStep(n), Remember
    PROVE  /\ HistoryInv' /\ lived' = SubSeq(lived, 1, n + 1)
           /\ cursor_steps' = n /\ n < cursor_steps
<1>1. Idle /\ frame.at = "idle" /\ frame.cursor_steps = 0 /\ frame' = frame
  BY DEF RollbackToStep, Ready, Idle, OrderInv
<1>2. /\ lived \in Seq(Moments) /\ Len(lived) = cursor_steps + 1 /\ cursor_steps \in Nat
      /\ MomentsOK(lived) /\ Agrees(output_stream, lived)
      /\ output_stream \in Seq(Records) /\ StreamOK(output_stream)
      /\ InStepOrder(output_stream)
  BY <1>1, HistoryTypes DEF HistoryInv, OrderInv
<1>3. /\ n < cursor_steps /\ cursor_steps' = n
      /\ graph' = Replay(n).graph /\ cursor_id' = Replay(n).cursor_id
      /\ call_stack_ids' = Replay(n).call_stack_ids
      /\ cursor_history' = Replay(n).history
      /\ reentrant_steps' = Reentries(Replay(n).history[1], Tail(Replay(n).history))
      /\ choice_steps' = Replay(n).choices
      /\ output_stream' = Append(SubSeq(output_stream, 1, Cutoff(n)),
                                 RollbackRecord(n, cursor_steps))
  BY DEF RollbackToStep
<1>4. n \in 0..(Len(lived) - 1) /\ n + 1 \in 1..Len(lived) /\ n + 1 \in 1..(n + 1)
  BY <1>2, <1>3
<1>5. Recalls(lived)
  BY <1>2 DEF Recalls
<1>6. /\ Replay(n).graph = lived[n + 1].graph
      /\ Replay(n).cursor_id = lived[n + 1].cursor
      /\ Replay(n).call_stack_ids = lived[n + 1].stack
      /\ Len(Replay(n).history) = n + 1
      /\ \A k \in 1..(n + 1) : Replay(n).history[k] = lived[k].cursor
      /\ Replay(n).choices = Cardinality(ChoicesUpTo(output_stream, n))
  BY <1>4, <1>5, ReplayRecalls
<1>7. lived' = SubSeq(lived, 1, n + 1)
  BY <1>1, <1>3 DEF Remember
<1>8. /\ lived' \in Seq(Moments) /\ Len(lived') = n + 1
      /\ \A k \in 1..(n + 1) : lived'[k] = lived[k]
  BY <1>2, <1>4, <1>7, FirstMoments
<1>9. MomentsOK(lived')
  <2>1. Len(lived') <= Len(lived)
    BY <1>2, <1>3, <1>8
  <2>2. \A k \in 1..Len(lived') : lived'[k] = lived[k]
    BY <1>8
  <2> QED
    BY <1>2, <1>8, <2>1, <2>2, MomentsKept
<1> DEFINE c == Cutoff(n)
           kept == SubSeq(output_stream, 1, c)
           r == RollbackRecord(n, cursor_steps)
<1>10. /\ c \in 1..Len(output_stream) /\ kept \in Seq(Records) /\ UpTo(kept, n)
       /\ \A j \in DOMAIN output_stream :
             HasStep(output_stream[j]) /\ output_stream[j].step <= n => j <= c
  BY <1>2, CutoffInOrder, CutoffPlace
<1>11. StreamOK(kept)
  <2> HIDE DEF c
  <2> QED
    BY <1>2, <1>10, PrefixKeepsShape
<1>12. \A i \in 1..c : i \in DOMAIN kept /\ kept[i] = output_stream[i]
  <2>1. Len(output_stream) \in Nat /\ \A i \in 1..Len(output_stream) : output_stream[i] \in Records
    BY <1>2, LenProperties, ElementOfSeq
  <2> HIDE DEF c
  <2>2. c \in Nat /\ \A i \in 1..c : output_stream[i] \in Records
    BY <1>10, <2>1
  <2>3. Len(kept) = c /\ \A i \in 1..c : kept[i] = output_stream[i]
    BY <2>2, SubSeqProperties
  <2> HIDE DEF kept
  <2> QED
    BY <1>10, <2>3, LenProperties
<1> HIDE DEF c, kept
<1>13. \A i \in DOMAIN output_stream :
          HasStep(output_stream[i]) => (output_stream[i].step <= n <=> i <= c)
  <2> SUFFICES ASSUME NEW i \in DOMAIN output_stream, HasStep(output_stream[i]), i <= c
               PROVE  output_stream[i].step <= n
    BY <1>10
  <2>1. i \in 1..c
    BY <1>2, <1>10, LenProperties
  <2> QED
    BY <1>10, <1>12, <2>1 DEF UpTo
<1>14. Agrees(kept, lived') /\ ChoicesUpTo(kept, n) = ChoicesUpTo(output_stream, n)
  <2>1. Agrees(SubSeq(output_stream, 1, c), SubSeq(lived, 1, n + 1))
    BY <1>2, <1>4, <1>10, <1>13, CutAgrees
  <2>2. ChoicesUpTo(SubSeq(output_stream, 1, c), n) = ChoicesUpTo(output_stream, n)
    BY <1>2, <1>10, <1>13, ChoicesKept
  <2> QED
    BY <1>7, <2>1, <2>2 DEF kept
<1>15. r \in Records /\ r.kind \notin {"step", "checkpoint"} /\ ~IsJournal(r)
  BY <1>2 DEF RollbackRecord, Records, IsJournal
<1>16. output_stream' = Append(kept, r)
  BY <1>3 DEF kept, c
<1> HIDE DEF r
<1>17. /\ Agrees(output_stream', lived')
       /\ ChoicesUpTo(output_stream', n) = ChoicesUpTo(output_stream, n)
  <2>1. /\ Agrees(Append(kept, r), lived')
        /\ ChoicesUpTo(Append(kept, r), n) = ChoicesUpTo(kept, n)
    BY <1>8, <1>10, <1>11, <1>14, <1>15, AppendAgrees, ChoicesStay
  <2> QED
    BY <1>14, <1>16, <2>1
<1>18. LedgerAgrees'
  <2>1. /\ cursor_id' = lived'[n + 1].cursor /\ call_stack_ids' = lived'[n + 1].stack
        /\ \A k \in 1..(n + 1) : cursor_history'[k] = lived'[k].cursor
        /\ Len(cursor_history') = n + 1
    BY <1>3, <1>4, <1>6, <1>8
  <2>2. choice_steps' = Cardinality(ChoicesUpTo(output_stream', n))
    BY <1>3, <1>6, <1>17
  <2>3. reentrant_steps' = Reentries(cursor_history'[1], Tail(cursor_history'))
    BY <1>3
  <2> QED
    BY <1>3, <2>1, <2>2, <2>3 DEF LedgerAgrees
<1>19. HistoryInv'
  <2>1. frame'.at = "idle" /\ frame'.cursor_steps = 0
    BY <1>1
  <2>2. cursor_steps' \in Nat /\ Len(lived') = cursor_steps' + 1
    BY <1>3, <1>8
  <2>3. graph' = lived'[cursor_steps' + 1].graph
    BY <1>3, <1>4, <1>6, <1>8
  <2> QED
    BY <1>8, <1>9, <1>17, <1>18, <2>1, <2>2, <2>3, HistoryInvIdle
<1> QED
  BY <1>3, <1>7, <1>19

-----------------------------------------------------------------------------
(* The moments committed are a timeline.                                   *)

\* How many moments are committed, and that each is what it was when lived.
LEMMA CommittedMoments ==
    ASSUME TypeInv, OrderInv, HistoryInv
    PROVE  /\ Committed \in Seq(Moments) /\ Len(Committed) = cursor_steps + 1
           /\ \A k \in 1..(cursor_steps + 1) : Committed[k] = lived[k]
<1>1. /\ lived \in Seq(Moments) /\ Len(lived) = Reached + 1 /\ Reached \in Nat
      /\ cursor_steps \in Nat /\ cursor_steps <= Reached
  BY HistoryTypes
<1>2. cursor_steps + 1 \in 1..Len(lived)
  BY <1>1
<1> QED
  BY <1>1, <1>2, FirstMoments DEF Committed

\* Between choices the ledger stands at the last moment committed.
LEMMA LiveIsCommitted ==
    ASSUME TypeInv, OrderInv, HistoryInv, Idle
    PROVE  Live = lived[cursor_steps + 1]
<1>1. /\ Last \in Moments /\ Last = lived[cursor_steps + 1] /\ graph = Last.graph
      /\ cursor_steps \in Nat /\ Len(lived) = cursor_steps + 1
  BY HistoryTypes DEF HistoryInv
<1>2. cursor_id = Last.cursor /\ call_stack_ids = Last.stack
  BY <1>1 DEF HistoryInv, LedgerAgrees
<1>3. ContentOf(output_stream, cursor_steps) = Last.content
  <2>1. cursor_steps \in 0..(Len(lived) - 1)
    BY <1>1
  <2> QED
    BY <1>1, <2>1 DEF HistoryInv, Agrees, ContentAgrees
<1>4. Live = Last
  BY <1>1, <1>2, <1>3 DEF Live, MomentAt, Moments, StoredGraphs
<1> QED
  BY <1>1, <1>4

\* Fewer moments of a list are cut back from it, and it extends them.
LEMMA PrefixOfMoments ==
    ASSUME NEW l \in Seq(Moments), NEW n \in 1..Len(l), n < Len(l)
    PROVE  Line!Extends(SubSeq(l, 1, n), l) /\ Line!CutsBack(l, SubSeq(l, 1, n))
<1>1. Len(l) \in Nat /\ n \in Nat /\ 1 <= n
  BY MomentTypes
<1>2. SubSeq(l, 1, n) \in Seq(Moments) /\ Len(SubSeq(l, 1, n)) = n
  BY FirstMoments
<1> QED
  BY <1>1, <1>2 DEF Line!Extends, Line!CutsBack, Line!Prefix

\* Every step of the ledger keeps the invariant, and leaves the moments
\* committed alone, adds some or cuts some off: one case per action.
LEMMA HistoryInvStep ==
    ASSUME Replayable, TypeInv, OrderInv, HistoryInv, [HNext]_hvars
    PROVE  /\ HistoryInv'
           /\ \/ cursor_steps' = cursor_steps /\ Committed' = Committed
              \/ Line!Extends(Committed, Committed')
              \/ Line!CutsBack(Committed, Committed')
<1>1. /\ lived \in Seq(Moments) /\ Len(lived) = Reached + 1 /\ Reached \in Nat
      /\ cursor_steps \in Nat /\ cursor_steps <= Reached
      /\ Idle => Reached = cursor_steps
      /\ Committed \in Seq(Moments) /\ Len(Committed) = cursor_steps + 1
  BY HistoryTypes, CommittedMoments
<1>2. ASSUME NEW e \in Edges, BeginChoice(e), Remember
      PROVE  HistoryInv' /\ cursor_steps' = cursor_steps /\ Committed' = Committed
  <2>1. lived' = lived /\ cursor_steps' = cursor_steps
    BY <1>2 DEF BeginChoice, Ready, Idle, StartFrame, IdleFrame, Remember, ledgerVars
  <2> QED
    BY <1>2, <2>1, HistoryInvBegin DEF Committed
<1>3. ASSUME FrameStep, UNCHANGED ledgerVars, Remember
      PROVE  HistoryInv' /\ cursor_steps' = cursor_steps /\ Committed' = Committed
  <2>1. frame \in FrameType /\ cursor_steps' = cursor_steps
    BY <1>3, HistoryTypes DEF ledgerVars
  <2>2. CASE NextResolveEdge
    BY <1>3, <2>1, <2>2, HistoryInvNext
  <2>3. CASE ~NextResolveEdge
    <3>1. frame.at # "next" /\ frame'.at # "idle"
      BY <1>3, <2>1, <2>3
         DEF FrameStep, PrepareFollowEdge, PlanningPhase, PrereqsPhase, UpdatePhase,
             JournalPhase, FinalizePhase, PostreqsPhase, Goto, FrameType
    <3>2. lived' = lived
      BY <1>3, <3>1 DEF Remember
    <3>3. HistoryInv'
      BY <1>3, <2>3, <3>2, HistoryInvPrepare, HistoryInvPlanning, HistoryInvQuiet,
         HistoryInvLoud DEF FrameStep
    <3> QED
      BY <2>1, <3>2, <3>3 DEF Committed
  <2> QED
    BY <2>2, <2>3
<1>4. ASSUME CommitChoice, Remember
      PROVE  HistoryInv' /\ Line!Extends(Committed, Committed')
  <2>1. /\ HistoryInv' /\ lived' = lived
        /\ cursor_steps < cursor_steps' /\ Len(lived) = cursor_steps' + 1
    BY <1>4, HistoryInvCommit
  <2>2. cursor_steps' \in Nat
    <3>1. frame \in FrameType /\ cursor_steps' = cursor_steps + frame.cursor_steps
      BY <1>4, HistoryTypes DEF CommitChoice, SyncFromFrame, Limit
    <3> QED
      BY <1>1, <3>1 DEF FrameType
  <2>3. Len(lived) \in 1..Len(lived) /\ cursor_steps + 1 \in 1..Len(lived)
        /\ cursor_steps + 1 < Len(lived)
    BY <1>1, <2>1, <2>2
  <2>4. Committed' = lived
    <3>1. Committed' = SubSeq(lived, 1, Len(lived))
      BY <2>1 DEF Committed
    <3> QED
      BY <1>1, <2>3, <3>1, FirstMoments
  <2> QED
    BY <1>1, <2>1, <2>3, <2>4, PrefixOfMoments DEF Committed
<1>5. ASSUME FailChoice, Remember
      PROVE  HistoryInv' /\ cursor_steps' = cursor_steps /\ Committed' = Committed
  <2>1. HistoryInv' /\ cursor_steps' = cursor_steps /\ lived' = Committed
    BY <1>5, HistoryInvFail
  <2>2. Committed' = SubSeq(Committed, 1, cursor_steps + 1)
    BY <2>1 DEF Committed
  <2>3. cursor_steps + 1 \in 1..(cursor_steps + 1)
    BY <1>1
  <2>4. Len(Committed) \in 1..Len(Committed) /\ Committed' = SubSeq(Committed, 1, Len(Committed))
    BY <1>1, <2>2, <2>3
  <2>5. Committed' = Committed
    BY <1>1, <2>4, FirstMoments
  <2> QED
    BY <2>1, <2>5
<1>6. ~Prime /\ ~CommitPrime
  <2>1. ~Prime
    BY DEF Prime, Ready, Replayable
  <2>2. ~CommitPrime
    BY DEF CommitPrime, HistoryInv, LoadedAgrees, Idle
  <2> QED
    BY <2>1, <2>2
<1>7. ASSUME NEW to \in {SOFT_DIRTY, HARD_DIRTY}, Escalate(to), Remember
      PROVE  HistoryInv' /\ cursor_steps' = cursor_steps /\ Committed' = Committed
  BY <1>7, HistoryInvEscalate DEF Committed
<1>8. ~ \E name \in BookmarkNames, s \in MarkSteps \cup {cursor_steps} : SetBookmark(name, s)
  BY DEF Replayable
<1>9. ASSUME NEW n \in RollbackSteps, RollbackToStep(n), Remember
      PROVE  HistoryInv' /\ Line!CutsBack(Committed, Committed')
  <2>1. n \in Nat
    BY LedgerAssumption
  <2>2. /\ HistoryInv' /\ lived' = SubSeq(lived, 1, n + 1)
        /\ cursor_steps' = n /\ n < cursor_steps
    BY <1>9, <2>1, HistoryInvRollback
  <2>3. Idle
    BY <1>9 DEF RollbackToStep, Ready
  <2>4. /\ Len(lived) = cursor_steps + 1 /\ n + 1 \in 1..Len(lived) /\ n + 1 < Len(lived)
        /\ n + 1 \in 1..(n + 1) /\ Len(lived) \in 1..Len(lived)
    <3>1. Len(lived) = cursor_steps + 1 /\ cursor_steps \in Nat
      BY <1>1, <2>3
    <3> QED
      BY <2>1, <2>2, <3>1
  <2>5. Committed = lived
    BY <1>1, <2>4, FirstMoments DEF Committed
  <2>6. Committed' = SubSeq(lived, 1, n + 1)
    <3> DEFINE q == SubSeq(lived, 1, n + 1)
    <3>1. q \in Seq(Moments) /\ Len(q) = n + 1
      BY <1>1, <2>4, FirstMoments
    <3>2. Committed' = SubSeq(q, 1, n + 1)
      BY <2>2 DEF Committed
    <3> HIDE DEF q
    <3>3. Committed' = q
      BY <2>4, <3>1, <3>2, FirstMoments
    <3> QED
      BY <3>3 DEF q
  <2> QED
    BY <1>1, <2>2, <2>4, <2>5, <2>6, PrefixOfMoments
<1>10. CASE UNCHANGED hvars
  <2>1. UNCHANGED <<graph, output_stream, frame, lived, ledgerVars>>
    BY <1>10 DEF hvars, vars, frameVars
  <2>2. Between' = Between /\ Idle' = Idle /\ Reached' = Reached /\ cursor_steps' = cursor_steps
    BY <2>1 DEF Between, Idle, Reached, Limit, ledgerVars
  <2>3. Committed' = Committed /\ Last' = Last
    BY <2>1, <2>2 DEF Committed, Last
  <2>4. LedgerAgrees' <=> LedgerAgrees
    BY <2>1 DEF LedgerAgrees, ledgerVars
  <2>5. (LoadedAgrees' <=> LoadedAgrees) /\ (TraceAgrees' <=> TraceAgrees)
    BY <2>1, <2>2, <2>3 DEF LoadedAgrees, TraceAgrees, ledgerVars
  <2>6. (AtRest' <=> AtRest) /\ (UnderWay' <=> UnderWay)
    BY <2>1, <2>3 DEF AtRest, UnderWay
  <2>7. HistoryInv'
    BY <2>1, <2>2, <2>3, <2>4, <2>5, <2>6 DEF HistoryInv
  <2> QED
    BY <2>2, <2>3, <2>7
<1>11. CASE HNext
  BY <1>2, <1>3, <1>4, <1>5, <1>6, <1>7, <1>8, <1>9, <1>11 DEF HNext, Next
<1> QED
  BY <1>10, <1>11

-----------------------------------------------------------------------------
(* What the runs check, for every replayable story.                        *)

\* Between choices every step is restored as it was lived.
LEMMA EveryStepRestored ==
    ASSUME TypeInv, OrderInv, HistoryInv
    PROVE  RestoresEveryStep
<1> SUFFICES ASSUME Idle, NEW n \in 0..cursor_steps
             PROVE  Replay(n).applies /\ Restored(n) = lived[n + 1]
  BY DEF RestoresEveryStep
<1>1. /\ cursor_steps \in Nat /\ Len(lived) = cursor_steps + 1
      /\ lived \in Seq(Moments) /\ Agrees(output_stream, lived)
      /\ output_stream \in Seq(Records) /\ StreamOK(output_stream)
  BY HistoryTypes DEF HistoryInv
<1>2. Recalls(lived) /\ n \in 0..(Len(lived) - 1)
  BY <1>1 DEF Recalls
<1> QED
  BY <1>2, ReplayRecalls

\* Between choices the counters are those the records give.
LEMMA CountersAreRecorded ==
    ASSUME TypeInv, OrderInv, HistoryInv
    PROVE  CountersMatchRecords
<1> SUFFICES ASSUME Idle
             PROVE  /\ cursor_history = Replay(cursor_steps).history
                    /\ Len(cursor_history) = cursor_steps + 1
                    /\ choice_steps = Replay(cursor_steps).choices
                    /\ reentrant_steps = Reentries(Replay(cursor_steps).history[1],
                                                   Tail(Replay(cursor_steps).history))
  BY DEF CountersMatchRecords
<1>1. /\ cursor_steps \in Nat /\ Len(lived) = cursor_steps + 1
      /\ lived \in Seq(Moments) /\ Agrees(output_stream, lived)
      /\ output_stream \in Seq(Records) /\ StreamOK(output_stream)
      /\ LedgerAgrees /\ cursor_history \in Seq(Nodes)
  BY HistoryTypes DEF HistoryInv, TypeInv, TypeOK
<1>2. Recalls(lived) /\ cursor_steps \in 0..(Len(lived) - 1)
  BY <1>1 DEF Recalls
<1>3. /\ Replay(cursor_steps).history \in Seq(Nodes)
      /\ Len(Replay(cursor_steps).history) = cursor_steps + 1
      /\ \A k \in 1..(cursor_steps + 1) : Replay(cursor_steps).history[k] = lived[k].cursor
      /\ Replay(cursor_steps).choices = Cardinality(ChoicesUpTo(output_stream, cursor_steps))
  BY <1>2, ReplayRecalls
<1> DEFINE h == Replay(cursor_steps).history
<1>4. cursor_history = h
  <2> HIDE DEF h
  <2>1. h \in Seq(Nodes) /\ Len(h) = Len(cursor_history)
    BY <1>1, <1>3 DEF h, LedgerAgrees
  <2>2. \A k \in 1..Len(h) : h[k] = cursor_history[k]
    BY <1>1, <1>3 DEF h, LedgerAgrees
  <2> QED
    BY <1>1, <2>1, <2>2, SeqEqual
<1> QED
  BY <1>1, <1>3, <1>4 DEF LedgerAgrees

\* Between choices no node was visited more often than the cursor was there.
LEMMA VisitsAreOfHistory ==
    ASSUME TypeInv, OrderInv, HistoryInv
    PROVE  VisitsWithinHistory
<1> SUFFICES ASSUME Idle, NEW n \in Nodes
             PROVE  graph.visits[n] <=
                      Cardinality({i \in DOMAIN cursor_history : cursor_history[i] = n})
  BY DEF VisitsWithinHistory
<1>1. /\ cursor_steps \in Nat /\ Len(lived) = cursor_steps + 1
      /\ graph = lived[cursor_steps + 1].graph
      /\ LedgerAgrees /\ cursor_history \in Seq(Nodes) /\ MomentsOK(lived)
  BY HistoryTypes DEF HistoryInv, TypeInv, TypeOK
<1>2. DOMAIN cursor_history = 1..(cursor_steps + 1)
  BY <1>1, LenProperties DEF LedgerAgrees
<1>3. {i \in DOMAIN cursor_history : cursor_history[i] = n}
        = Arrivals(lived, cursor_steps + 1, n)
  BY <1>1, <1>2 DEF LedgerAgrees, Arrivals
<1>4. cursor_steps + 1 \in 1..Len(lived)
  BY <1>1
<1> QED
  BY <1>1, <1>3, <1>4 DEF MomentsOK

\* A rollback leaves the history that was had at its target.
LEMMA HistoryIsKept ==
    ASSUME TypeInv, OrderInv, HistoryInv, NEW n \in RollbackSteps, RollbackToStep(n)
    PROVE  cursor_history' = SubSeq(cursor_history, 1, n + 1)
<1>1. /\ Idle /\ n < cursor_steps /\ cursor_history' = Replay(n).history /\ n \in Nat
  BY LedgerAssumption DEF RollbackToStep, Ready
<1>2. /\ cursor_steps \in Nat /\ Len(lived) = cursor_steps + 1
      /\ lived \in Seq(Moments) /\ Agrees(output_stream, lived)
      /\ output_stream \in Seq(Records) /\ StreamOK(output_stream)
      /\ LedgerAgrees /\ cursor_history \in Seq(Nodes)
  BY <1>1, HistoryTypes DEF HistoryInv, TypeInv, TypeOK
<1>3. Recalls(lived) /\ n \in 0..(Len(lived) - 1)
  BY <1>1, <1>2 DEF Recalls
<1> DEFINE h == Replay(n).history
           q == SubSeq(cursor_history, 1, n + 1)
<1>4. h \in Seq(Nodes) /\ Len(h) = n + 1 /\ \A k \in 1..(n + 1) : h[k] = lived[k].cursor
  BY <1>3, ReplayRecalls
<1>5. Len(cursor_history) = cursor_steps + 1
      /\ \A k \in 1..(cursor_steps + 1) : cursor_history[k] = lived[k].cursor
  BY <1>2 DEF LedgerAgrees
<1>6. n + 1 \in Nat /\ \A i \in 1..(n + 1) : cursor_history[i] \in Nodes
  BY <1>1, <1>2, <1>5, ElementOfSeq
<1>7. q \in Seq(Nodes) /\ Len(q) = n + 1 /\ \A k \in 1..(n + 1) : q[k] = cursor_history[k]
  <2> DEFINE m == n + 1
  <2>1. m \in Nat /\ \A i \in 1..m : cursor_history[i] \in Nodes
    BY <1>6
  <2> HIDE DEF m
  <2>2. /\ SubSeq(cursor_history, 1, m) \in Seq(Nodes) /\ Len(SubSeq(cursor_history, 1, m)) = m
        /\ \A k \in 1..m : SubSeq(cursor_history, 1, m)[k] = cursor_history[k]
    BY <2>1, SubSeqProperties
  <2> QED
    BY <2>2 DEF m
<1> HIDE DEF h, q
<1>8. \A k \in 1..Len(h) : h[k] = q[k]
  <2>1. \A k \in 1..(n + 1) : k \in 1..(cursor_steps + 1)
    BY <1>1, <1>2
  <2>2. \A k \in 1..(n + 1) : h[k] = lived[k].cursor /\ q[k] = lived[k].cursor
    BY <1>4, <1>5, <1>7, <2>1
  <2> QED
    BY <1>4, <2>2
<1>9. h = q
  BY <1>4, <1>7, <1>8, SeqEqual
<1> QED
  BY <1>1, <1>9 DEF h, q

\* What the theorems rest on: the three invariants hold together in every
\* state of a replayable story.
LEMMA HistoryHolds ==
    ASSUME Replayable
    PROVE  HSpec => [](TypeInv /\ OrderInv /\ HistoryInv)
<1>1. HInit => TypeInv /\ OrderInv /\ HistoryInv
  BY TypeInvInit, OrderInvInit, HistoryInvInit DEF HInit
<1>2. TypeInv /\ OrderInv /\ HistoryInv /\ [HNext]_hvars
        => TypeInv' /\ OrderInv' /\ HistoryInv'
  <2> SUFFICES ASSUME TypeInv, OrderInv, HistoryInv, [HNext]_hvars
               PROVE  TypeInv' /\ OrderInv' /\ HistoryInv'
    OBVIOUS
  <2>1. [Next]_vars
    BY DEF HNext, hvars
  <2>2. TypeInv'
    BY <2>1, TypeInvStep
  <2>3. OrderInv'
    BY <2>1, OrderInvStep DEF Replayable
  <2>4. HistoryInv'
    BY HistoryInvStep
  <2> QED
    BY <2>2, <2>3, <2>4
<1> QED
  BY <1>1, <1>2, PTL DEF HSpec

\* Whatever mixture of choices, failures and rollbacks is played, between
\* choices every step so far can be rolled back to, and the records restore
\* its cursor, call stack, content and what can be stored of its graph as they
\* were lived: all but the visits of nodes without locals of their own
\* (save_snapshot, _record_step, rollback_to_step, Patch).
THEOREM RestoresEveryStepCorrect ==
    ASSUME Replayable
    PROVE  HSpec => []RestoresEveryStep
<1>1. TypeInv /\ OrderInv /\ HistoryInv => RestoresEveryStep
  BY EveryStepRestored
<1> QED
  BY <1>1, HistoryHolds, PTL

\* Between choices the history and the choice and reentrant counts are those
\* rollback_to_step would recompute (against _sync_from_frame).
THEOREM CountersMatchRecordsCorrect ==
    ASSUME Replayable
    PROVE  HSpec => []CountersMatchRecords
<1>1. TypeInv /\ OrderInv /\ HistoryInv => CountersMatchRecords
  BY CountersAreRecorded
<1> QED
  BY <1>1, HistoryHolds, PTL

\* Between choices a node's visit count, which is restored with the graph or
\* lost, never exceeds its places in the cursor history, which is recomputed
\* from the step records.
THEOREM VisitsWithinHistoryCorrect ==
    ASSUME Replayable
    PROVE  HSpec => []VisitsWithinHistory
<1>1. TypeInv /\ OrderInv /\ HistoryInv => VisitsWithinHistory
  BY VisitsAreOfHistory
<1> QED
  BY <1>1, HistoryHolds, PTL

\* rollback_to_step leaves the cursor history that was had at its target,
\* though it computes it anew from checkpoint and step records.
THEOREM RollbackKeepsHistoryCorrect ==
    ASSUME Replayable
    PROVE  HSpec => RollbackKeepsHistory
<1>1. TypeInv /\ OrderInv /\ HistoryInv =>
        [\A n \in RollbackSteps :
            RollbackToStep(n) => cursor_history' = SubSeq(cursor_history, 1, n + 1)]_vars
  BY HistoryIsKept
<1> QED
  BY <1>1, HistoryHolds, PTL DEF RollbackKeepsHistory

-----------------------------------------------------------------------------
(* The ledger implements the timeline.                                     *)

\* The moment of the timeline the ledger stands at.
Now == IF Idle THEN Live ELSE lived[cursor_steps + 1]
NowIsLast == Now = Committed[Len(Committed)]

\* It is the last of those committed.
LEMMA NowIsCommitted ==
    ASSUME TypeInv, OrderInv, HistoryInv
    PROVE  NowIsLast
<1>1. /\ Len(Committed) = cursor_steps + 1 /\ cursor_steps \in Nat
      /\ \A k \in 1..(cursor_steps + 1) : Committed[k] = lived[k]
  BY CommittedMoments, HistoryTypes
<1>2. Committed[Len(Committed)] = lived[cursor_steps + 1]
  BY <1>1
<1>3. Now = lived[cursor_steps + 1]
  BY LiveIsCommitted DEF Now
<1> QED
  BY <1>2, <1>3 DEF NowIsLast

\* The ledger starts as a timeline does.
LEMMA TimelineInit ==
    ASSUME HInit
    PROVE  Line!Init
<1>1. /\ TypeInv /\ OrderInv /\ HistoryInv /\ cursor_steps = 0
      /\ lived = <<Start>>
  BY TypeInvInit, OrderInvInit, HistoryInvInit DEF HInit, Init
<1>2. lived \in Seq(Moments) /\ Len(lived) = 1 /\ lived[1] = Start
  BY <1>1 DEF HistoryInv
<1>3. Committed = lived
  <2>1. 1 \in 1..Len(lived) /\ Committed = SubSeq(lived, 1, 1)
    BY <1>1, <1>2 DEF Committed
  <2> QED
    BY <1>2, <2>1, FirstMoments
<1>4. Now = Start
  <2>1. NowIsLast
    BY <1>1, NowIsCommitted
  <2> QED
    BY <1>2, <1>3, <2>1 DEF NowIsLast
<1> QED
  BY <1>1, <1>3, <1>4 DEF Line!Init, Committed, Now

\* Every step of the ledger is a step of the timeline or leaves it alone.
LEMMA TimelineStep ==
    ASSUME Replayable, TypeInv, OrderInv, HistoryInv, [HNext]_hvars,
           NowIsLast, NowIsLast'
    PROVE  [Line!Next]_<<Committed, Now>>
<1>1. \/ Committed' = Committed
      \/ Line!Extends(Committed, Committed') \/ Line!CutsBack(Committed, Committed')
  BY HistoryInvStep
<1>2. Now = Committed[Len(Committed)] /\ Now' = Committed'[Len(Committed')]
  BY DEF NowIsLast
<1>3. CASE Committed' = Committed
  BY <1>2, <1>3
<1>4. CASE Line!Extends(Committed, Committed') \/ Line!CutsBack(Committed, Committed')
  <2>1. Now' = Committed'[Len(Committed')]
    BY <1>2
  <2> QED
    BY <1>4, <2>1 DEF Line!Next, Committed, Now
<1> QED
  BY <1>1, <1>3, <1>4

\* The detailed ledger, with its frames, records, deltas and checkpoints,
\* implements the timeline its player is promised: a choice only ever adds
\* moments, a rollback only cuts some off, and the ledger stands at the last.
\* Moments hold what can be stored of a graph: of visits, those of the nodes
\* that are authored with locals.
THEOREM LedgerImplementsTimeline ==
    ASSUME Replayable
    PROVE  HSpec => ImplementsTimeline
<1>1. HInit => Line!Init
  BY TimelineInit
<1>2. TypeInv /\ OrderInv /\ HistoryInv => NowIsLast
  BY NowIsCommitted
<1>3. TypeInv /\ OrderInv /\ HistoryInv /\ NowIsLast /\ NowIsLast' /\ [HNext]_hvars
        => [Line!Next]_<<Committed, Now>>
  BY TimelineStep
<1> QED
  BY <1>1, <1>2, <1>3, HistoryHolds, PTL
     DEF HSpec, ImplementsTimeline, Line!Spec, Committed, Now
=============================================================================
