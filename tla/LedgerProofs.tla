----------------------------- MODULE LedgerProofs -----------------------------
(***************************************************************************)
(* Theorems about the ledger, for every story, cadence, depth limit and    *)
(* set of steps a rollback may be asked for.                               *)
(***************************************************************************)
EXTENDS Ledger, FiniteSetTheorems, SequenceTheorems, TLAPS

-----------------------------------------------------------------------------
(* Sorting records by (step, seq).                                         *)

\* Places in a stream whose records have a step.
Sortable(places) ==
    /\ places \subseteq DOMAIN output_stream
    /\ \A i \in places : output_stream[i].step \in Nat

\* Any set of places of a stream is finite.
LEMMA PlacesFinite ==
    ASSUME NEW s \in Seq(Records), NEW places \in SUBSET DOMAIN s
    PROVE  IsFiniteSet(places) /\ places \subseteq Nat
<1>1. Len(s) \in Nat /\ DOMAIN s = 1..Len(s)
  BY LenProperties
<1>2. IsFiniteSet(1..Len(s))
  BY <1>1, FS_Interval
<1>3. IsFiniteSet(places)
  BY <1>1, <1>2, FS_Subset
<1> QED
  BY <1>1, <1>3

\* (step, seq) orders the places of a stream totally.
LEMMA BeforeIsTotal ==
    ASSUME output_stream \in Seq(Records),
           NEW places, Sortable(places)
    PROVE  /\ \A i \in places : Before(i, i)
           /\ \A i, j \in places : Before(i, j) \/ Before(j, i)
           /\ \A i, j \in places : Before(i, j) /\ Before(j, i) => i = j
           /\ \A i, j, k \in places : Before(i, j) /\ Before(j, k) => Before(i, k)
<1>1. places \subseteq Nat
  BY PlacesFinite DEF Sortable
<1> QED
  BY <1>1 DEF Before, Sortable

\* The rank numbers sortable places from 1 to their number.
LEMMA RankIsBijection ==
    ASSUME output_stream \in Seq(Records),
           NEW places, Sortable(places)
    PROVE  /\ Cardinality(places) \in Nat
           /\ \A i \in places : Rank(places, i) \in 1..Cardinality(places)
           /\ \A k \in 1..Cardinality(places) : \E i \in places : Rank(places, i) = k
<1> DEFINE N == Cardinality(places)
           Below(i) == {j \in places : Before(j, i)}
           rank == [i \in places |-> Rank(places, i)]
<1>1. IsFiniteSet(places) /\ N \in Nat
  BY PlacesFinite, FS_CardinalityType DEF Sortable
<1>2. ASSUME NEW i \in places
      PROVE  /\ IsFiniteSet(Below(i)) /\ Rank(places, i) = Cardinality(Below(i))
             /\ Rank(places, i) \in Nat /\ Rank(places, i) <= N
  BY <1>1, FS_Subset, FS_CardinalityType, Below(i) \in SUBSET places DEF Rank
<1>3. ASSUME NEW i \in places
      PROVE  Rank(places, i) # 0
  <2>1. i \in Below(i)
    BY BeforeIsTotal
  <2> QED
    BY <1>2, <2>1, FS_EmptySet
<1>4. rank \in [places -> 1..N]
  <2>1. \A i \in places : Rank(places, i) \in 1..N
    <3> TAKE i \in places
    <3> HIDE DEF N
    <3>1. Rank(places, i) \in Nat /\ Rank(places, i) <= N /\ Rank(places, i) # 0
      BY <1>2, <1>3
    <3> QED
      BY <1>1, <3>1
  <2> QED
    BY <2>1, Zenon
<1>5. ASSUME NEW i \in places, NEW j \in places, Before(i, j), i # j
      PROVE  Rank(places, i) # Rank(places, j)
  <2>1. Below(i) \in SUBSET Below(j)
    BY <1>5, BeforeIsTotal
  <2>2. j \in Below(j) /\ j \notin Below(i)
    BY <1>5, BeforeIsTotal
  <2> QED
    BY <1>2, <2>1, <2>2, FS_Subset
<1>6. rank \in Injection(places, 1..N)
  BY <1>4, <1>5, BeforeIsTotal DEF Injection, IsInjective
<1>7. IsFiniteSet(1..N) /\ Cardinality(1..N) = N
  BY <1>1, FS_Interval
<1>8. rank \in Surjection(places, 1..N)
  BY <1>6, <1>7, FS_Injection
<1> QED
  BY <1>1, <1>4, <1>8 DEF Surjection

\* The rank grows with the order of the places.
LEMMA RankGrows ==
    ASSUME output_stream \in Seq(Records),
           NEW places, Sortable(places), NEW i \in places, NEW j \in places
    PROVE  Before(i, j) <=> Rank(places, i) <= Rank(places, j)
<1> DEFINE Below(k) == {x \in places : Before(x, k)}
<1>1. ASSUME NEW k \in places
      PROVE  /\ IsFiniteSet(Below(k)) /\ Rank(places, k) = Cardinality(Below(k))
             /\ Rank(places, k) \in Nat
  BY PlacesFinite, FS_Subset, FS_CardinalityType, Below(k) \in SUBSET places
     DEF Rank, Sortable
<1>2. ASSUME NEW k \in places, NEW m \in places, Before(k, m)
      PROVE  /\ Rank(places, k) <= Rank(places, m)
             /\ Rank(places, k) = Rank(places, m) => k = m
  <2>1. Below(k) \in SUBSET Below(m)
    BY <1>2, BeforeIsTotal
  <2>2. m \in Below(m)
    BY BeforeIsTotal
  <2>3. m \in Below(k) => k = m
    BY <1>2, BeforeIsTotal
  <2>4. IsFiniteSet(Below(m))
    BY <1>1
  <2>5. /\ Cardinality(Below(k)) <= Cardinality(Below(m))
        /\ Cardinality(Below(m)) = Cardinality(Below(k)) => Below(m) = Below(k)
    <3> HIDE DEF Below
    <3> QED
      BY <2>1, <2>4, FS_Subset
  <2> QED
    BY <1>1, <2>2, <2>3, <2>5
<1>3. CASE Before(i, j)
  BY <1>2, <1>3
<1>4. CASE ~Before(i, j)
  <2>1. Before(j, i) /\ i # j
    BY <1>4, BeforeIsTotal
  <2>2. Rank(places, j) <= Rank(places, i) /\ Rank(places, j) # Rank(places, i)
    BY <1>2, <2>1
  <2>3. Rank(places, i) \in Nat /\ Rank(places, j) \in Nat
    BY <1>1
  <2>4. ~ (Rank(places, i) <= Rank(places, j))
    BY <2>2, <2>3
  <2> QED
    BY <1>4, <2>4
<1> QED
  BY <1>3, <1>4

\* The k-th of sorted places has rank k.
LEMMA OrderedRank ==
    ASSUME output_stream \in Seq(Records),
           NEW places, Sortable(places), NEW k \in 1..Cardinality(places)
    PROVE  Ordered(places)[k] \in places /\ Rank(places, Ordered(places)[k]) = k
  BY RankIsBijection DEF Ordered

\* Sorting yields places of the set; the first and the last of a non-empty set
\* are in it, and no other comes before or after them.
LEMMA OrderedPlaces ==
    ASSUME output_stream \in Seq(Records),
           NEW places, Sortable(places)
    PROVE  \A k \in 1..Cardinality(places) : Ordered(places)[k] \in places
  BY RankIsBijection DEF Ordered

\* The latest of a non-empty set of places is one of them, and none comes
\* after it (the checkpoint and the step record a rollback starts from).
LEMMA LatestPlace ==
    ASSUME output_stream \in Seq(Records),
           NEW places, Sortable(places), places # {}
    PROVE  /\ Latest(places) \in places
           /\ \A j \in places : Before(j, Latest(places))
<1> DEFINE N == Cardinality(places)
<1>1. IsFiniteSet(places) /\ N \in Nat /\ N # 0
  BY PlacesFinite, FS_CardinalityType, FS_EmptySet DEF Sortable
<1>2. PICK i \in places : Rank(places, i) = N
  BY <1>1, RankIsBijection
<1>3. {j \in places : Before(j, i)} = places
  BY <1>1, <1>2, FS_Subset DEF Rank
<1> QED
  BY <1>3 DEF Latest

\* The earliest is one of them, and none comes before it (the first
\* checkpoint, where the recomputed cursor history starts).
LEMMA EarliestPlace ==
    ASSUME output_stream \in Seq(Records),
           NEW places, Sortable(places), places # {}
    PROVE  /\ Earliest(places) \in places
           /\ \A j \in places : Before(Earliest(places), j)
<1> DEFINE N == Cardinality(places)
<1>1. IsFiniteSet(places) /\ N \in Nat /\ N # 0
  BY PlacesFinite, FS_CardinalityType, FS_EmptySet DEF Sortable
<1>2. PICK i \in places : Rank(places, i) = 1
  BY <1>1, RankIsBijection
<1> DEFINE Below == {j \in places : Before(j, i)}
<1>3. IsFiniteSet(Below) /\ Cardinality(Below) = 1 /\ i \in Below
  BY <1>1, <1>2, FS_Subset, BeforeIsTotal, Below \in SUBSET places DEF Rank
<1>4. \A j \in places : Before(j, i) => j = i
  <2>1. PICK x : Below = {x}
    BY <1>3, FS_Singleton
  <2> QED
    BY <1>3, <2>1
<1>5. \A j \in places : Before(i, j)
  BY <1>4, BeforeIsTotal
<1> QED
  BY <1>5 DEF Earliest

\* A non-empty set of numbers has a smallest one: the induction of these proofs.
LEMMA SmallestNumber ==
    ASSUME NEW S \in SUBSET Nat, S # {}
    PROVE  \E m \in S : \A k \in S : m <= k
<1>1. PICK m \in S : \A k \in S : ~ (<<k, m>> \in OpToRel(<, Nat))
  BY NatLessThanWellFounded, WFMin
<1>2. \A k \in S : ~ (k < m)
  BY <1>1 DEF OpToRel
<1> QED
  BY <1>2

\* A non-empty set of places has a greatest one.
LEMMA GreatestPlace ==
    ASSUME NEW s \in Seq(Records),
           NEW places \in SUBSET DOMAIN s, places # {}
    PROVE  \E i \in places : \A j \in places : j <= i
<1> DEFINE N == Len(s)
           T == {N - i : i \in places}
<1>1. N \in Nat /\ places \subseteq 1..N
  BY LenProperties
<1>2. T \subseteq Nat /\ T # {}
  BY <1>1
<1>3. PICK x \in T : \A y \in T : ~ (<<y, x>> \in OpToRel(<, Nat))
  BY <1>2, NatLessThanWellFounded, WFMin
<1>4. \A y \in T : ~ (y < x)
  BY <1>2, <1>3 DEF OpToRel
<1>5. PICK i \in places : x = N - i
  BY <1>3
<1>6. \A j \in places : j <= i
  <2> TAKE j \in places
  <2>1. N - j \in T
    OBVIOUS
  <2>2. ~ (N - j < N - i)
    BY <1>4, <1>5, <2>1
  <2> QED
    BY <1>1, <2>2
<1> QED
  BY <1>6

-----------------------------------------------------------------------------
(* The shape of the output stream that rollback relies on.                 *)

\* The stream begins with the checkpoint of step 0, and a step record that
\* names a delta names one that comes before it.
NamesDelta(s, i) == s[i].kind = "step" /\ s[i].delta_id # 0
StreamOK(s) ==
    /\ s # <<>> /\ s[1].kind = "checkpoint" /\ s[1].step = 0
    /\ \A i \in DOMAIN s :
          NamesDelta(s, i) => s[i].delta_id < i /\ s[s[i].delta_id].kind = "delta"

\* What a record of each kind holds.
LEMMA RecordTypes ==
    ASSUME NEW r \in Records
    PROVE  /\ HasStep(r) => r.step \in Nat
           /\ r.kind = "step" =>
                /\ r.step \in Nat /\ r.cursor_id \in Nodes /\ r.delta_id \in Nat
                /\ r.was_choice \in BOOLEAN /\ r.call_stack_ids \in Seq(CallEdges)
           /\ r.kind = "checkpoint" =>
                /\ r.step \in Nat /\ r.payload \in GraphValues
                /\ r.cursor_id \in Nodes /\ r.call_stack_ids \in Seq(CallEdges)
           /\ r.kind = "delta" => r.initial \in GraphValues /\ r.final \in GraphValues
  BY DEF Records, HasStep

\* The records the frame and the ledger append.
LEMMA NewRecords ==
    ASSUME NEW s \in Nat, NEW n \in Nodes, NEW stack \in Seq(CallEdges),
           NEW g \in GraphValues, NEW h \in GraphValues
    PROVE  /\ Fragment(s) \in Records /\ Receipt(s) \in Records
           /\ Section(s) \in Records /\ Delta(g, h) \in Records
           /\ \A name \in BookmarkNames : Bookmark(s, name) \in Records
           /\ \A choice \in BOOLEAN, d \in Nat :
                 StepRecord(s, n, choice, d, stack) \in Records
           /\ CheckpointRecord(s, g, n, stack) \in Records
           /\ \A to \in {SOFT_DIRTY, HARD_DIRTY} : CausalityTransition(s, to) \in Records
           /\ \A r \in Nat : RollbackRecord(s, r) \in Records
  BY DEF Records, Fragment, Receipt, Section, Delta, Bookmark, StepRecord,
         CheckpointRecord, CausalityTransition, RollbackRecord

\* Appending a record that names no delta, or one already in the stream.
LEMMA AppendKeepsShape ==
    ASSUME NEW s \in Seq(Records), StreamOK(s), NEW r \in Records,
           r.kind = "step" /\ r.delta_id # 0 =>
               r.delta_id \in DOMAIN s /\ s[r.delta_id].kind = "delta"
    PROVE  Append(s, r) \in Seq(Records) /\ StreamOK(Append(s, r))
<1> DEFINE t == Append(s, r)
<1>1. /\ t \in Seq(Records) /\ t # <<>> /\ Len(t) = Len(s) + 1
      /\ \A i \in 1..Len(s) : t[i] = s[i]
      /\ t[Len(s) + 1] = r
  BY AppendProperties
<1>2. Len(s) \in Nat /\ DOMAIN s = 1..Len(s) /\ DOMAIN t = 1..(Len(s) + 1)
  BY <1>1, LenProperties
<1>3. Len(s) # 0
  BY EmptySeq DEF StreamOK
<1>4. t[1] = s[1]
  BY <1>1, <1>2, <1>3
<1>5. ASSUME NEW i \in DOMAIN t, NamesDelta(t, i)
      PROVE  t[i].delta_id < i /\ t[t[i].delta_id].kind = "delta"
  <2>1. CASE i = Len(s) + 1
    <3>1. t[i] = r
      BY <1>1, <2>1
    <3>2. r.delta_id \in DOMAIN s /\ s[r.delta_id].kind = "delta"
      BY <1>5, <3>1 DEF NamesDelta
    <3>3. r.delta_id \in 1..Len(s) /\ t[r.delta_id] = s[r.delta_id]
      BY <1>1, <1>2, <3>2
    <3>4. t[t[i].delta_id].kind = "delta"
      BY <3>1, <3>2, <3>3
    <3>5. r.delta_id < i
      <4>1. ASSUME NEW d \in 1..Len(s) PROVE d < i
        BY <1>2, <2>1
      <4> QED
        BY <3>3, <4>1
    <3> HIDE DEF t
    <3> QED
      BY <3>1, <3>4, <3>5
  <2>2. CASE i \in 1..Len(s)
    <3>1. t[i] = s[i] /\ NamesDelta(s, i)
      BY <1>1, <1>5, <2>2 DEF NamesDelta
    <3>2. s[i].delta_id \in Nat /\ s[i].delta_id # 0
      BY <1>2, <2>2, <3>1, RecordTypes, ElementOfSeq DEF NamesDelta
    <3>3. s[i].delta_id < i /\ s[s[i].delta_id].kind = "delta"
      BY <1>2, <2>2, <3>1 DEF StreamOK
    <3>4. s[i].delta_id \in 1..Len(s)
      BY <1>2, <2>2, <3>2, <3>3
    <3> QED
      BY <1>1, <3>1, <3>3, <3>4
  <2>3. i = Len(s) + 1 \/ i \in 1..Len(s)
    <3> HIDE DEF t
    <3> QED
      BY <1>2
  <2> QED
    BY <2>1, <2>2, <2>3, Zenon
<1> QED
  BY <1>1, <1>4, <1>5 DEF StreamOK

\* A non-empty prefix keeps the shape.
LEMMA PrefixKeepsShape ==
    ASSUME NEW s \in Seq(Records), StreamOK(s), NEW n \in 1..Len(s)
    PROVE  SubSeq(s, 1, n) \in Seq(Records) /\ StreamOK(SubSeq(s, 1, n))
<1> DEFINE t == SubSeq(s, 1, n)
<1>1. Len(s) \in Nat /\ DOMAIN s = 1..Len(s) /\ n \in Nat /\ n >= 1 /\ n <= Len(s)
  BY LenProperties
<1>2. \A i \in 1..n : s[i] \in Records
  BY <1>1, ElementOfSeq
<1>3. t \in Seq(Records) /\ Len(t) = n /\ \A i \in 1..n : t[i] = s[i]
  BY <1>1, <1>2, SubSeqProperties
<1>4. DOMAIN t = 1..n /\ t # <<>> /\ t[1] = s[1]
  BY <1>1, <1>3, LenProperties, EmptySeq
<1>5. ASSUME NEW i \in DOMAIN t, NamesDelta(t, i)
      PROVE  t[i].delta_id < i /\ t[t[i].delta_id].kind = "delta"
  <2>1. i \in 1..n /\ i \in DOMAIN s /\ t[i] = s[i] /\ NamesDelta(s, i)
    BY <1>1, <1>3, <1>4, <1>5 DEF NamesDelta
  <2>2. s[i].delta_id \in Nat /\ s[i].delta_id # 0
    BY <1>1, <1>2, <2>1, RecordTypes DEF NamesDelta
  <2>3. s[i].delta_id < i /\ s[s[i].delta_id].kind = "delta"
    BY <2>1 DEF StreamOK
  <2>4. s[i].delta_id \in 1..n
    BY <1>1, <2>1, <2>2, <2>3
  <2> QED
    BY <1>3, <2>1, <2>3, <2>4
<1> QED
  BY <1>3, <1>4, <1>5 DEF StreamOK

-----------------------------------------------------------------------------
(* What rollback computes from the stream.                                 *)

\* The records of one kind up to a step can be sorted, and there is always a
\* checkpoint to start from.
LEMMA PlacesUpToType ==
    ASSUME output_stream \in Seq(Records), StreamOK(output_stream), NEW n \in Nat
    PROVE  /\ Sortable(StepsUpTo(n)) /\ Sortable(CheckpointsUpTo(n))
           /\ \A i \in StepsUpTo(n) :
                 /\ i \in DOMAIN output_stream /\ output_stream[i] \in Records
                 /\ output_stream[i].kind = "step" /\ output_stream[i].step <= n
           /\ \A i \in CheckpointsUpTo(n) :
                 /\ i \in DOMAIN output_stream /\ output_stream[i] \in Records
                 /\ output_stream[i].kind = "checkpoint" /\ output_stream[i].step <= n
           /\ CheckpointsUpTo(n) # {}
<1>1. \A i \in DOMAIN output_stream : output_stream[i] \in Records
  BY LenProperties, ElementOfSeq
<1>2. 1 \in DOMAIN output_stream
  BY LenProperties, EmptySeq DEF StreamOK
<1>3. 1 \in CheckpointsUpTo(n)
  BY <1>2 DEF StreamOK, CheckpointsUpTo, PlacesUpTo
<1> QED
  BY <1>1, <1>3, RecordTypes DEF StepsUpTo, CheckpointsUpTo, PlacesUpTo, Sortable

\* The deltas at a set of step records that name one.
LEMMA DeltasAtType ==
    ASSUME output_stream \in Seq(Records), StreamOK(output_stream),
           NEW places, Sortable(places),
           \A i \in places : NamesDelta(output_stream, i)
    PROVE  /\ DeltasAt(places) \in Seq(Records)
           /\ Len(DeltasAt(places)) = Cardinality(places)
           /\ \A k \in 1..Cardinality(places) : DeltasAt(places)[k].kind = "delta"
<1> DEFINE N == Cardinality(places)
           places_of_delta(k) == output_stream[Ordered(places)[k]].delta_id
<1>1. N \in Nat
  BY RankIsBijection
<1>2. ASSUME NEW k \in 1..N
      PROVE  /\ output_stream[places_of_delta(k)] \in Records
             /\ output_stream[places_of_delta(k)].kind = "delta"
  <2>1. PICK i \in places : i = Ordered(places)[k]
    BY OrderedPlaces
  <2>2. Len(output_stream) \in Nat /\ i \in 1..Len(output_stream)
    BY LenProperties DEF Sortable
  <2>3. /\ output_stream[i] \in Records /\ output_stream[i].kind = "step"
        /\ output_stream[i].delta_id # 0
    BY <2>2, ElementOfSeq DEF NamesDelta
  <2>4. output_stream[i].delta_id \in Nat
    BY <2>3, RecordTypes
  <2>5. /\ output_stream[i].delta_id < i
        /\ output_stream[output_stream[i].delta_id].kind = "delta"
    BY <2>2, LenProperties DEF StreamOK
  <2>6. output_stream[i].delta_id \in 1..Len(output_stream)
    BY <2>2, <2>3, <2>4, <2>5
  <2> QED
    BY <2>1, <2>5, <2>6, ElementOfSeq
<1>3. DeltasAt(places) \in [1..N -> Records]
  BY <1>2 DEF DeltasAt
<1>4. DeltasAt(places) \in Seq(Records)
  BY <1>1, <1>3, SeqDef
<1>5. Len(DeltasAt(places)) = N
  BY <1>1, <1>3, <1>4, LenProperties
<1> QED
  BY <1>2, <1>4, <1>5 DEF DeltasAt

\* Whatever step is asked for, a rollback lands on a state of the right type.
LEMMA ReplayType ==
    ASSUME output_stream \in Seq(Records), StreamOK(output_stream), NEW n \in Nat
    PROVE  /\ Replay(n).graph \in GraphValues
           /\ Replay(n).cursor_id \in Nodes
           /\ Replay(n).call_stack_ids \in Seq(CallEdges)
           /\ Replay(n).history \in Seq(Nodes) /\ Replay(n).history # <<>>
           /\ Replay(n).choices \in Nat
<1> DEFINE base    == output_stream[Latest(CheckpointsUpTo(n))]
           first   == output_stream[Earliest(CheckpointsUpTo(n))]
           steps   == StepsUpTo(n)
           N       == Cardinality(steps)
           chosen  == {i \in steps : IsReplayed(base, output_stream[i])}
           deltas  == DeltasAt(chosen)
           cursors == [k \in 1..N |-> output_stream[Ordered(steps)[k]].cursor_id]
<1>1. /\ base \in Records /\ base.kind = "checkpoint"
      /\ first \in Records /\ first.kind = "checkpoint"
  BY PlacesUpToType, LatestPlace, EarliestPlace
<1>2. Sortable(chosen) /\ \A i \in chosen : NamesDelta(output_stream, i)
  BY PlacesUpToType DEF Sortable, IsReplayed, NamesDelta
<1>3. /\ deltas \in Seq(Records) /\ Len(deltas) \in Nat
      /\ \A k \in 1..Len(deltas) : deltas[k].kind = "delta"
  BY <1>2, DeltasAtType, LenProperties
<1>4. RestoredGraph(base, deltas) \in GraphValues
  <2>1. CASE deltas = <<>>
    BY <1>1, <2>1, RecordTypes DEF RestoredGraph
  <2>2. CASE deltas # <<>>
    <3>1. Len(deltas) \in 1..Len(deltas)
      BY <1>3, <2>2, EmptySeq
    <3>2. deltas[Len(deltas)] \in Records /\ deltas[Len(deltas)].kind = "delta"
      BY <1>3, <3>1, ElementOfSeq
    <3> HIDE DEF deltas
    <3> QED
      BY <2>2, <3>2, RecordTypes DEF RestoredGraph
  <2> QED
    BY <2>1, <2>2
<1>5. /\ LandsAt(base, steps) \in Records
      /\ LandsAt(base, steps).kind \in {"step", "checkpoint"}
  BY <1>1, PlacesUpToType, LatestPlace DEF LandsAt
<1>6. /\ LandsAt(base, steps).cursor_id \in Nodes
      /\ LandsAt(base, steps).call_stack_ids \in Seq(CallEdges)
  BY <1>5, RecordTypes
<1>7. N \in Nat
  BY PlacesUpToType, RankIsBijection
<1>8. cursors \in Seq(Nodes)
  <2>1. ASSUME NEW k \in 1..N
        PROVE  output_stream[Ordered(steps)[k]].cursor_id \in Nodes
    BY PlacesUpToType, OrderedPlaces, RecordTypes
  <2>2. cursors \in [1..N -> Nodes]
    BY <2>1
  <2> HIDE DEF cursors
  <2> QED
    BY <1>7, <2>2, SeqDef
<1>9. first.cursor_id \in Nodes
  BY <1>1, RecordTypes
<1>10. <<first.cursor_id>> \o cursors \in Seq(Nodes) /\ <<first.cursor_id>> \o cursors # <<>>
  <2> HIDE DEF cursors, first
  <2>1. <<first.cursor_id>> \in Seq(Nodes) /\ <<first.cursor_id>> # <<>>
    BY <1>9
  <2> QED
    BY <1>8, <2>1, ConcatProperties, ConcatEqualIffEmpty, EmptySeq
<1>11. Cardinality({i \in steps : output_stream[i].was_choice}) \in Nat
  <2>1. {i \in steps : output_stream[i].was_choice} \in SUBSET DOMAIN output_stream
    BY PlacesUpToType
  <2> QED
    BY <2>1, PlacesFinite, FS_CardinalityType
<1> QED
  BY <1>4, <1>6, <1>10, <1>11 DEF Replay

\* Truncation keeps a non-empty prefix, which ends at the last record whose
\* step is not beyond n.
LEMMA CutoffPlace ==
    ASSUME output_stream \in Seq(Records), StreamOK(output_stream), NEW n \in Nat
    PROVE  /\ Cutoff(n) \in 1..Len(output_stream)
           /\ HasStep(output_stream[Cutoff(n)]) /\ output_stream[Cutoff(n)].step <= n
           /\ \A j \in DOMAIN output_stream :
                 HasStep(output_stream[j]) /\ output_stream[j].step <= n => j <= Cutoff(n)
<1> DEFINE kept == {i \in DOMAIN output_stream :
                       HasStep(output_stream[i]) /\ output_stream[i].step <= n}
<1>1. 1 \in DOMAIN output_stream
  BY LenProperties, EmptySeq DEF StreamOK
<1>2. 1 \in kept
  BY <1>1 DEF StreamOK, HasStep
<1>3. \E i \in kept : \A j \in kept : j <= i
  <2> HIDE DEF kept
  <2>1. kept \in SUBSET DOMAIN output_stream
    BY DEF kept
  <2> QED
    BY <1>2, <2>1, GreatestPlace
<1>4. Cutoff(n) \in kept /\ \A j \in kept : j <= Cutoff(n)
  BY <1>3, Zenon DEF Cutoff
<1> QED
  BY <1>4, LenProperties

-----------------------------------------------------------------------------
(* Types of the ledger.                                                    *)

\* The type invariant, strengthened to an inductive one by the shape of the
\* streams that a rollback or a failed choice may bring back.
TypeInv ==
    /\ TypeOK
    /\ StreamOK(output_stream)
    /\ frame.at # "idle" => StreamOK(frame.loaded.stream)

-----------------------------------------------------------------------------
(* Types of the helpers.                                                   *)

\* The graph as authored is a graph value.
LEMMA AuthoredGraphType == AuthoredGraph \in GraphValues
  BY StoryAssumption DEF AuthoredGraph, GraphValues

\* What can be stored of a graph: a graph again, and the same when it is stored
\* once more; only visits are lost.
LEMMA StoredType ==
    ASSUME NEW g \in GraphValues
    PROVE  /\ Stored(g) \in GraphValues /\ Persisted(g) \in GraphValues
           /\ Stored(Stored(g)) = Stored(g)
           /\ Stored(g).successor = g.successor
           /\ Stored(g).provided = g.provided
           /\ Stored(g).built = g.built
           /\ \A n \in Nodes :
                 Stored(g).visits[n] = IF n \in Stateful THEN g.visits[n] ELSE 0
<1> DEFINE kept == [n \in Nodes |-> IF n \in Stateful THEN g.visits[n] ELSE 0]
<1>1. kept \in [Nodes -> Nat]
  BY DEF GraphValues
<1>2. /\ Stored(g) \in GraphValues
      /\ Stored(g).visits = kept /\ Stored(g).successor = g.successor
      /\ Stored(g).provided = g.provided /\ Stored(g).built = g.built
  BY <1>1 DEF GraphValues, Stored
<1>3. Stored(Stored(g)).visits = kept
  BY <1>2 DEF Stored, GraphValues
<1>4. Stored(Stored(g)) = Stored(g)
  BY <1>2, <1>3 DEF Stored, GraphValues
<1>5. \A n \in Nodes : kept[n] = IF n \in Stateful THEN g.visits[n] ELSE 0
  OBVIOUS
<1> HIDE DEF kept
<1> QED
  BY <1>2, <1>4, <1>5 DEF Persisted

\* The graph as authored is stored as it is.
LEMMA AuthoredGraphStored == Stored(AuthoredGraph) = AuthoredGraph
<1>1. AuthoredGraph.visits = [n \in Nodes |-> 0]
  BY DEF AuthoredGraph
<1>2. [n \in Nodes |-> IF n \in Stateful THEN AuthoredGraph.visits[n] ELSE 0]
        = AuthoredGraph.visits
  BY <1>1
<1>3. AuthoredGraph = [visits |-> AuthoredGraph.visits, successor |-> AuthoredGraph.successor,
                       provided |-> AuthoredGraph.provided, built |-> AuthoredGraph.built]
  BY DEF AuthoredGraph
<1> QED
  BY <1>2, <1>3 DEF Stored

\* The absent frame has the type of a frame.
LEMMA IdleFrameType == IdleFrame \in FrameType
<1>1. <<>> \in Seq(Nodes) /\ <<>> \in Seq(CallEdges) /\ <<>> \in Seq(Records)
  BY EmptySeq
<1> QED
  BY <1>1, AuthoredGraphType
     DEF IdleFrame, FrameType, Places, Hops, NoHop, Phases, VALIDATE, CLEAN

\* What can be followed is a hop.
LEMMA HopTypes ==
    ASSUME NEW g \in GraphValues, NEW n \in Nodes, NEW gated
    PROVE  /\ \A e \in Edges : AlongEdge(g, e) \in Hops
           /\ \A e \in CallEdges : ReturnEdge(e) \in Hops /\ ReturnEdge(e) # NoHop
           /\ PrereqRedirects(g, n, gated) \subseteq Hops
           /\ PostreqRedirects(g, n, gated) \subseteq Hops
           /\ NoHop \in Hops
<1>1. \A e \in Edges : /\ g.successor[e] \in Nodes \cup {NoNode}
                       /\ EdgeAt[e] \in EdgeShape
  BY StoryAssumption DEF GraphValues
<1>2. \A e \in Edges : AlongEdge(g, e) \in Hops
  BY <1>1 DEF AlongEdge, Hops, EdgeShape
<1>3. \A e \in CallEdges : ReturnEdge(e) \in Hops /\ ReturnEdge(e) # NoHop
  BY <1>1, StoryAssumption DEF CallEdges, ReturnEdge, Hops, EdgeShape, NoHop
<1>4. NoHop \in Hops
  BY DEF NoHop, Hops, Phases, VALIDATE
<1>5. \A phase : FollowTriggered(g, n, phase, gated) \subseteq Hops
  BY <1>2, <1>4 DEF FollowTriggered, Triggered
<1>6. \A m \in Entries[n] : Descent(m) \in Hops
  BY StoryAssumption DEF Descent, Hops, Phases, VALIDATE
<1> QED
  BY <1>2, <1>3, <1>4, <1>5, <1>6 DEF PrereqRedirects, PostreqRedirects

\* The number of re-entries along a trace is a natural number.
LEMMA ReentriesType ==
    ASSUME NEW from, NEW trace \in Seq(Nodes)
    PROVE  Reentries(from, trace) \in Nat
<1> DEFINE again == {i \in 1..Len(trace) :
                        trace[i] = IF i = 1 THEN from ELSE trace[i - 1]}
<1>1. IsFiniteSet(1..Len(trace))
  BY LenProperties, FS_Interval
<1>2. again \in SUBSET (1..Len(trace))
  OBVIOUS
<1> QED
  BY <1>1, <1>2, FS_Subset, FS_CardinalityType DEF Reentries

-----------------------------------------------------------------------------
\* A new ledger, with the checkpoint of step 0 alone, satisfies the invariant.
LEMMA TypeInvInit == Init => TypeInv
<1> SUFFICES ASSUME Init PROVE TypeInv
  OBVIOUS
<1>1. CheckpointRecord(0, AuthoredGraph, Entry, <<>>) \in Records
  BY LedgerAssumption, AuthoredGraphType, NewRecords, EmptySeq
<1>2. output_stream \in Seq(Records) /\ StreamOK(output_stream)
  BY <1>1 DEF Init, StreamOK, NamesDelta, CheckpointRecord
<1>3. FrameTypeOK
  BY <1>2, AuthoredGraphType, IdleFrameType DEF Init, FrameTypeOK, IdleFrame, CLEAN
<1>4. /\ cursor_history \in Seq(Nodes) /\ cursor_history # <<>>
      /\ call_stack_ids \in Seq(CallEdges)
  BY LedgerAssumption DEF Init
<1> QED
  BY <1>2, <1>3, <1>4, LedgerAssumption DEF Init, TypeInv, TypeOK, IdleFrame

-----------------------------------------------------------------------------
(* The steps of the frame.                                                 *)

\* Steps that leave the stream and `loaded` alone: only types are at stake.
LEMMA QuietFrameStep ==
    ASSUME TypeInv, UNCHANGED <<output_stream, causality_mode, ledgerVars>>,
           frame'.loaded = frame.loaded, frame.at # "idle",
           graph' \in GraphValues, frame' \in FrameType, frame'.cursor \in Nodes
    PROVE  TypeInv'
  BY DEF TypeInv, TypeOK, FrameTypeOK, StreamOK, NamesDelta, ledgerVars

\* Moving the cursor along the hop keeps the types: the hop is validated, so
\* its destination is a node.
LEMMA TypeInvPrepare ==
    TypeInv /\ PrepareFollowEdge /\ UNCHANGED ledgerVars => TypeInv'
<1> SUFFICES ASSUME TypeInv, PrepareFollowEdge, UNCHANGED ledgerVars PROVE TypeInv'
  OBVIOUS
<1>1. frame \in FrameType /\ graph \in GraphValues
  BY DEF TypeInv, TypeOK, FrameTypeOK
<1>2. frame.hop.to \in Nodes
  BY <1>1 DEF PrepareFollowEdge, MayValidate, FrameType, Hops
<1> DEFINE trace == Append(frame.cursor_trace, frame.hop.to)
<1>3. trace \in Seq(Nodes)
  BY <1>1, <1>2, AppendProperties DEF FrameType
<1>4. frame' \in FrameType
  <2>1. frame' = [frame EXCEPT !.at = "planning", !.before = Stored(graph),
                     !.cursor = frame.hop.to, !.cursor_steps = @ + 1,
                     !.cursor_trace = trace]
    BY DEF PrepareFollowEdge
  <2>2. frame.cursor_steps + 1 \in Nat
    BY <1>1 DEF FrameType
  <2> DEFINE steps == frame.cursor_steps + 1
             node  == frame.hop.to
  <2>3. steps \in Nat /\ node \in Nodes
    BY <1>2, <2>2
  <2> HIDE DEF trace, steps, node
  <2>4. frame' = [frame EXCEPT !.at = "planning", !.before = Stored(graph),
                     !.cursor = node, !.cursor_steps = steps,
                     !.cursor_trace = trace]
    BY <1>1, <2>1 DEF steps, node, FrameType
  <2> QED
    BY <1>1, <1>3, <2>3, <2>4, StoredType DEF FrameType, Places, InPhase
<1>5. frame'.loaded = frame.loaded /\ frame'.cursor \in Nodes
  BY <1>1, <1>2 DEF PrepareFollowEdge, FrameType
<1> QED
  BY <1>1, <1>4, <1>5, QuietFrameStep DEF PrepareFollowEdge

\* What a projector builds anew leaves a graph value.
LEMMA ProjectType ==
    ASSUME NEW g \in GraphValues, NEW n \in Nodes, NEW k \in Nat, NEW used,
           NEW uids \in NewUids(k, used)
    PROVE  Project(g, n, uids) \in GraphValues
<1>1. g.built \in Seq(Batches)
  BY DEF GraphValues
<1>2. Cleared(g.built, n) \in Seq(Batches)
  <2>1. CASE \A i \in DOMAIN g.built : g.built[i].at # n
    BY <1>1, <2>1 DEF Cleared
  <2>2. CASE ~ \A i \in DOMAIN g.built : g.built[i].at # n
    <3> DEFINE i == CHOOSE i \in DOMAIN g.built : g.built[i].at = n
    <3>1. i \in DOMAIN g.built
      BY <2>2
    <3>2. i \in 1..Len(g.built)
      BY <1>1, <3>1, LenProperties
    <3>3. Cleared(g.built, n) = SubSeq(g.built, 1, i - 1) \o SubSeq(g.built, i + 1, Len(g.built))
      BY <2>2 DEF Cleared
    <3> HIDE DEF i
    <3>4. /\ SubSeq(g.built, 1, i - 1) \in Seq(Batches)
          /\ SubSeq(g.built, i + 1, Len(g.built)) \in Seq(Batches)
      BY <1>1, <3>2, SubSeqProperties
    <3> QED
      BY <3>3, <3>4, ConcatProperties
  <2> QED
    BY <2>1, <2>2
<1>3. uids \in Seq(Nat)
  <2>1. uids \in [1..k -> 1..(Cardinality(used) + k)]
    BY DEF NewUids
  <2>2. 1..(Cardinality(used) + k) \subseteq Nat
    OBVIOUS
  <2>3. uids \in [1..k -> Nat]
    BY <2>1, <2>2
  <2> QED
    BY <2>3, IsASeq
<1>4. [at |-> n, uids |-> uids] \in Batches
  BY <1>3 DEF Batches
<1> DEFINE b == Append(Cleared(g.built, n), [at |-> n, uids |-> uids])
<1>5. b \in Seq(Batches)
  BY <1>2, <1>4, AppendProperties
<1>6. Project(g, n, uids) = IF uids = <<>> THEN g ELSE [g EXCEPT !.built = b]
  BY DEF Project
<1> HIDE DEF b
<1> QED
  BY <1>5, <1>6 DEF GraphValues

\* PLANNING keeps the types: only open dependencies become provided.
LEMMA TypeInvPlanning ==
    TypeInv /\ PlanningPhase /\ UNCHANGED ledgerVars => TypeInv'
<1> SUFFICES ASSUME TypeInv, PlanningPhase, UNCHANGED ledgerVars PROVE TypeInv'
  OBVIOUS
<1>1. frame \in FrameType /\ graph \in GraphValues
  BY DEF TypeInv, TypeOK, FrameTypeOK
<1>2. graph' \in GraphValues
  <2> DEFINE used == UidsOf(graph.built) \cup UidsOf(frame.before.built)
  <2>1. CASE graph' = graph
    BY <1>1, <2>1
  <2>2. CASE ~(graph' = graph)
    <3>1. PICK found \in SUBSET Open(graph, frame.cursor),
               uids \in NewUids(Projects[frame.cursor], used) :
              graph' = Project(Provision(graph, found), frame.cursor, uids)
      BY <2>2 DEF PlanningPhase
    <3>2. Provision(graph, found) \in GraphValues
      BY <1>1 DEF Provision, Open, GraphValues
    <3>3. frame.cursor \in Nodes
      BY DEF TypeInv, TypeOK, FrameTypeOK, PlanningPhase
    <3>4. Projects[frame.cursor] \in Nat
      BY <3>3, StoryAssumption
    <3> QED
      BY <3>1, <3>2, <3>3, <3>4, ProjectType
  <2> QED
    BY <2>1, <2>2
<1>3. /\ frame' \in FrameType /\ frame'.loaded = frame.loaded
      /\ frame'.cursor = frame.cursor
  BY <1>1 DEF PlanningPhase, Goto, FrameType, Places, InPhase
<1> QED
  BY <1>2, <1>3, QuietFrameStep DEF PlanningPhase, TypeInv, TypeOK, FrameTypeOK

\* PREREQS keeps the types: its redirects lead along edges with a successor.
LEMMA TypeInvPrereqs ==
    TypeInv /\ PrereqsPhase /\ UNCHANGED ledgerVars => TypeInv'
<1> SUFFICES ASSUME TypeInv, PrereqsPhase, UNCHANGED ledgerVars PROVE TypeInv'
  OBVIOUS
<1>1. frame \in FrameType /\ graph \in GraphValues /\ frame.cursor \in Nodes
  BY DEF TypeInv, TypeOK, FrameTypeOK, PrereqsPhase
<1>2. PICK redirect \in Hops :
          frame' = [frame EXCEPT
              !.at = IF redirect = NoHop THEN "update" ELSE "next",
              !.redirect = redirect]
  BY <1>1, HopTypes DEF PrereqsPhase
<1>3. frame' \in FrameType /\ frame'.loaded = frame.loaded /\ frame'.cursor \in Nodes
  BY <1>1, <1>2 DEF FrameType, Places, InPhase
<1> QED
  BY <1>1, <1>3, QuietFrameStep DEF PrereqsPhase

\* UPDATE keeps the types: visit counts stay natural numbers.
LEMMA TypeInvUpdate ==
    TypeInv /\ UpdatePhase /\ UNCHANGED ledgerVars => TypeInv'
<1> SUFFICES ASSUME TypeInv, UpdatePhase, UNCHANGED ledgerVars PROVE TypeInv'
  OBVIOUS
<1>1. frame \in FrameType /\ graph \in GraphValues /\ frame.cursor \in Nodes
  BY DEF TypeInv, TypeOK, FrameTypeOK, UpdatePhase
<1>2. graph' \in GraphValues
  <2> DEFINE visits == [graph.visits EXCEPT ![frame.cursor] = @ + 1]
  <2>1. graph.visits \in [Nodes -> Nat]
    BY <1>1 DEF GraphValues
  <2>2. visits \in [Nodes -> Nat]
    BY <1>1, <2>1
  <2>3. MarkVisited(graph, frame.cursor) = [graph EXCEPT !.visits = visits]
    BY <1>1 DEF MarkVisited, GraphValues
  <2> HIDE DEF visits
  <2>4. MarkVisited(graph, frame.cursor) \in GraphValues
    BY <1>1, <2>2, <2>3 DEF GraphValues
  <2> QED
    BY <1>1, <2>4 DEF UpdatePhase
<1>3. /\ frame' \in FrameType /\ frame'.loaded = frame.loaded
      /\ frame'.cursor = frame.cursor
  BY <1>1 DEF UpdatePhase, Goto, FrameType, Places, InPhase
<1> QED
  BY <1>1, <1>2, <1>3, QuietFrameStep DEF UpdatePhase

\* Steps that append records.
LEMMA LoudFrameStep ==
    ASSUME TypeInv, UNCHANGED <<graph, causality_mode, ledgerVars>>,
           output_stream' \in Seq(Records), StreamOK(output_stream)',
           frame'.loaded = frame.loaded, frame.at # "idle",
           frame' \in FrameType, frame'.cursor \in Nodes
    PROVE  TypeInv'
  BY DEF TypeInv, TypeOK, FrameTypeOK, StreamOK, NamesDelta, ledgerVars

\* Appending a record or not gives a stream of records either way.
LEMMA AppendIfType ==
    ASSUME NEW s \in Seq(Records), StreamOK(s), NEW r \in Records, r.kind # "step",
           NEW cond
    PROVE  AppendIf(s, r, cond) \in Seq(Records) /\ StreamOK(AppendIf(s, r, cond))
  BY AppendKeepsShape DEF AppendIf

\* The step a frame stamps on its records is a natural number.
LEMMA StepType ==
    ASSUME frame \in FrameType
    PROVE  Step \in Nat
  BY DEF Step, FrameType

\* JOURNAL appends at most one fragment, and keeps the shape of the stream.
LEMMA TypeInvJournal ==
    TypeInv /\ JournalPhase /\ UNCHANGED ledgerVars => TypeInv'
<1> SUFFICES ASSUME TypeInv, JournalPhase, UNCHANGED ledgerVars PROVE TypeInv'
  OBVIOUS
<1>1. frame \in FrameType /\ frame.cursor \in Nodes /\ output_stream \in Seq(Records)
  BY DEF TypeInv, TypeOK, FrameTypeOK, JournalPhase
<1>2. Fragment(Step) \in Records /\ Fragment(Step).kind # "step"
  BY <1>1, StepType DEF Fragment, Records
<1>3. output_stream' \in Seq(Records) /\ StreamOK(output_stream')
  BY <1>1, <1>2, AppendIfType DEF JournalPhase, TypeInv
<1>4. /\ frame' \in FrameType /\ frame'.loaded = frame.loaded
      /\ frame'.cursor = frame.cursor
  BY <1>1 DEF JournalPhase, Goto, FrameType, Places, InPhase
<1> QED
  BY <1>1, <1>3, <1>4, LoudFrameStep DEF JournalPhase, StreamOK, NamesDelta

\* FINALIZE appends at most one receipt, and keeps the shape of the stream.
LEMMA TypeInvFinalize ==
    TypeInv /\ FinalizePhase /\ UNCHANGED ledgerVars => TypeInv'
<1> SUFFICES ASSUME TypeInv, FinalizePhase, UNCHANGED ledgerVars PROVE TypeInv'
  OBVIOUS
<1>1. frame \in FrameType /\ frame.cursor \in Nodes /\ output_stream \in Seq(Records)
  BY DEF TypeInv, TypeOK, FrameTypeOK, FinalizePhase
<1>2. Receipt(Step) \in Records /\ Receipt(Step).kind # "step"
  BY <1>1, StepType DEF Receipt, Records
<1>3. output_stream' \in Seq(Records) /\ StreamOK(output_stream')
  BY <1>1, <1>2, AppendIfType DEF FinalizePhase, TypeInv
<1>4. /\ frame' \in FrameType /\ frame'.loaded = frame.loaded
      /\ frame'.cursor = frame.cursor
  BY <1>1 DEF FinalizePhase, Goto, FrameType, Places, InPhase
<1> QED
  BY <1>1, <1>3, <1>4, LoudFrameStep DEF FinalizePhase, StreamOK, NamesDelta

\* POSTREQS keeps the types, as PREREQS does.
LEMMA TypeInvPostreqs ==
    TypeInv /\ PostreqsPhase /\ UNCHANGED ledgerVars => TypeInv'
<1> SUFFICES ASSUME TypeInv, PostreqsPhase, UNCHANGED ledgerVars PROVE TypeInv'
  OBVIOUS
<1>1. frame \in FrameType /\ graph \in GraphValues /\ frame.cursor \in Nodes
  BY DEF TypeInv, TypeOK, FrameTypeOK, PostreqsPhase
<1>2. PICK redirect \in Hops :
          frame' = [frame EXCEPT !.at = "next", !.redirect = redirect]
  BY <1>1, HopTypes DEF PostreqsPhase
<1>3. frame' \in FrameType /\ frame'.loaded = frame.loaded /\ frame'.cursor \in Nodes
  BY <1>1, <1>2 DEF FrameType, Places, InPhase
<1> QED
  BY <1>1, <1>3, QuietFrameStep DEF PostreqsPhase

\* The stacks of the next hop: a call is pushed, a return pops one.
LEMMA StackTypes ==
    ASSUME frame \in FrameType
    PROVE  /\ Pushed \in Seq(CallEdges)
           /\ \A stack \in Seq(CallEdges) : NextStack(stack) \in Seq(CallEdges)
           /\ \A stack \in Seq(CallEdges) : NextHop(stack) \in Hops
<1>1. frame.return_stack \in Seq(CallEdges) /\ frame.redirect \in Hops
  BY DEF FrameType
<1>2. Pushed \in Seq(CallEdges)
  BY <1>1, AppendProperties DEF Pushed, AppendIf, IsCall
<1>3. ASSUME NEW stack \in Seq(CallEdges)
      PROVE  NextStack(stack) \in Seq(CallEdges) /\ NextHop(stack) \in Hops
  <2>1. CASE ~ (frame.redirect = NoHop /\ stack # <<>>)
    BY <1>1, <2>1 DEF NextStack, NextHop
  <2>2. CASE frame.redirect = NoHop /\ stack # <<>>
    <3>1. Len(stack) \in Nat \ {0}
      BY <2>2, EmptySeq
    <3>2. \A i \in 1..Len(stack) : stack[i] \in CallEdges
      BY ElementOfSeq
    <3>3. SubSeq(stack, 1, Len(stack) - 1) \in Seq(CallEdges)
      <4>1. Len(stack) - 1 \in Int /\ \A i \in 1..(Len(stack) - 1) : stack[i] \in CallEdges
        BY <3>1, <3>2
      <4> QED
        BY <4>1, SubSeqProperties
    <3>4. stack[Len(stack)] \in CallEdges
      BY <3>1, <3>2
    <3>5. ReturnEdge(stack[Len(stack)]) \in Hops
      BY <3>4, HopTypes, AuthoredGraphType, LedgerAssumption
    <3> QED
      BY <2>2, <3>3, <3>5 DEF NextStack, NextHop
  <2> QED
    BY <2>1, <2>2
<1> QED
  BY <1>2, <1>3

\* The step trace names the delta it has just appended, or none.
LEMMA StepTraceType ==
    ASSUME frame \in FrameType, graph \in GraphValues, frame.cursor \in Nodes,
           NEW s \in Seq(Records), StreamOK(s),
           NEW stack \in Seq(CallEdges), NEW choice \in BOOLEAN
    PROVE  /\ StepTrace(s, choice, stack) \in Seq(Records)
           /\ StreamOK(StepTrace(s, choice, stack))
<1> DEFINE changed    == frame.before # Stored(graph)
           withDelta  == AppendIf(s, Delta(frame.before, Stored(graph)), changed)
           delta      == IF changed THEN Len(withDelta) ELSE 0
           withMarker == AppendIf(withDelta, Section(Step), frame.cursor \in Sections)
           record     == StepRecord(Step, frame.cursor, choice, delta, stack)
<1>1. Step \in Nat /\ frame.before \in GraphValues /\ Stored(graph) \in GraphValues
  BY StepType, StoredType DEF FrameType
<1>2. /\ Delta(frame.before, Stored(graph)) \in Records
      /\ Delta(frame.before, Stored(graph)).kind # "step"
      /\ Delta(frame.before, Stored(graph)).kind = "delta"
  BY <1>1 DEF Delta, Records
<1>3. withDelta \in Seq(Records) /\ StreamOK(withDelta)
  BY <1>2, AppendIfType
<1>4. Section(Step) \in Records /\ Section(Step).kind # "step"
  BY <1>1 DEF Section, Records
<1>5. withMarker \in Seq(Records) /\ StreamOK(withMarker)
  <2> HIDE DEF withDelta
  <2> QED
    BY <1>3, <1>4, AppendIfType
<1>6. Len(withDelta) \in Nat /\ delta \in Nat
  <2> HIDE DEF withDelta
  <2> QED
    BY <1>3, LenProperties
<1>7. delta # 0 => delta \in DOMAIN withMarker /\ withMarker[delta].kind = "delta"
  <2> SUFFICES ASSUME changed
               PROVE  delta \in DOMAIN withMarker /\ withMarker[delta].kind = "delta"
    OBVIOUS
  <2>1. /\ Len(withDelta) = Len(s) + 1
        /\ withDelta[Len(withDelta)] = Delta(frame.before, Stored(graph))
    BY <1>2, AppendProperties DEF AppendIf
  <2>2. delta = Len(withDelta) /\ delta \in 1..Len(withDelta)
    BY <2>1, LenProperties
  <2> HIDE DEF withDelta
  <2>3. DOMAIN withMarker = 1..Len(withMarker)
    BY <1>5, LenProperties
  <2>4. delta \in 1..Len(withMarker) /\ withMarker[delta] = withDelta[delta]
    <3>1. CASE frame.cursor \in Sections
      <4>1. /\ Len(withMarker) = Len(withDelta) + 1
            /\ \A i \in 1..Len(withDelta) : withMarker[i] = withDelta[i]
        BY <1>3, <1>4, <3>1, AppendProperties DEF AppendIf
      <4> HIDE DEF withMarker
      <4> QED
        BY <1>6, <2>2, <4>1
    <3>2. CASE frame.cursor \notin Sections
      BY <2>2, <3>2 DEF AppendIf
    <3> QED
      BY <3>1, <3>2
  <2> QED
    BY <1>2, <2>1, <2>2, <2>3, <2>4
<1>8. /\ record \in Records
      /\ record.delta_id = delta
  <2> HIDE DEF delta
  <2> QED
    BY <1>1, <1>6, NewRecords DEF StepRecord
<1>9. StepTrace(s, choice, stack) = Append(withMarker, record)
  BY DEF StepTrace
<1> HIDE DEF withMarker, record, delta
<1> QED
  BY <1>5, <1>7, <1>8, <1>9, AppendKeepsShape

\* The end of a hop keeps the invariant: the step trace names the delta it
\* appends, and the next hop is along an edge or back from a call.
LEMMA TypeInvNextResolveEdge ==
    TypeInv /\ NextResolveEdge /\ UNCHANGED ledgerVars => TypeInv'
<1> SUFFICES ASSUME TypeInv, NextResolveEdge, UNCHANGED ledgerVars PROVE TypeInv'
  OBVIOUS
<1>1. /\ frame \in FrameType /\ frame.cursor \in Nodes /\ graph \in GraphValues
      /\ output_stream \in Seq(Records) /\ StreamOK(output_stream)
  BY DEF TypeInv, TypeOK, FrameTypeOK, NextResolveEdge
<1>2. /\ Pushed \in Seq(CallEdges) /\ NextStack(Pushed) \in Seq(CallEdges)
      /\ NextHop(Pushed) \in Hops /\ NoHop \in Hops
  BY <1>1, StackTypes, HopTypes
<1>3. output_stream' \in Seq(Records) /\ StreamOK(output_stream')
  BY <1>1, <1>2, StepTraceType DEF NextResolveEdge, FrameType
<1>4. /\ frame' \in FrameType /\ frame'.loaded = frame.loaded
      /\ frame'.cursor = frame.cursor
  <2> DEFINE at    == IF NextHop(Pushed) = NoHop THEN "done" ELSE "follow"
             stack == NextStack(Pushed)
             hop   == NextHop(Pushed)
             depth == frame.depth + 1
  <2>1. /\ at \in Places /\ stack \in Seq(CallEdges) /\ hop \in Hops
        /\ depth \in Nat
    BY <1>1, <1>2 DEF Places, FrameType
  <2>2. frame' = [frame EXCEPT !.at = at, !.return_stack = stack, !.hop = hop,
                     !.redirect = NoHop, !.was_choice = FALSE, !.depth = depth]
    BY <1>1 DEF NextResolveEdge, FrameType
  <2> HIDE DEF at, stack, hop, depth
  <2> QED
    BY <1>1, <1>2, <2>1, <2>2 DEF FrameType
<1> QED
  BY <1>1, <1>3, <1>4, LoudFrameStep DEF NextResolveEdge, StreamOK, NamesDelta

-----------------------------------------------------------------------------
(* The steps of the ledger.                                                *)

\* A frame that starts on a hop has the type of a frame.
LEMMA StartFrameType ==
    ASSUME TypeOK, NEW hop \in Hops, NEW base \in Nat, NEW observed \in BOOLEAN
    PROVE  LET new == StartFrame(hop, cursor_id, call_stack_ids, base, observed)
           IN  /\ new \in FrameType /\ new.cursor \in Nodes
               /\ new.loaded.stream = output_stream
<1>1. /\ cursor_id \in Nodes /\ call_stack_ids \in Seq(CallEdges)
      /\ graph \in GraphValues /\ output_stream \in Seq(Records)
      /\ causality_mode \in {CLEAN, SOFT_DIRTY, HARD_DIRTY}
  BY DEF TypeOK, FrameTypeOK
<1> QED
  BY <1>1, IdleFrameType DEF StartFrame, FrameType, Places

\* Whatever starts a frame leaves the stream alone and remembers it.
LEMMA BeginsSound ==
    ASSUME TypeInv, UNCHANGED <<output_stream, causality_mode, ledgerVars>>,
           graph' \in GraphValues, frame' \in FrameType, frame'.cursor \in Nodes,
           frame'.loaded.stream = output_stream
    PROVE  TypeInv'
<1>1. TypeOK'
  BY DEF TypeInv, TypeOK, FrameTypeOK, ledgerVars
<1>2. StreamOK(output_stream)'
  BY DEF TypeInv, StreamOK, NamesDelta
<1>3. (frame'.loaded.stream) = output_stream'
  OBVIOUS
<1>4. StreamOK(frame.loaded.stream)'
  BY <1>2, <1>3 DEF StreamOK, NamesDelta
<1> QED
  BY <1>1, <1>2, <1>4 DEF TypeInv

\* Beginning a choice keeps the invariant, also when it binds the
\* destination of an edge that was left open.
LEMMA TypeInvBegin ==
    ASSUME NEW e \in Edges, TypeInv, BeginChoice(e)
    PROVE  TypeInv'
<1>1. TypeOK /\ graph \in GraphValues /\ cursor_steps \in Nat
  BY DEF TypeInv, TypeOK, FrameTypeOK
<1>2. graph' \in GraphValues
  BY <1>1, StoryAssumption DEF BeginChoice, ProvisionDestination, GraphValues
<1>3. AlongEdge(graph', e) \in Hops
  BY <1>2, HopTypes, LedgerAssumption
<1>4. /\ frame' \in FrameType /\ frame'.cursor \in Nodes
      /\ frame'.loaded.stream = output_stream
  BY <1>1, <1>3, StartFrameType DEF BeginChoice
<1> QED
  BY <1>1, <1>2, <1>4, BeginsSound DEF BeginChoice

\* Beginning the priming hop keeps the invariant.
LEMMA TypeInvPrime == TypeInv /\ Prime => TypeInv'
<1> SUFFICES ASSUME TypeInv, Prime PROVE TypeInv'
  OBVIOUS
<1>1. TypeOK /\ cursor_steps \in Nat /\ cursor_id \in Nodes
  BY DEF TypeInv, TypeOK
<1>2. [edge |-> NoEdge, to |-> cursor_id, entry |-> PLANNING] \in Hops
  BY <1>1 DEF Hops, Phases, PLANNING
<1>3. /\ frame' \in FrameType /\ frame'.cursor \in Nodes
      /\ frame'.loaded.stream = output_stream
  BY <1>1, <1>2, StartFrameType DEF Prime
<1> QED
  BY <1>1, <1>3, BeginsSound DEF Prime, TypeOK, FrameTypeOK

\* Writing the frame back, with or without a checkpoint.
LEMMA TypeInvSync ==
    ASSUME TypeInv, SyncFromFrame, frame.at = "done",
           choice_steps' \in Nat, current_update_start_step' \in Nat
    PROVE  TypeInv'
<1>1. /\ frame \in FrameType /\ frame.cursor \in Nodes /\ graph \in GraphValues
      /\ output_stream \in Seq(Records) /\ StreamOK(output_stream)
      /\ cursor_steps \in Nat /\ reentrant_steps \in Nat
      /\ cursor_history \in Seq(Nodes) /\ cursor_history # <<>>
  BY DEF TypeInv, TypeOK, FrameTypeOK
<1>2. /\ cursor_steps' \in Nat /\ cursor_id' \in Nodes
      /\ call_stack_ids' \in Seq(CallEdges) /\ frame.cursor_trace \in Seq(Nodes)
  BY SMTT(30), <1>1 DEF SyncFromFrame, FrameType
<1>3. reentrant_steps' \in Nat
  BY SMTT(30), <1>1, <1>2, ReentriesType DEF SyncFromFrame
<1>4. cursor_history' \in Seq(Nodes) /\ cursor_history' # <<>>
  BY <1>1, <1>2, ConcatProperties, ConcatEqualIffEmpty, EmptySeq DEF SyncFromFrame
<1>5. output_stream' \in Seq(Records) /\ StreamOK(output_stream')
  <2> DEFINE record == CheckpointRecord(cursor_steps', Stored(graph), cursor_id', call_stack_ids')
  <2>1. record \in Records /\ record.kind # "step"
    BY <1>1, <1>2, StoredType DEF CheckpointRecord, Records
  <2>2. output_stream' = AppendIf(output_stream, record, Due(choice_steps'))
    BY DEF SyncFromFrame, Checkpoint
  <2> HIDE DEF record
  <2> QED
    BY <1>1, <2>1, <2>2, AppendIfType
<1>6. frame' \in FrameType /\ frame'.at = "idle"
  BY IdleFrameType DEF SyncFromFrame, IdleFrame
<1>7. graph' \in GraphValues
  BY <1>1, StoredType DEF SyncFromFrame
<1> QED
  BY <1>2, <1>3, <1>4, <1>5, <1>6, <1>7
     DEF SyncFromFrame, TypeInv, TypeOK, FrameTypeOK, StreamOK, NamesDelta

\* A choice that raises keeps the invariant, whether the object is dropped
\* for what was loaded or saved as it is.
LEMMA TypeInvFail == TypeInv /\ FailChoice => TypeInv'
<1> SUFFICES ASSUME TypeInv, FailChoice PROVE TypeInv'
  OBVIOUS
<1>1. frame \in FrameType /\ frame.at # "idle"
  BY DEF TypeInv, TypeOK, FrameTypeOK, FailChoice, ResolveRaises, DepthExceeded,
         ValidationFails, HandlerFails, InPhase
<1>2. /\ frame.loaded.graph \in GraphValues /\ frame.loaded.stream \in Seq(Records)
      /\ frame.loaded.mode \in {CLEAN, SOFT_DIRTY, HARD_DIRTY}
      /\ StreamOK(frame.loaded.stream)
  BY <1>1 DEF FrameType, TypeInv
<1>3. /\ graph' \in GraphValues /\ output_stream' \in Seq(Records)
      /\ causality_mode' \in {CLEAN, SOFT_DIRTY, HARD_DIRTY}
      /\ StreamOK(output_stream')
  BY <1>2, StoredType DEF FailChoice, Kept, Reload, TypeInv, TypeOK, FrameTypeOK, StreamOK, NamesDelta
<1>4. frame' \in FrameType /\ frame'.at = "idle"
  BY IdleFrameType DEF FailChoice, Kept, Reload, IdleFrame
<1> QED
  BY <1>3, <1>4 DEF FailChoice, Kept, Reload, TypeInv, TypeOK, FrameTypeOK, ledgerVars, StreamOK, NamesDelta

\* A causality transition keeps the invariant.
LEMMA TypeInvEscalate ==
    ASSUME NEW to \in {SOFT_DIRTY, HARD_DIRTY}, TypeInv, Escalate(to)
    PROVE  TypeInv'
<1>1. output_stream \in Seq(Records) /\ StreamOK(output_stream) /\ cursor_steps \in Nat
  BY DEF TypeInv, TypeOK, FrameTypeOK
<1>2. /\ CausalityTransition(cursor_steps, to) \in Records
      /\ CausalityTransition(cursor_steps, to).kind # "step"
  BY <1>1 DEF CausalityTransition, Records
<1>3. output_stream' \in Seq(Records) /\ StreamOK(output_stream')
  BY <1>1, <1>2, AppendKeepsShape DEF Escalate
<1> QED
  BY <1>3 DEF Escalate, TypeInv, TypeOK, FrameTypeOK, ledgerVars, StreamOK, NamesDelta

\* Setting a bookmark keeps the invariant.
LEMMA TypeInvBookmark ==
    ASSUME NEW name \in BookmarkNames, NEW s \in MarkSteps \cup {cursor_steps},
           TypeInv, SetBookmark(name, s)
    PROVE  TypeInv'
<1>1. output_stream \in Seq(Records) /\ StreamOK(output_stream) /\ s \in Nat
  BY LedgerAssumption DEF TypeInv, TypeOK, FrameTypeOK
<1>2. Bookmark(s, name) \in Records /\ Bookmark(s, name).kind # "step"
  BY <1>1 DEF Bookmark, Records
<1>3. output_stream' \in Seq(Records) /\ StreamOK(output_stream')
  BY <1>1, <1>2, AppendKeepsShape DEF SetBookmark
<1> QED
  BY <1>3 DEF SetBookmark, TypeInv, TypeOK, FrameTypeOK, ledgerVars, StreamOK, NamesDelta

\* A rollback keeps the invariant: what it replays exists in the stream, has
\* the right types, and the stream it keeps still starts at step 0.
LEMMA TypeInvRollback ==
    ASSUME NEW n \in RollbackSteps, TypeInv, RollbackToStep(n)
    PROVE  TypeInv'
<1>1. /\ output_stream \in Seq(Records) /\ StreamOK(output_stream)
      /\ cursor_steps \in Nat /\ n \in Nat /\ frame.at = "idle"
  BY LedgerAssumption DEF TypeInv, TypeOK, FrameTypeOK, RollbackToStep, Ready, Idle
<1>2. /\ graph' \in GraphValues /\ cursor_id' \in Nodes
      /\ call_stack_ids' \in Seq(CallEdges)
      /\ cursor_history' \in Seq(Nodes) /\ cursor_history' # <<>>
      /\ choice_steps' \in Nat
  BY <1>1, ReplayType DEF RollbackToStep
<1>3. reentrant_steps' \in Nat
  <2>1. Tail(Replay(n).history) \in Seq(Nodes)
    BY <1>1, ReplayType, HeadTailProperties
  <2> QED
    BY <2>1, ReentriesType DEF RollbackToStep
<1>4. output_stream' \in Seq(Records) /\ StreamOK(output_stream')
  <2> DEFINE kept == SubSeq(output_stream, 1, Cutoff(n))
             monument == RollbackRecord(n, cursor_steps)
  <2>1. kept \in Seq(Records) /\ StreamOK(kept)
    BY <1>1, CutoffPlace, PrefixKeepsShape
  <2>2. monument \in Records /\ monument.kind # "step"
    BY <1>1 DEF RollbackRecord, Records
  <2>3. output_stream' = Append(kept, monument)
    BY DEF RollbackToStep
  <2> HIDE DEF kept, monument
  <2> QED
    BY <2>1, <2>2, <2>3, AppendKeepsShape
<1> QED
  BY <1>1, <1>2, <1>3, <1>4
     DEF RollbackToStep, TypeInv, TypeOK, FrameTypeOK, StreamOK, NamesDelta

\* Every step of the ledger keeps the invariant: one case per action.
LEMMA TypeInvStep == TypeInv /\ [Next]_vars => TypeInv'
<1> SUFFICES ASSUME TypeInv, [Next]_vars PROVE TypeInv'
  OBVIOUS
<1>1. CASE \E e \in Edges : BeginChoice(e)
  BY <1>1, TypeInvBegin
<1>2. CASE FrameStep /\ UNCHANGED ledgerVars
  BY <1>2, TypeInvPrepare, TypeInvPlanning, TypeInvPrereqs, TypeInvUpdate,
     TypeInvJournal, TypeInvFinalize, TypeInvPostreqs, TypeInvNextResolveEdge
     DEF FrameStep
<1>3. CASE CommitChoice
  <2>1. choice_steps' \in Nat /\ current_update_start_step' \in Nat
    BY <1>3 DEF CommitChoice, UpdateStart, TypeInv, TypeOK
  <2> QED
    BY <1>3, <2>1, TypeInvSync DEF CommitChoice
<1>4. CASE FailChoice
  BY <1>4, TypeInvFail
<1>5. CASE Prime
  BY <1>5, TypeInvPrime
<1>6. CASE CommitPrime
  <2>1. choice_steps' \in Nat /\ current_update_start_step' \in Nat
    BY <1>6 DEF CommitPrime, TypeInv, TypeOK
  <2> QED
    BY <1>6, <2>1, TypeInvSync DEF CommitPrime
<1>7. CASE \E to \in {SOFT_DIRTY, HARD_DIRTY} : Escalate(to)
  BY <1>7, TypeInvEscalate
<1>8. CASE \E name \in BookmarkNames, s \in MarkSteps \cup {cursor_steps} :
              SetBookmark(name, s)
  BY <1>8, TypeInvBookmark
<1>9. CASE \E n \in RollbackSteps : RollbackToStep(n)
  BY <1>9, TypeInvRollback
<1>10. CASE UNCHANGED vars
  BY <1>10 DEF vars, frameVars, ledgerVars, TypeInv, TypeOK, FrameTypeOK,
               StreamOK, NamesDelta
<1> QED
  BY <1>1, <1>2, <1>3, <1>4, <1>5, <1>6, <1>7, <1>8, <1>9, <1>10 DEF Next

\* Every variable of the ledger and of its frame keeps its type, whatever
\* mixture of choices, failures, rollbacks and causality breaks is played: in
\* particular only call edges are ever on a call stack, and a rollback always
\* finds a checkpoint to start from (rollback_to_step raises when none is left).
THEOREM TypeCorrect == Spec => []TypeOK
<1>1. TypeInv => TypeOK
  BY DEF TypeInv
<1> QED
  BY <1>1, TypeInvInit, TypeInvStep, PTL DEF Spec

-----------------------------------------------------------------------------
(* Calls return.                                                           *)

\* A frame is done only once its return stack is empty.
DoneReturned == frame.at = "done" => frame.return_stack = <<>>

\* A hop after which the frame is done leaves an empty return stack: a
\* non-empty one would have given a return edge (_next_resolve_edge).
LEMMA DoneReturnedNext ==
    ASSUME TypeInv, NextResolveEdge
    PROVE  DoneReturned'
<1> SUFFICES ASSUME frame'.at = "done" PROVE frame'.return_stack = <<>>
  BY DEF DoneReturned
<1>1. frame \in FrameType
  BY DEF TypeInv, TypeOK, FrameTypeOK
<1>2. NextHop(Pushed) = NoHop /\ frame'.return_stack = NextStack(Pushed)
  BY <1>1 DEF NextResolveEdge, FrameType
<1>3. Pushed \in Seq(CallEdges)
  BY <1>1, StackTypes
<1>4. Pushed = <<>>
  <2> SUFFICES ASSUME Pushed # <<>> PROVE FALSE
    OBVIOUS
  <2>1. frame.redirect = NoHop /\ ReturnEdge(Pushed[Len(Pushed)]) = NoHop
    BY <1>2 DEF NextHop
  <2>2. Pushed[Len(Pushed)] \in CallEdges
    <3>1. Len(Pushed) \in Nat \ {0}
      BY <1>3, EmptySeq
    <3> QED
      BY <1>3, <3>1, ElementOfSeq
  <2> QED
    BY <2>1, <2>2, HopTypes, AuthoredGraphType, LedgerAssumption
<1> QED
  BY <1>2, <1>4 DEF NextStack

\* Every step of the ledger keeps it so until the choice is written back.
LEMMA DoneReturnedStep ==
    TypeInv /\ DoneReturned /\ [Next]_vars => DoneReturned'
<1> SUFFICES ASSUME TypeInv, DoneReturned, [Next]_vars PROVE DoneReturned'
  OBVIOUS
<1>1. frame \in FrameType
  BY DEF TypeInv, TypeOK, FrameTypeOK
<1>2. CASE \E e \in Edges : BeginChoice(e)
  BY <1>2 DEF BeginChoice, StartFrame, IdleFrame, DoneReturned
<1>3. CASE FrameStep /\ UNCHANGED ledgerVars
  <2>1. CASE NextResolveEdge
    BY <2>1, DoneReturnedNext
  <2>2. CASE frame'.at # "done"
    BY <2>2 DEF DoneReturned
  <2>3. ~ NextResolveEdge => frame'.at # "done"
    BY <1>1, <1>3 DEF FrameStep, PrepareFollowEdge, PlanningPhase, PrereqsPhase,
          UpdatePhase, JournalPhase, FinalizePhase, PostreqsPhase, Goto, FrameType
  <2> QED
    BY <2>1, <2>2, <2>3
<1>4. CASE CommitChoice \/ FailChoice \/ CommitPrime
  BY <1>4 DEF CommitChoice, FailChoice, Kept, Reload, CommitPrime, SyncFromFrame, IdleFrame,
              DoneReturned
<1>5. CASE Prime
  BY <1>5 DEF Prime, StartFrame, IdleFrame, DoneReturned
<1>6. CASE UNCHANGED frame
  BY <1>6 DEF DoneReturned
<1> QED
  BY <1>2, <1>3, <1>4, <1>5, <1>6
     DEF Next, Escalate, SetBookmark, RollbackToStep, vars, frameVars

\* However deep calls nest, whatever redirects run inside them and whatever a
\* rollback put back on the stack, a choice that commits leaves no call open:
\* the ledger never waits for the player inside a call (_next_resolve_edge).
THEOREM CallsReturnCorrect == Spec => CallsReturn
<1>1. Init => DoneReturned
  BY DEF Init, IdleFrame, DoneReturned
<1>2. DoneReturned /\ [Next]_vars => [CommitChoice => call_stack_ids' = <<>>]_vars
  BY DEF DoneReturned, CommitChoice, SyncFromFrame
<1> QED
  BY <1>1, <1>2, TypeInvInit, TypeInvStep, DoneReturnedStep, PTL DEF Spec, CallsReturn
-----------------------------------------------------------------------------
(* When rollback truncates what it promises to: if no handler breaks       *)
(* causality in the middle of a choice, no bookmark is set at another step *)
(* and a failed choice is never kept, the records of the stream are in     *)
(* the order of their steps, and cutting it off at a step loses exactly    *)
(* what came later.  (The run "truncation" shows what happens otherwise.)  *)

Undisturbed ==
    Dirtying = {} /\ MarkSteps = {} /\ ~KeepsRejected /\ ~NativeStore

\* The records that have a step are in the order of their steps, up to m.
InStepOrder(s) ==
    \A i, j \in DOMAIN s :
        i < j /\ HasStep(s[i]) /\ HasStep(s[j]) => s[i].step <= s[j].step
UpTo(s, m) == \A i \in DOMAIN s : HasStep(s[i]) => s[i].step <= m

\* The step the ledger stands at, with the hops of the frame in flight.
Limit == cursor_steps + frame.cursor_steps

OrderInv ==
    /\ InStepOrder(output_stream)
    /\ UpTo(output_stream, Limit)
    /\ frame.at = "idle" => frame.cursor_steps = 0
    /\ frame.at # "idle" =>
          /\ frame.step_base = cursor_steps
          /\ InStepOrder(frame.loaded.stream)
          /\ UpTo(frame.loaded.stream, cursor_steps)

-----------------------------------------------------------------------------
\* A record stamped with the limit, or with no step, may be appended to a
\* stream whose records are in step order up to the limit.
LEMMA AppendInOrder ==
    ASSUME NEW s \in Seq(Records), NEW m \in Nat, NEW r \in Records,
           InStepOrder(s), UpTo(s, m), HasStep(r) => r.step = m
    PROVE  InStepOrder(Append(s, r)) /\ UpTo(Append(s, r), m)
<1> DEFINE t == Append(s, r)
<1>1. /\ t \in Seq(Records) /\ Len(t) = Len(s) + 1
      /\ \A i \in 1..Len(s) : t[i] = s[i]
      /\ t[Len(s) + 1] = r
  BY AppendProperties
<1>2. Len(s) \in Nat /\ DOMAIN s = 1..Len(s) /\ DOMAIN t = 1..(Len(s) + 1)
  BY <1>1, LenProperties
<1> HIDE DEF t
<1>3. \A i \in DOMAIN t : i = Len(s) + 1 \/ (i \in DOMAIN s /\ t[i] = s[i])
  BY <1>1, <1>2
<1>4. UpTo(t, m)
  BY <1>1, <1>3 DEF UpTo
<1>5. InStepOrder(t)
  <2> SUFFICES ASSUME NEW i \in DOMAIN t, NEW j \in DOMAIN t, i < j,
                      HasStep(t[i]), HasStep(t[j])
               PROVE  t[i].step <= t[j].step
    BY DEF InStepOrder
  <2>1. CASE j = Len(s) + 1
    <3>1. t[j].step = m /\ t[i].step <= m
      BY <1>1, <1>4, <2>1 DEF UpTo
    <3> QED
      BY <3>1
  <2>2. CASE j \in DOMAIN s
    <3>1. i \in DOMAIN s
      BY <1>2, <2>2
    <3> QED
      BY <1>1, <1>2, <2>2, <3>1 DEF InStepOrder
  <2> QED
    BY <1>3, <2>1, <2>2
<1> QED
  BY <1>4, <1>5 DEF t

\* The same for a record that may not be appended at all.
LEMMA AppendIfInOrder ==
    ASSUME NEW s \in Seq(Records), NEW m \in Nat, NEW r \in Records, NEW cond,
           InStepOrder(s), UpTo(s, m), HasStep(r) => r.step = m
    PROVE  InStepOrder(AppendIf(s, r, cond)) /\ UpTo(AppendIf(s, r, cond), m)
  BY AppendInOrder DEF AppendIf

\* In such a stream the kept prefix has nothing beyond the step, and what is
\* cut off has nothing up to it.
LEMMA CutoffInOrder ==
    ASSUME output_stream \in Seq(Records), StreamOK(output_stream), NEW n \in Nat,
           InStepOrder(output_stream)
    PROVE  /\ SubSeq(output_stream, 1, Cutoff(n)) \in Seq(Records)
           /\ InStepOrder(SubSeq(output_stream, 1, Cutoff(n)))
           /\ UpTo(SubSeq(output_stream, 1, Cutoff(n)), n)
<1> DEFINE c == Cutoff(n)
           t == SubSeq(output_stream, 1, c)
<1>1. /\ c \in 1..Len(output_stream) /\ HasStep(output_stream[c])
      /\ output_stream[c].step <= n
  BY CutoffPlace
<1>2. /\ Len(output_stream) \in Nat /\ DOMAIN output_stream = 1..Len(output_stream)
      /\ \A i \in 1..Len(output_stream) : output_stream[i] \in Records
  BY LenProperties, ElementOfSeq
<1>3. t \in Seq(Records) /\ Len(t) = c /\ \A i \in 1..c : t[i] = output_stream[i]
  <2> HIDE DEF c
  <2>1. c \in Int /\ \A i \in 1..c : output_stream[i] \in Records
    BY <1>1, <1>2
  <2> QED
    BY <1>1, <2>1, SubSeqProperties
<1>4. DOMAIN t = 1..c
  BY <1>3, LenProperties
<1> HIDE DEF t, c
<1>5. InStepOrder(t)
  BY <1>1, <1>2, <1>3, <1>4 DEF InStepOrder
<1>6. UpTo(t, n)
  <2> SUFFICES ASSUME NEW i \in 1..c, HasStep(output_stream[i])
               PROVE  output_stream[i].step <= n
    BY <1>3, <1>4 DEF UpTo
  <2>1. i \in DOMAIN output_stream /\ c \in DOMAIN output_stream /\ i <= c
    BY <1>1, <1>2
  <2>2. output_stream[i].step <= output_stream[c].step
    <3>1. CASE i = c
      BY <1>1, <1>2, <3>1, RecordTypes
    <3>2. CASE i < c
      BY <1>1, <2>1, <3>2 DEF InStepOrder
    <3> QED
      BY <1>1, <1>2, <2>1, <3>1, <3>2
  <2>3. output_stream[i].step \in Nat /\ output_stream[c].step \in Nat
    BY <1>1, <1>2, <2>1, RecordTypes
  <2> QED
    BY <1>1, <2>2, <2>3
<1> QED
  BY <1>3, <1>5, <1>6 DEF t, c

-----------------------------------------------------------------------------
\* A new ledger has one record, the checkpoint of step 0.
LEMMA OrderInvInit == Init => OrderInv
<1> SUFFICES ASSUME Init PROVE OrderInv
  OBVIOUS
<1>1. DOMAIN output_stream = {1} /\ output_stream[1].step = 0 /\ Limit = 0
  BY DEF Init, CheckpointRecord, Limit, IdleFrame
<1> QED
  BY <1>1 DEF Init, OrderInv, InStepOrder, UpTo, IdleFrame

\* In flight, the next record is stamped with the limit.
LEMMA StepIsLimit ==
    ASSUME TypeInv, OrderInv, frame.at # "idle"
    PROVE  Step = Limit /\ Limit \in Nat
  BY DEF OrderInv, Step, Limit, TypeInv, TypeOK, FrameTypeOK, FrameType

\* A step of the frame that keeps its clock and appends only at the limit.
LEMMA OrderInvFrameStep ==
    ASSUME TypeInv, OrderInv, UNCHANGED ledgerVars, frame.at # "idle",
           frame'.at # "idle", frame'.cursor_steps = frame.cursor_steps,
           frame'.step_base = frame.step_base, frame'.loaded = frame.loaded,
           InStepOrder(output_stream'), UpTo(output_stream', Limit)
    PROVE  OrderInv'
<1>1. Limit' = Limit
  BY DEF Limit, ledgerVars
<1> QED
  BY <1>1 DEF OrderInv, InStepOrder, UpTo, ledgerVars

\* Moving the cursor raises the limit by one step.
LEMMA OrderInvPrepare ==
    ASSUME TypeInv, OrderInv, PrepareFollowEdge, UNCHANGED ledgerVars
    PROVE  OrderInv'
<1>1. frame \in FrameType /\ cursor_steps \in Nat /\ output_stream \in Seq(Records)
  BY DEF TypeInv, TypeOK, FrameTypeOK
<1>2. /\ frame.at = "follow" /\ frame'.at = "planning"
      /\ frame'.cursor_steps = frame.cursor_steps + 1
      /\ frame'.step_base = frame.step_base /\ frame'.loaded = frame.loaded
      /\ output_stream' = output_stream
  BY <1>1 DEF PrepareFollowEdge, FrameType
<1>3. Limit' = Limit + 1 /\ Limit \in Nat
  BY <1>1, <1>2 DEF Limit, ledgerVars, FrameType
<1>4. \A i \in DOMAIN output_stream : HasStep(output_stream[i]) => output_stream[i].step \in Nat
  BY <1>1, LenProperties, ElementOfSeq, RecordTypes
<1>5. UpTo(output_stream, Limit + 1)
  BY <1>3, <1>4 DEF OrderInv, UpTo
<1> QED
  BY <1>2, <1>3, <1>5 DEF OrderInv, InStepOrder, UpTo, ledgerVars

\* The records of a step trace are stamped with the step of the hop.
LEMMA StepTraceInOrder ==
    ASSUME TypeInv, OrderInv, frame.at # "idle",
           NEW stack \in Seq(CallEdges), NEW choice \in BOOLEAN
    PROVE  /\ InStepOrder(StepTrace(output_stream, choice, stack))
           /\ UpTo(StepTrace(output_stream, choice, stack), Limit)
<1> DEFINE changed    == frame.before # Stored(graph)
           withDelta  == AppendIf(output_stream, Delta(frame.before, Stored(graph)), changed)
           delta      == IF changed THEN Len(withDelta) ELSE 0
           withMarker == AppendIf(withDelta, Section(Step), frame.cursor \in Sections)
           record     == StepRecord(Step, frame.cursor, choice, delta, stack)
<1>1. /\ frame \in FrameType /\ graph \in GraphValues /\ frame.cursor \in Nodes
      /\ output_stream \in Seq(Records) /\ StreamOK(output_stream)
      /\ frame.before \in GraphValues /\ Stored(graph) \in GraphValues
  BY StoredType DEF TypeInv, TypeOK, FrameTypeOK, FrameType
<1>2. Step = Limit /\ Limit \in Nat
  BY StepIsLimit
<1>3. /\ Delta(frame.before, Stored(graph)) \in Records /\ ~HasStep(Delta(frame.before, Stored(graph)))
      /\ Delta(frame.before, Stored(graph)).kind # "step"
  BY <1>1 DEF Delta, Records, HasStep
<1>4. /\ withDelta \in Seq(Records) /\ InStepOrder(withDelta) /\ UpTo(withDelta, Limit)
      /\ StreamOK(withDelta)
  BY <1>1, <1>2, <1>3, AppendIfInOrder, AppendIfType DEF OrderInv
<1>5. Section(Step) \in Records /\ Section(Step).step = Limit /\ Section(Step).kind # "step"
  BY <1>2 DEF Section, Records
<1>6. withMarker \in Seq(Records) /\ InStepOrder(withMarker) /\ UpTo(withMarker, Limit)
  <2> HIDE DEF withDelta
  <2> QED
    BY <1>2, <1>4, <1>5, AppendIfInOrder, AppendIfType
<1>7. delta \in Nat
  <2> HIDE DEF withDelta
  <2> QED
    BY <1>4, LenProperties
<1>8. record \in Records /\ record.step = Limit
  <2> HIDE DEF delta
  <2> QED
    BY <1>1, <1>2, <1>7, NewRecords DEF StepRecord
<1>9. StepTrace(output_stream, choice, stack) = Append(withMarker, record)
  BY DEF StepTrace
<1> HIDE DEF withMarker, record
<1> QED
  BY <1>2, <1>6, <1>8, <1>9, AppendInOrder

\* The end of a hop keeps the order, observed or not.
LEMMA OrderInvNextResolveEdge ==
    ASSUME TypeInv, OrderInv, NextResolveEdge, UNCHANGED ledgerVars
    PROVE  OrderInv'
<1>1. frame \in FrameType /\ frame.at # "idle"
  BY DEF TypeInv, TypeOK, FrameTypeOK, NextResolveEdge
<1>2. Pushed \in Seq(CallEdges) /\ NextStack(Pushed) \in Seq(CallEdges)
  BY <1>1, StackTypes
<1>3. InStepOrder(output_stream') /\ UpTo(output_stream', Limit)
  BY <1>1, <1>2, StepTraceInOrder DEF NextResolveEdge, OrderInv, FrameType
<1>4. /\ frame'.at # "idle" /\ frame'.cursor_steps = frame.cursor_steps
      /\ frame'.step_base = frame.step_base /\ frame'.loaded = frame.loaded
  BY <1>1 DEF NextResolveEdge, FrameType
<1> QED
  BY <1>1, <1>3, <1>4, OrderInvFrameStep

\* So does each phase of a hop.
LEMMA OrderInvPhases ==
    ASSUME TypeInv, OrderInv, UNCHANGED ledgerVars,
           PlanningPhase \/ PrereqsPhase \/ UpdatePhase \/ JournalPhase
             \/ FinalizePhase \/ PostreqsPhase
    PROVE  OrderInv'
<1>1. frame \in FrameType /\ output_stream \in Seq(Records)
  BY DEF TypeInv, TypeOK, FrameTypeOK
<1>2. /\ frame.at # "idle"
      /\ frame'.at # "idle" /\ frame'.cursor_steps = frame.cursor_steps
      /\ frame'.step_base = frame.step_base /\ frame'.loaded = frame.loaded
  BY ZenonT(40), <1>1 DEF PlanningPhase, PrereqsPhase, UpdatePhase, JournalPhase,
              FinalizePhase, PostreqsPhase, Goto, FrameType
<1>3. Step = Limit /\ Limit \in Nat
  BY <1>2, StepIsLimit
<1>4. /\ Fragment(Step) \in Records /\ Fragment(Step).step = Limit
      /\ Receipt(Step) \in Records /\ Receipt(Step).step = Limit
  BY <1>3 DEF Fragment, Receipt, Records
<1>5. InStepOrder(output_stream') /\ UpTo(output_stream', Limit)
  <2>1. CASE JournalPhase
    BY <1>1, <1>3, <1>4, <2>1, AppendIfInOrder DEF JournalPhase, OrderInv
  <2>2. CASE FinalizePhase
    BY <1>1, <1>3, <1>4, <2>2, AppendIfInOrder DEF FinalizePhase, OrderInv
  <2>3. CASE UNCHANGED output_stream
    BY <2>3 DEF OrderInv
  <2> QED
    BY <2>1, <2>2, <2>3 DEF PlanningPhase, PrereqsPhase, UpdatePhase, PostreqsPhase
<1> QED
  BY <1>2, <1>5, OrderInvFrameStep

-----------------------------------------------------------------------------
\* A frame starts at the step the ledger stands at.
LEMMA OrderInvStart ==
    ASSUME TypeInv, OrderInv, Idle, UNCHANGED <<output_stream, ledgerVars>>,
           frame'.at = "follow", frame'.cursor_steps = 0,
           frame'.step_base = cursor_steps, frame'.loaded.stream = output_stream
    PROVE  OrderInv'
<1>1. cursor_steps \in Nat
  BY DEF TypeInv, TypeOK
<1>2. Limit = cursor_steps /\ Limit' = cursor_steps
  BY <1>1 DEF OrderInv, Limit, Ready, Idle, ledgerVars
<1>3. UpTo(output_stream, cursor_steps) /\ InStepOrder(output_stream)
  BY <1>2 DEF OrderInv
<1>4. (frame'.loaded.stream) = output_stream'
  OBVIOUS
<1>5. /\ UpTo(output_stream, Limit)' /\ InStepOrder(output_stream)'
      /\ UpTo(frame.loaded.stream, cursor_steps)' /\ InStepOrder(frame.loaded.stream)'
  BY <1>2, <1>3, <1>4 DEF UpTo, InStepOrder, ledgerVars
<1> QED
  BY <1>5 DEF OrderInv, ledgerVars

\* Writing a frame back keeps the order: the checkpoint is stamped with the
\* step the ledger has just reached.
LEMMA OrderInvSync ==
    ASSUME TypeInv, OrderInv, SyncFromFrame, frame.at = "done"
    PROVE  OrderInv'
<1>1. /\ frame \in FrameType /\ frame.cursor \in Nodes /\ graph \in GraphValues
      /\ output_stream \in Seq(Records) /\ cursor_steps \in Nat
      /\ Stored(graph) \in GraphValues
  BY StoredType DEF TypeInv, TypeOK, FrameTypeOK
<1>2. /\ cursor_steps' = Limit /\ Limit \in Nat
      /\ frame'.at = "idle" /\ frame'.cursor_steps = 0
  BY <1>1 DEF SyncFromFrame, Limit, IdleFrame, FrameType
<1>3. Limit' = Limit
  BY <1>2 DEF Limit
<1> DEFINE record == CheckpointRecord(cursor_steps', Stored(graph), cursor_id', call_stack_ids')
<1>4. record \in Records /\ record.step = Limit
  BY <1>1, <1>2 DEF SyncFromFrame, FrameType, CheckpointRecord, Records
<1>5. output_stream' = AppendIf(output_stream, record, Due(choice_steps'))
  BY DEF SyncFromFrame, Checkpoint
<1> HIDE DEF record
<1>6. InStepOrder(output_stream') /\ UpTo(output_stream', Limit)
  BY <1>1, <1>2, <1>4, <1>5, AppendIfInOrder DEF OrderInv
<1> QED
  BY <1>2, <1>3, <1>6 DEF OrderInv, InStepOrder, UpTo

\* A choice that raises leaves the stream it was loaded with, if rejected
\* choices are not saved.
LEMMA OrderInvFail ==
    ASSUME Undisturbed, TypeInv, OrderInv, FailChoice
    PROVE  OrderInv'
<1>1. frame.at # "idle" /\ cursor_steps \in Nat
  BY DEF TypeInv, TypeOK, FailChoice, ResolveRaises, DepthExceeded,
         ValidationFails, HandlerFails, InPhase
<1>2. output_stream' = frame.loaded.stream /\ cursor_steps' = cursor_steps
  BY DEF Undisturbed, FailChoice, Kept, Reload, ledgerVars
<1>3. frame'.at = "idle" /\ frame'.cursor_steps = 0
  BY DEF FailChoice, Kept, Reload, IdleFrame
<1>4. Limit' = cursor_steps
  BY <1>1, <1>2, <1>3 DEF Limit
<1> QED
  BY <1>1, <1>2, <1>3, <1>4 DEF OrderInv, InStepOrder, UpTo

\* A record stamped with the current step between two choices.
LEMMA OrderInvIdleAppend ==
    ASSUME TypeInv, OrderInv, Idle, UNCHANGED <<frame, ledgerVars>>,
           NEW r \in Records, r.step = cursor_steps,
           output_stream' = Append(output_stream, r)
    PROVE  OrderInv'
<1>1. output_stream \in Seq(Records) /\ cursor_steps \in Nat
  BY DEF TypeInv, TypeOK, FrameTypeOK
<1>2. Limit = cursor_steps /\ Limit' = cursor_steps
  BY <1>1 DEF OrderInv, Limit, Ready, Idle, ledgerVars
<1>3. InStepOrder(output_stream') /\ UpTo(output_stream', cursor_steps)
  BY <1>1, <1>2, AppendInOrder DEF OrderInv
<1> QED
  BY <1>2, <1>3 DEF OrderInv, InStepOrder, UpTo, ledgerVars, Ready, Idle

\* A rollback: in an ordered stream nothing beyond the step is left.
LEMMA RollbackInOrder ==
    ASSUME NEW n \in Nat, TypeInv, OrderInv, RollbackToStep(n)
    PROVE  InStepOrder(output_stream') /\ UpTo(output_stream', n)
<1>1. output_stream \in Seq(Records) /\ StreamOK(output_stream) /\ cursor_steps \in Nat
  BY DEF TypeInv, TypeOK, FrameTypeOK
<1> DEFINE kept == SubSeq(output_stream, 1, Cutoff(n))
           monument == RollbackRecord(n, cursor_steps)
<1>2. kept \in Seq(Records) /\ InStepOrder(kept) /\ UpTo(kept, n)
  BY <1>1, CutoffInOrder DEF OrderInv
<1>3. monument \in Records /\ ~HasStep(monument)
  BY <1>1 DEF RollbackRecord, Records, HasStep
<1>4. output_stream' = Append(kept, monument)
  BY DEF RollbackToStep
<1> HIDE DEF kept, monument
<1> QED
  BY <1>2, <1>3, <1>4, AppendInOrder

\* A rollback keeps a prefix that ends with its target step.
LEMMA OrderInvRollback ==
    ASSUME NEW n \in Nat, TypeInv, OrderInv, RollbackToStep(n)
    PROVE  OrderInv'
<1>1. InStepOrder(output_stream') /\ UpTo(output_stream', n)
  BY RollbackInOrder
<1>2. cursor_steps' = n /\ frame.at = "idle" /\ frame' = frame
  BY DEF RollbackToStep, Ready, Idle
<1>3. frame.cursor_steps = 0 /\ Limit' = n
  BY <1>2 DEF OrderInv, Limit
<1> QED
  BY <1>1, <1>2, <1>3 DEF OrderInv, InStepOrder, UpTo

\* Every step of the ledger keeps the order: one case per action.
LEMMA OrderInvStep ==
    ASSUME Undisturbed, TypeInv, OrderInv, [Next]_vars
    PROVE  OrderInv'
<1>1. CASE \E e \in Edges : BeginChoice(e)
  BY <1>1, OrderInvStart DEF BeginChoice, Ready, StartFrame, IdleFrame
<1>2. CASE FrameStep /\ UNCHANGED ledgerVars
  BY <1>2, OrderInvPrepare, OrderInvNextResolveEdge, OrderInvPhases DEF FrameStep
<1>3. CASE CommitChoice \/ CommitPrime
  BY <1>3, OrderInvSync DEF CommitChoice, CommitPrime
<1>4. CASE FailChoice
  BY <1>4, OrderInvFail
<1>5. CASE Prime
  BY <1>5, OrderInvStart DEF Prime, Ready, StartFrame, IdleFrame
<1>6. CASE \E to \in {SOFT_DIRTY, HARD_DIRTY} : Escalate(to)
  <2>1. PICK to \in {SOFT_DIRTY, HARD_DIRTY} : Escalate(to)
    BY <1>6
  <2>2. /\ CausalityTransition(cursor_steps, to) \in Records
        /\ CausalityTransition(cursor_steps, to).step = cursor_steps
    BY DEF CausalityTransition, Records, TypeInv, TypeOK
  <2> QED
    BY <2>1, <2>2, OrderInvIdleAppend DEF Escalate, Ready, Undisturbed
<1>7. CASE \E name \in BookmarkNames, s \in MarkSteps \cup {cursor_steps} :
              SetBookmark(name, s)
  <2>1. PICK name \in BookmarkNames : SetBookmark(name, cursor_steps)
    BY <1>7 DEF Undisturbed
  <2>2. /\ Bookmark(cursor_steps, name) \in Records
        /\ Bookmark(cursor_steps, name).step = cursor_steps
    BY DEF Bookmark, Records, TypeInv, TypeOK
  <2> QED
    BY <2>1, <2>2, OrderInvIdleAppend DEF SetBookmark, Ready
<1>8. CASE \E n \in RollbackSteps : RollbackToStep(n)
  BY <1>8, OrderInvRollback, LedgerAssumption
<1>9. CASE UNCHANGED vars
  BY <1>9 DEF OrderInv, InStepOrder, UpTo, Limit, vars, frameVars, ledgerVars
<1> QED
  BY <1>1, <1>2, <1>3, <1>4, <1>5, <1>6, <1>7, <1>8, <1>9 DEF Next

-----------------------------------------------------------------------------
\* Between choices no record belongs to a step the ledger has not reached:
\* whatever fails, is rolled back and is played again, a step number is never
\* taken by two futures at once.
THEOREM NoRecordAheadCorrect ==
    ASSUME Undisturbed
    PROVE  Spec => []NoRecordAhead
<1>1. TypeInv /\ OrderInv => NoRecordAhead
  BY DEF OrderInv, NoRecordAhead, UpTo, Limit, Idle, TypeInv, TypeOK
<1>2. Init => OrderInv
  BY OrderInvInit
<1>3. TypeInv /\ OrderInv /\ [Next]_vars => OrderInv'
  BY OrderInvStep
<1> QED
  BY <1>1, <1>2, <1>3, TypeInvInit, TypeInvStep, PTL DEF Spec

\* rollback_to_step is the "destructive truncation" its docstring promises: no
\* step record beyond the target survives it.
THEOREM TruncationSound ==
    ASSUME Undisturbed
    PROVE  Spec => RollbackTruncates
<1>1. ASSUME TypeInv, OrderInv, NEW n \in RollbackSteps, RollbackToStep(n),
             NEW i \in DOMAIN output_stream', output_stream'[i].kind = "step"
      PROVE  output_stream'[i].step <= n
  <2>1. n \in Nat
    BY LedgerAssumption
  <2>2. UpTo(output_stream', n)
    BY <1>1, <2>1, RollbackInOrder
  <2> QED
    BY <1>1, <2>2 DEF UpTo, HasStep
<1>2. TypeInv /\ OrderInv /\ [Next]_vars =>
        [\A n \in RollbackSteps : RollbackToStep(n) =>
            \A i \in DOMAIN output_stream' :
                output_stream'[i].kind = "step" => output_stream'[i].step <= n]_vars
  BY <1>1
<1>3. Init => OrderInv
  BY OrderInvInit
<1>4. TypeInv /\ OrderInv /\ [Next]_vars => OrderInv'
  BY OrderInvStep
<1> QED
  BY <1>2, <1>3, <1>4, TypeInvInit, TypeInvStep, PTL DEF Spec, RollbackTruncates

-----------------------------------------------------------------------------
(* What a choice shows.  Since nothing older carries a step the choice has *)
(* not reached, the records it appended can be told by their steps alone.  *)

\* s is what was loaded, and records whose journal is of steps beyond m.
Grown(s, loaded, m) ==
    /\ Len(loaded) <= Len(s) /\ \A i \in 1..Len(loaded) : s[i] = loaded[i]
    /\ \A i \in DOMAIN s : i > Len(loaded) /\ IsJournal(s[i]) => s[i].step > m

UpdateInv ==
    /\ ~Idle => Grown(output_stream, frame.loaded.stream, cursor_steps)
    /\ frame.at \in InPhase \cup {"next"} => frame.cursor_steps >= 1

\* A record beyond m, or no part of the journal, may be appended.
LEMMA AppendGrown ==
    ASSUME NEW s \in Seq(Records), NEW loaded \in Seq(Records), NEW m \in Nat,
           NEW r \in Records, NEW cond,
           Grown(s, loaded, m), IsJournal(r) => r.step > m
    PROVE  Grown(AppendIf(s, r, cond), loaded, m)
<1>1. CASE ~cond
  BY <1>1 DEF AppendIf
<1>2. CASE cond
  <2> DEFINE t == Append(s, r)
  <2>1. /\ t \in Seq(Records) /\ Len(t) = Len(s) + 1
        /\ \A i \in 1..Len(s) : t[i] = s[i]
        /\ t[Len(s) + 1] = r
    BY AppendProperties
  <2>2. /\ Len(s) \in Nat /\ DOMAIN s = 1..Len(s) /\ DOMAIN t = 1..(Len(s) + 1)
        /\ Len(loaded) \in Nat
    BY <2>1, LenProperties
  <2>3. AppendIf(s, r, cond) = t
    BY <1>2 DEF AppendIf
  <2> HIDE DEF t
  <2>4. Len(loaded) <= Len(t) /\ \A i \in 1..Len(loaded) : t[i] = loaded[i]
    BY <2>1, <2>2 DEF Grown
  <2>5. \A i \in DOMAIN t : i > Len(loaded) /\ IsJournal(t[i]) => t[i].step > m
    BY <2>1, <2>2 DEF Grown
  <2> QED
    BY <2>3, <2>4, <2>5 DEF Grown
<1> QED
  BY <1>1, <1>2

\* While a frame runs, the step trace of a hop and what its phases write are of
\* the steps of the frame.
LEMMA StepTraceGrown ==
    ASSUME TypeInv, OrderInv, UpdateInv, frame.at = "next",
           NEW stack \in Seq(CallEdges), NEW choice \in BOOLEAN
    PROVE  Grown(StepTrace(output_stream, choice, stack), frame.loaded.stream, cursor_steps)
<1> DEFINE loaded     == frame.loaded.stream
           changed    == frame.before # Stored(graph)
           withDelta  == AppendIf(output_stream, Delta(frame.before, Stored(graph)), changed)
           delta      == IF changed THEN Len(withDelta) ELSE 0
           withMarker == AppendIf(withDelta, Section(Step), frame.cursor \in Sections)
           record     == StepRecord(Step, frame.cursor, choice, delta, stack)
<1>1. /\ frame \in FrameType /\ graph \in GraphValues /\ frame.cursor \in Nodes
      /\ output_stream \in Seq(Records) /\ StreamOK(output_stream)
      /\ frame.before \in GraphValues /\ loaded \in Seq(Records) /\ cursor_steps \in Nat
      /\ Stored(graph) \in GraphValues
  BY StoredType DEF TypeInv, TypeOK, FrameTypeOK, FrameType
<1>2. Step = Limit /\ Limit \in Nat /\ Limit > cursor_steps
  BY <1>1, StepIsLimit DEF UpdateInv, Limit, FrameType
<1>3. Grown(output_stream, loaded, cursor_steps)
  BY DEF UpdateInv, Idle
<1>4. /\ Delta(frame.before, Stored(graph)) \in Records /\ ~IsJournal(Delta(frame.before, Stored(graph)))
      /\ Delta(frame.before, Stored(graph)).kind # "step"
  BY <1>1 DEF Delta, Records, IsJournal
<1> HIDE DEF loaded
<1>5. /\ withDelta \in Seq(Records) /\ StreamOK(withDelta)
      /\ Grown(withDelta, loaded, cursor_steps)
  BY <1>1, <1>3, <1>4, AppendGrown, AppendIfType
<1>6. Section(Step) \in Records /\ Section(Step).step = Limit /\ Section(Step).kind # "step"
  BY <1>2 DEF Section, Records
<1>7. withMarker \in Seq(Records) /\ Grown(withMarker, loaded, cursor_steps)
  <2> HIDE DEF withDelta
  <2> QED
    BY <1>1, <1>2, <1>5, <1>6, AppendGrown, AppendIfType
<1>8. delta \in Nat
  <2> HIDE DEF withDelta
  <2> QED
    BY <1>5, LenProperties
<1>9. record \in Records /\ ~IsJournal(record)
  <2> HIDE DEF delta
  <2> QED
    BY <1>1, <1>2, <1>8, NewRecords DEF StepRecord, IsJournal
<1>10. StepTrace(output_stream, choice, stack) = AppendIf(withMarker, record, TRUE)
  BY DEF StepTrace, AppendIf
<1> HIDE DEF withMarker, record
<1>11. Grown(AppendIf(withMarker, record, TRUE), loaded, cursor_steps)
  BY <1>1, <1>7, <1>9, AppendGrown
<1> QED
  BY <1>10, <1>11 DEF loaded

\* The hops of a choice.
LEMMA UpdateInvFrameStep ==
    ASSUME TypeInv, OrderInv, UpdateInv, FrameStep, UNCHANGED ledgerVars
    PROVE  UpdateInv'
<1>1. /\ frame \in FrameType /\ output_stream \in Seq(Records) /\ cursor_steps \in Nat
      /\ frame.loaded.stream \in Seq(Records)
  BY DEF TypeInv, TypeOK, FrameTypeOK, FrameType
<1>2. frame.at # "idle" /\ Step = Limit /\ Limit \in Nat
  BY StepIsLimit DEF FrameStep, PrepareFollowEdge, PlanningPhase, PrereqsPhase, UpdatePhase,
     JournalPhase, FinalizePhase, PostreqsPhase, NextResolveEdge
<1>3. Grown(output_stream, frame.loaded.stream, cursor_steps)
  BY <1>2 DEF UpdateInv, Idle
<1>4. /\ frame'.loaded = frame.loaded
      /\ frame'.at \in InPhase \cup {"next"} => frame'.cursor_steps >= 1
  <2>1. CASE PrepareFollowEdge
    BY <1>1, <2>1 DEF PrepareFollowEdge, FrameType
  <2>2. CASE NextResolveEdge
    BY <1>1, <2>2 DEF NextResolveEdge, FrameType, InPhase
  <2>3. CASE \/ PlanningPhase \/ PrereqsPhase \/ UpdatePhase
             \/ JournalPhase \/ FinalizePhase \/ PostreqsPhase
    <3>1. frame.at \in InPhase
      BY <2>3 DEF PlanningPhase, PrereqsPhase, UpdatePhase, JournalPhase, FinalizePhase,
         PostreqsPhase, InPhase
    <3>2. frame'.loaded = frame.loaded /\ frame'.cursor_steps = frame.cursor_steps
      BY ZenonT(40), <1>1, <2>3 DEF PlanningPhase, PrereqsPhase, UpdatePhase, JournalPhase, FinalizePhase,
         PostreqsPhase, Goto, FrameType
    <3> QED
      BY <3>1, <3>2 DEF UpdateInv
  <2> QED
    BY <2>1, <2>2, <2>3 DEF FrameStep
<1>5. Grown(output_stream', frame.loaded.stream, cursor_steps)
  <2>1. CASE JournalPhase \/ FinalizePhase
    <3>1. Limit > cursor_steps
      BY <1>1, <2>1 DEF JournalPhase, FinalizePhase, UpdateInv, Limit, InPhase, FrameType
    <3>2. /\ Fragment(Step) \in Records /\ Fragment(Step).step = Limit
          /\ Receipt(Step) \in Records /\ Receipt(Step).step = Limit
      BY <1>2 DEF Fragment, Receipt, Records
    <3> QED
      BY <1>1, <1>3, <2>1, <3>1, <3>2, AppendGrown DEF JournalPhase, FinalizePhase
  <2>2. CASE NextResolveEdge
    <3>1. Pushed \in Seq(CallEdges) /\ NextStack(Pushed) \in Seq(CallEdges)
      BY <1>1, StackTypes
    <3> QED
      BY <1>1, <1>3, <2>2, <3>1, StepTraceGrown DEF NextResolveEdge, FrameType
  <2>3. CASE UNCHANGED output_stream
    BY <1>3, <2>3
  <2> QED
    BY <2>1, <2>2, <2>3 DEF FrameStep, PrepareFollowEdge, PlanningPhase, PrereqsPhase,
       UpdatePhase, PostreqsPhase
<1> QED
  BY <1>4, <1>5 DEF UpdateInv, Grown, ledgerVars

\* A choice starts with what it loaded; nothing else runs beside it.
LEMMA UpdateInvStep ==
    ASSUME Undisturbed, TypeInv, OrderInv, UpdateInv, [Next]_vars
    PROVE  UpdateInv'
<1>1. output_stream \in Seq(Records) /\ Len(output_stream) \in Nat
      /\ DOMAIN output_stream = 1..Len(output_stream)
  BY LenProperties DEF TypeInv, TypeOK, FrameTypeOK
<1>2. CASE (\E e \in Edges : BeginChoice(e)) \/ Prime
  <2>1. /\ output_stream' = output_stream /\ (frame'.loaded.stream) = output_stream
        /\ frame'.at = "follow"
    <3>1. CASE \E e \in Edges : BeginChoice(e)
      BY <3>1 DEF BeginChoice, StartFrame, IdleFrame
    <3>2. CASE Prime
      BY <3>2 DEF Prime, StartFrame, IdleFrame
    <3> QED
      BY <1>2, <3>1, <3>2
  <2>2. Grown(output_stream, output_stream, cursor_steps')
    BY <1>1 DEF Grown
  <2> QED
    BY <2>1, <2>2 DEF UpdateInv, Grown, InPhase
<1>3. CASE FrameStep /\ UNCHANGED ledgerVars
  BY <1>3, UpdateInvFrameStep
<1>4. CASE CommitChoice \/ CommitPrime \/ FailChoice
  BY <1>4 DEF CommitChoice, CommitPrime, FailChoice, SyncFromFrame, IdleFrame, UpdateInv, Idle,
     InPhase
<1>5. CASE \/ \E to \in {SOFT_DIRTY, HARD_DIRTY} : Escalate(to)
           \/ \E name \in BookmarkNames, s \in MarkSteps \cup {cursor_steps} :
                 SetBookmark(name, s)
           \/ \E n \in RollbackSteps : RollbackToStep(n)
  BY <1>5 DEF Escalate, SetBookmark, RollbackToStep, Ready, Idle, UpdateInv, Undisturbed, InPhase
<1>6. CASE UNCHANGED vars
  BY <1>6 DEF UpdateInv, Grown, Idle, vars, frameVars, ledgerVars
<1> QED
  BY <1>2, <1>3, <1>4, <1>5, <1>6 DEF Next

\* After a choice get_current_update returns exactly the journal of its hops.
LEMMA UpdateShown ==
    ASSUME TypeInv, OrderInv, UpdateInv, CommitChoice
    PROVE  UpdateSlice(output_stream') =
               {i \in DOMAIN output_stream' : /\ i > Len(frame.loaded.stream)
                                              /\ IsJournal(output_stream'[i])}
<1> DEFINE s == output_stream'
           loaded == frame.loaded.stream
<1>1. /\ frame \in FrameType /\ frame.cursor \in Nodes /\ graph \in GraphValues
      /\ output_stream \in Seq(Records) /\ cursor_steps \in Nat /\ loaded \in Seq(Records)
      /\ Stored(graph) \in GraphValues
  BY StoredType DEF CommitChoice, TypeInv, TypeOK, FrameTypeOK, FrameType
<1>2. Limit \in Nat
  BY <1>1 DEF Limit, FrameType
<1>3. /\ cursor_steps' = Limit /\ current_update_start_step' = cursor_steps + 1
      /\ frame.at = "done"
  BY DEF CommitChoice, SyncFromFrame, Limit, UpdateStart
<1> DEFINE record == CheckpointRecord(cursor_steps', Stored(graph), cursor_id', call_stack_ids')
<1>4. record \in Records /\ ~IsJournal(record) /\ record.step = Limit
  BY <1>1, <1>2, <1>3 DEF CommitChoice, SyncFromFrame, FrameType, CheckpointRecord, Records, IsJournal
<1>5. s = AppendIf(output_stream, record, Due(choice_steps'))
  BY DEF CommitChoice, SyncFromFrame, Checkpoint
<1> HIDE DEF record
<1>6. Grown(s, loaded, cursor_steps) /\ UpTo(s, Limit) /\ s \in Seq(Records)
  <2> HIDE DEF s
  <2>1. s \in Seq(Records)
    BY <1>1, <1>4, <1>5, AppendProperties DEF AppendIf
  <2> QED
    BY <1>1, <1>2, <1>3, <1>4, <1>5, <2>1, AppendGrown, AppendIfInOrder DEF OrderInv, UpdateInv, Idle
<1>7. UpTo(loaded, cursor_steps)
  BY <1>3 DEF OrderInv
<1> HIDE DEF s, loaded
<1>8. /\ DOMAIN s = 1..Len(s) /\ Len(s) \in Nat /\ Len(loaded) \in Nat
      /\ DOMAIN loaded = 1..Len(loaded)
      /\ \A i \in DOMAIN s : s[i] \in Records
  BY <1>1, <1>6, LenProperties, ElementOfSeq
<1>9. ASSUME NEW i \in DOMAIN s, IsJournal(s[i])
      PROVE  (s[i].step >= cursor_steps + 1 /\ s[i].step <= Limit) <=> i > Len(loaded)
  <2>1. HasStep(s[i]) /\ s[i].step \in Nat /\ s[i].step <= Limit
    BY <1>6, <1>8, <1>9, RecordTypes DEF IsJournal, HasStep, UpTo
  <2>2. CASE i > Len(loaded)
    BY <1>1, <1>6, <1>9, <2>1, <2>2 DEF Grown
  <2>3. CASE ~(i > Len(loaded))
    <3>1. i \in DOMAIN loaded /\ s[i] = loaded[i]
      BY <1>6, <1>8, <2>3 DEF Grown
    <3> QED
      BY <1>1, <1>7, <2>1, <2>3, <3>1 DEF UpTo
  <2> QED
    BY <2>2, <2>3
<1> QED
  BY <1>3, <1>9 DEF UpdateSlice, s, loaded

\* The update a player is sent after a choice is what that choice wrote to the
\* journal: all of it, and nothing older (get_current_update).
THEOREM UpdateIsLastChoiceCorrect ==
    ASSUME Undisturbed
    PROVE  Spec => UpdateIsLastChoice
<1>1. Init => UpdateInv
  BY DEF Init, IdleFrame, UpdateInv, Idle, InPhase
<1>2. TypeInv /\ OrderInv /\ UpdateInv /\ [Next]_vars => UpdateInv'
  BY UpdateInvStep
<1>3. TypeInv /\ OrderInv /\ [Next]_vars => OrderInv'
  BY OrderInvStep
<1>4. TypeInv /\ OrderInv /\ UpdateInv =>
        [CommitChoice =>
            UpdateSlice(output_stream') =
                {i \in DOMAIN output_stream' : /\ i > Len(frame.loaded.stream)
                                               /\ IsJournal(output_stream'[i])}]_vars
  BY UpdateShown
<1> QED
  BY <1>1, <1>2, <1>3, <1>4, OrderInvInit, TypeInvInit, TypeInvStep, PTL
     DEF Spec, UpdateIsLastChoice
=============================================================================
