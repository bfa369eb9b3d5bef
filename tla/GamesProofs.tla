----------------------------- MODULE GamesProofs -----------------------------
(* What holds of the games for all configurations: a simulation of queues keeps *)
(* its books through every event, however many of them a round runs; no game    *)
(* loses, copies or overdraws what is scarce in it; a game that waits for a     *)
(* move offers one.                                                             *)
EXTENDS Games, CredentialProofs, WellFoundedInduction

-------------------------------------------------------------------------------
(* The books of a simulation, between two of its events and within one.         *)
Events(c) == [at: Nat, seq: Nat, patient: Patients(c), station: Stations(c) \cup {NoStation}]
Counters(c) == [Stations(c) -> Nat]
Runs(c) ==
  [turn: Nat, seq: Nat, calendar: SUBSET Events(c), queue: [Stations(c) -> Seq(Patients(c))],
   serving: [Stations(c) -> SUBSET Patients(c)], started: Counters(c), finished: Counters(c), busy: Counters(c),
   since: [Patients(c) -> Nat], waited: [Patients(c) -> Int], gone: [Patients(c) -> Nat],
   completed: Seq(Patients(c)), metrics: BOOLEAN]

Net(c) == Specified(c) /\ ValidNet(c)
Route(c) == {n \in 0..Cardinality(Stations(c)) : Along(c)[n] # NoStation}

(* Events are numbered, and none is overdue.                                    *)
Dated(q) ==
  /\ \A e \in q.calendar : e.seq <= q.seq /\ e.at >= q.turn
  /\ \A e, f \in q.calendar : e.seq = f.seq => e = f

(* Who has an event, who waits, who is discharged: everybody is one of these.   *)
Expecting(q) == {e.patient : e \in q.calendar}
Queued(c, q) == UNION {ToSet(q.queue[st]) : st \in Stations(c)}
Discharged(q) == ToSet(q.completed)
Booked(c, q) ==
  /\ Patients(c) = Expecting(q) \cup Queued(c, q) \cup Discharged(q)
  /\ Expecting(q) \cap Queued(c, q) = {} /\ Expecting(q) \cap Discharged(q) = {}
  /\ Queued(c, q) \cap Discharged(q) = {}
  /\ \A e, f \in q.calendar : e.patient = f.patient => e = f
  /\ \A s, t \in Stations(c) : \A i \in DOMAIN q.queue[s], j \in DOMAIN q.queue[t] :
       q.queue[s][i] = q.queue[t][j] => s = t /\ i = j
  /\ \A i, j \in DOMAIN q.completed : q.completed[i] = q.completed[j] => i = j
  /\ \A st \in Stations(c) : q.serving[st] = {e.patient : e \in {f \in q.calendar : f.station = st}}

(* No place is free where somebody waits, the stations X apart.                 *)
Manned(c, q, X) ==
  \A st \in Stations(c) :
    /\ Cardinality(q.serving[st]) <= c.capacity[st]
    /\ st \notin X /\ q.queue[st] # <<>> => Cardinality(q.serving[st]) = c.capacity[st]

Balanced(c, q) ==
  \A st \in Stations(c) :
    /\ \A i, j \in DOMAIN q.queue[st] : i < j => q.since[q.queue[st][i]] <= q.since[q.queue[st][j]]
    /\ \A i \in DOMAIN q.queue[st] : q.since[q.queue[st][i]] <= q.turn
    /\ q.busy[st] = q.started[st] * c.service[st]
    /\ q.started[st] = q.finished[st] + Cardinality(q.serving[st])

(* Everybody is on the route, with the time it took to get there.               *)
Timed(c, q) ==
  /\ \A e \in q.calendar :
       \/ e.station = NoStation /\ e.at = c.arrival[e.patient] /\ q.waited[e.patient] = 0
       \/ \E n \in Route(c) : /\ Along(c)[n] = e.station
                              /\ e.at - c.arrival[e.patient] = q.waited[e.patient] + Served(c)[n + 1]
  /\ \A st \in Stations(c) : \A i \in DOMAIN q.queue[st] :
       \E n \in Route(c) : /\ Along(c)[n] = st
                           /\ q.since[q.queue[st][i]] - c.arrival[q.queue[st][i]]
                                = q.waited[q.queue[st][i]] + Served(c)[n]
  /\ \A p \in Discharged(q) :
       q.gone[p] - c.arrival[p] = q.waited[p] + Served(c)[Cardinality(Stations(c)) + 1]

RunOK(c, q, X) ==
  q \in Runs(c) /\ Dated(q) /\ Booked(c, q) /\ Manned(c, q, X) /\ Balanced(c, q) /\ Timed(c, q)
-------------------------------------------------------------------------------
(* Numbers and recursion.                                                       *)

\* Every set of natural numbers that is not empty has a least one.
LEMMA NatMin ==
    ASSUME NEW T \in SUBSET Nat, T # {}
    PROVE  \E x \in T : \A y \in T : x <= y
<1> DEFINE R == {ss \in Nat \X Nat : ss[1] < ss[2]}
<1>1. IsWellFoundedOn(R, Nat)
  BY NatLessThanWellFounded DEF OpToRel
<1> HIDE DEF R
<1>2. PICK x \in T : \A y \in T : ~(<<y, x>> \in R)
  BY <1>1, WFMin
<1>3. \A y \in T : ~(y < x)
  BY <1>2 DEF R
<1> QED
  BY <1>3

\* A set of numbers up to m that has 0, and each number after one of its own,
\* has all of them.
LEMMA UpToAll ==
    ASSUME NEW m \in Nat, NEW T, 0 \in T, \A k \in 1..m : k - 1 \in T => k \in T
    PROVE  \A k \in 0..m : k \in T
<1> DEFINE U == {k \in 0..m : k \notin T}
<1> SUFFICES ASSUME U # {} PROVE FALSE
  OBVIOUS
<1>1. PICK x \in U : \A y \in U : x <= y
  <2>1. U \in SUBSET Nat
    OBVIOUS
  <2> QED
    BY <2>1, NatMin
<1>2. x \in 1..m /\ x - 1 \in 0..m
  BY <1>1
<1>3. x - 1 \in T
  BY <1>1, <1>2
<1> QED
  BY <1>1, <1>2, <1>3

\* f starts as b and goes on by the steps h.
Recurs(f, N, b, h) == f[0] = b /\ \A k \in 1..N : f[k] = h[k][f[k - 1]]

\* A recursion over the numbers up to N defines a function.
LEMMA Recursion ==
  ASSUME NEW N \in Nat, NEW S, NEW b \in S, NEW h \in [1..N -> [S -> S]]
  PROVE  \E f \in [0..N -> S] : Recurs(f, N, b, h)
<1> DEFINE F(f, m) == f \in [0..m -> S] /\ f[0] = b /\ \A k \in 1..m : f[k] = h[k][f[k - 1]]
           T == {m \in 0..N : \E f : F(f, m)}
<1>1. 0 \in T
  <2> DEFINE g == [k \in 0..0 |-> b]
  <2>1. F(g, 0)
    OBVIOUS
  <2> HIDE DEF g, F
  <2> QED
    BY <2>1
<1>2. ASSUME NEW m \in 1..N, m - 1 \in T PROVE m \in T
  <2>1. PICK g : F(g, m - 1)
    BY <1>2
  <2> DEFINE f == [k \in 0..m |-> IF k < m THEN g[k] ELSE h[m][g[m - 1]]]
  <2>2. \A k \in 0..(m - 1) : f[k] = g[k] /\ g[k] \in S
    BY <2>1
  <2>3. h[m][g[m - 1]] \in S
    <3>1. m - 1 \in 0..(m - 1)
      OBVIOUS
    <3>2. g[m - 1] \in S /\ h[m] \in [S -> S]
      BY <2>2, <3>1
    <3> QED
      BY <3>2
  <2>4. f \in [0..m -> S] /\ f[0] = b
    BY <2>1, <2>2, <2>3
  <2>5. ASSUME NEW k \in 1..m PROVE f[k] = h[k][f[k - 1]]
    <3>1. CASE k = m
      <4>1. m - 1 \in 0..(m - 1) /\ m \in 0..m /\ m - 1 \in 0..m
        OBVIOUS
      <4>2. f[m] = h[m][g[m - 1]] /\ f[m - 1] = g[m - 1]
        BY <2>2, <4>1
      <4> QED
        BY <3>1, <4>2
    <3>2. CASE k \in 1..(m - 1)
      <4>1. k \in 0..(m - 1) /\ k - 1 \in 0..(m - 1)
        BY <3>2
      <4> QED
        BY <2>1, <2>2, <3>2, <4>1
    <3> QED
      BY <3>1, <3>2
  <2> HIDE DEF f
  <2>6. F(f, m)
    BY <2>4, <2>5
  <2> QED
    BY <2>6
<1> HIDE DEF T
<1>3. \A m \in 0..N : m \in T
  BY <1>1, <1>2, UpToAll
<1>4. N \in T
  BY <1>3
<1>5. \E f : F(f, N)
  BY <1>4 DEF T
<1> QED
  BY <1>5 DEF Recurs

-------------------------------------------------------------------------------
(* The route.                                                                   *)

\* The route starts at the entry and goes on as the stations say.
LEMMA AlongSteps ==
  ASSUME NEW c, Net(c)
  PROVE  /\ Cardinality(Stations(c)) \in Nat
         /\ Along(c)[0] = c.entry
         /\ \A n \in 1..Cardinality(Stations(c)) :
              Along(c)[n] = IF Along(c)[n - 1] = NoStation THEN NoStation ELSE c.next[Along(c)[n - 1]]
         /\ \A n \in 0..Cardinality(Stations(c)) : Along(c)[n] \in Stations(c) \cup {NoStation}
<1> DEFINE N == Cardinality(Stations(c))
           S == Stations(c) \cup {NoStation}
           F(f) == f = [n \in 0..N |-> IF n = 0 THEN c.entry
                                       ELSE IF f[n - 1] = NoStation THEN NoStation ELSE c.next[f[n - 1]]]
           h == [n \in 1..N |-> [st \in S |-> IF st = NoStation THEN NoStation ELSE c.next[st]]]
           a == Along(c)
<1>1. N \in Nat
  BY FS_CardinalityType DEF Net, Specified
<1>2. c.entry \in S /\ h \in [1..N -> [S -> S]]
  BY DEF Net, ValidNet
<1>3. a = CHOOSE f : F(f)
  BY DEF Along
<1> HIDE DEF N, S, h, a
<1>4. PICK f \in [0..N -> S] : f[0] = c.entry /\ \A k \in 1..N : f[k] = h[k][f[k - 1]]
  <2>1. c.entry \in S
    BY <1>1, <1>2
  <2>2. \E f \in [0..N -> S] : Recurs(f, N, c.entry, h)
    BY <1>1, <1>2, <2>1, Recursion, Zenon
  <2> QED
    BY <2>2 DEF Recurs
<1>5. F(f)
  <2>1. ASSUME NEW k \in 1..N
        PROVE  f[k] = IF f[k - 1] = NoStation THEN NoStation ELSE c.next[f[k - 1]]
    <3>1. f[k - 1] \in S
      BY <1>1, <1>4
    <3> QED
      BY <1>4, <3>1 DEF h
  <2> QED
    BY <1>1, <1>4, <2>1
<1>6. F(a)
  <2> HIDE DEF F
  <2> QED
    BY <1>3, <1>5
<1>7. a[0] = c.entry /\ \A n \in 1..N : a[n] = IF a[n - 1] = NoStation THEN NoStation ELSE c.next[a[n - 1]]
  BY <1>1, <1>6
<1>8. \A n \in 0..N : a[n] \in S
  <2> DEFINE T == {n \in 0..N : a[n] \in S}
  <2>1. 0 \in T
    BY <1>1, <1>2, <1>7
  <2>2. ASSUME NEW n \in 1..N, n - 1 \in T PROVE n \in T
    BY <1>1, <1>7, <2>2 DEF S, Net, ValidNet
  <2> HIDE DEF T
  <2>3. \A n \in 0..N : n \in T
    BY <1>1, <2>1, <2>2, UpToAll
  <2> QED
    BY <2>3 DEF T
<1> QED
  BY <1>1, <1>7, <1>8 DEF N, S, a

\* The times of service add up along the route.
LEMMA ServedSteps ==
  ASSUME NEW c, Net(c)
  PROVE  /\ Served(c)[0] = 0
         /\ \A n \in 0..Cardinality(Stations(c)) :
              Served(c)[n + 1] = Served(c)[n] + IF Along(c)[n] = NoStation THEN 0 ELSE c.service[Along(c)[n]]
         /\ \A n \in 0..(Cardinality(Stations(c)) + 1) : Served(c)[n] \in Nat
<1> DEFINE N == Cardinality(Stations(c)) + 1
           Of(n) == IF Along(c)[n - 1] = NoStation THEN 0 ELSE c.service[Along(c)[n - 1]]
           F(f) == f = [n \in 0..N |-> IF n = 0 THEN 0 ELSE f[n - 1] + Of(n)]
           h == [n \in 1..N |-> [t \in Nat |-> t + Of(n)]]
           a == Served(c)
<1>1. N \in Nat /\ N = Cardinality(Stations(c)) + 1 /\ Cardinality(Stations(c)) \in Nat
  BY AlongSteps
<1>2. \A n \in 1..N : Of(n) \in Nat
  BY <1>1, AlongSteps DEF Net, Specified
<1>3. a = CHOOSE f : F(f)
  BY DEF Served
<1>4. \A n \in 0..Cardinality(Stations(c)) :
        Of(n + 1) = IF Along(c)[n] = NoStation THEN 0 ELSE c.service[Along(c)[n]]
  BY <1>1
<1> HIDE DEF N, Of, a
<1>5. h \in [1..N -> [Nat -> Nat]]
  BY <1>2
<1> HIDE DEF h
<1>6. PICK f \in [0..N -> Nat] : f[0] = 0 /\ \A k \in 1..N : f[k] = h[k][f[k - 1]]
  <2>1. 0 \in Nat
    BY <1>1, <1>5
  <2>2. \E f \in [0..N -> Nat] : Recurs(f, N, 0, h)
    BY <1>1, <1>5, <2>1, Recursion, Zenon
  <2> QED
    BY <2>2 DEF Recurs
<1>7. F(f)
  <2>1. ASSUME NEW k \in 1..N PROVE f[k] = f[k - 1] + Of(k)
    <3>1. f[k - 1] \in Nat
      BY <1>1, <1>6
    <3> QED
      BY <1>6, <3>1 DEF h
  <2> QED
    BY <1>1, <1>6, <2>1
<1>8. F(a)
  <2> HIDE DEF F
  <2> QED
    BY <1>3, <1>7
<1>9. a[0] = 0 /\ \A n \in 1..N : a[n] = a[n - 1] + Of(n)
  BY <1>1, <1>8
<1>10. \A n \in 0..N : a[n] \in Nat
  <2> DEFINE T == {n \in 0..N : a[n] \in Nat}
  <2>1. 0 \in T
    BY <1>1, <1>9
  <2>2. ASSUME NEW n \in 1..N, n - 1 \in T PROVE n \in T
    BY <1>1, <1>2, <1>9, <2>2
  <2> HIDE DEF T
  <2>3. \A n \in 0..N : n \in T
    BY <1>1, <2>1, <2>2, UpToAll
  <2> QED
    BY <2>3 DEF T
<1>11. \A n \in 0..Cardinality(Stations(c)) : a[n + 1] = a[n] + Of(n + 1)
  BY <1>1, <1>9
<1> QED
  BY <1>1, <1>4, <1>9, <1>10, <1>11 DEF a

\* A station of the route has a successor on it or ends it, and then nothing is
\* left to be served.
LEMMA OnRoute ==
  ASSUME NEW c, Net(c), NEW n \in Route(c)
  PROVE  /\ n \in Nat /\ n < Cardinality(Stations(c)) /\ Along(c)[n] \in Stations(c)
         /\ Along(c)[n + 1] = c.next[Along(c)[n]]
         /\ Served(c)[n] \in Nat /\ Served(c)[n + 1] = Served(c)[n] + c.service[Along(c)[n]]
         /\ Along(c)[n + 1] # NoStation => n + 1 \in Route(c)
         /\ Along(c)[n + 1] = NoStation => Served(c)[n + 1] = Served(c)[Cardinality(Stations(c)) + 1]
<1> DEFINE K == Cardinality(Stations(c))
<1>1. K \in Nat /\ n \in 0..K /\ Along(c)[n] # NoStation /\ Along(c)[K] = NoStation
  BY AlongSteps DEF Route, Net, ValidNet
<1>2. n < K /\ n + 1 \in 1..K /\ n + 1 \in 0..K
  BY <1>1
<1>3. Along(c)[n] \in Stations(c) /\ Along(c)[n + 1] = c.next[Along(c)[n]]
  <2>1. (n + 1) - 1 = n
    BY <1>1
  <2> QED
    BY <1>1, <1>2, <2>1, AlongSteps
<1>4. Served(c)[n] \in Nat /\ Served(c)[n + 1] = Served(c)[n] + c.service[Along(c)[n]]
  BY <1>1, ServedSteps
<1>5. Along(c)[n + 1] # NoStation => n + 1 \in Route(c)
  BY <1>2 DEF Route
<1>6. ASSUME Along(c)[n + 1] = NoStation PROVE Served(c)[n + 1] = Served(c)[K + 1]
  <2> DEFINE T == {k \in 0..(K - (n + 1)) : /\ Along(c)[n + 1 + k] = NoStation
                                            /\ Served(c)[n + 2 + k] = Served(c)[n + 1]}
             m == K - (n + 1)
  <2>1. m \in Nat
    BY <1>1, <1>2
  <2>2. 0 \in T
    <3>1. Served(c)[(n + 1) + 1] = Served(c)[n + 1] + 0 /\ Served(c)[n + 1] \in Nat
      BY <1>1, <1>2, <1>6, ServedSteps
    <3>2. (n + 1) + 1 = n + 2 + 0 /\ n + 1 + 0 = n + 1
      BY <1>1
    <3> QED
      BY <1>1, <1>2, <1>6, <2>1, <3>1, <3>2
  <2>3. ASSUME NEW k \in 1..m, k - 1 \in T PROVE k \in T
    <3>1. /\ n + 1 + (k - 1) = n + k /\ n + 2 + (k - 1) = (n + k) + 1 /\ n + 1 + k = (n + k) + 1 /\ n + 2 + k = ((n + k) + 1) + 1
          /\ (n + k) + 1 \in 1..K /\ ((n + k) + 1) - 1 = n + k /\ k \in 0..m
      BY <1>1, <2>1
    <3>2. Along(c)[n + k] = NoStation /\ Served(c)[(n + k) + 1] = Served(c)[n + 1]
      BY <2>3, <3>1
    <3>3. Along(c)[(n + k) + 1] = NoStation
      BY <3>1, <3>2, AlongSteps
    <3>4. (n + k) + 1 \in 0..K
      BY <1>1, <3>1
    <3>5. Served(c)[((n + k) + 1) + 1] = Served(c)[(n + k) + 1] + 0
      BY <3>3, <3>4, ServedSteps
    <3>6. Served(c)[n + 1] \in Nat
      BY <1>1, <1>2, ServedSteps
    <3> QED
      BY <3>1, <3>2, <3>3, <3>5, <3>6
  <2> HIDE DEF T
  <2>4. m \in T
    <3>1. \A k \in 0..m : k \in T
      BY <2>1, <2>2, <2>3, UpToAll
    <3> QED
      BY <2>1, <3>1
  <2>5. n + 2 + m = K + 1
    BY <1>1
  <2> QED
    BY <2>4, <2>5 DEF T
<1> QED
  BY <1>1, <1>2, <1>3, <1>4, <1>5, <1>6

\* No station is on the route twice.
LEMMA RouteOnce ==
  ASSUME NEW c, Net(c), NEW i \in Route(c), NEW j \in Route(c), Along(c)[i] = Along(c)[j]
  PROVE  i = j
<1> DEFINE K == Cardinality(Stations(c))
           a == Along(c)
<1>1. /\ K \in Nat /\ a[K] = NoStation
      /\ \A n \in 1..K : a[n] = IF a[n - 1] = NoStation THEN NoStation ELSE c.next[a[n - 1]]
      /\ i \in 0..K /\ j \in 0..K /\ a[i] = a[j]
      /\ \A n \in Route(c) : n \in 0..K /\ a[n] # NoStation
      /\ \A n \in 0..K : a[n] # NoStation => n \in Route(c)
  BY AlongSteps DEF Net, ValidNet, Route
<1> HIDE DEF K, a
<1>2. ASSUME NEW x \in Route(c), NEW y \in Route(c), x < y, a[x] = a[y] PROVE FALSE
  <2>0. K \in Nat
    BY <1>1
  <2>1. x \in 0..K /\ y \in 0..K
    BY <1>1
  <2>2. PICK m \in {n \in 0..K : a[n] = NoStation} : \A n \in {n \in 0..K : a[n] = NoStation} : m <= n
    <3>1. K \in {n \in 0..K : a[n] = NoStation}
      BY <1>1
    <3>2. {n \in 0..K : a[n] = NoStation} \in SUBSET Nat
      BY <1>1
    <3> QED
      BY <3>1, <3>2, NatMin
  <2>3. m > y
    <3>1. ASSUME m <= y PROVE FALSE
      <4> DEFINE T == {k \in 0..(y - m) : a[m + k] = NoStation}
      <4>1. 0 \in T
        BY <2>1, <2>2, <3>1
      <4>2. ASSUME NEW k \in 1..(y - m), k - 1 \in T PROVE k \in T
        <5>1. m + k \in 1..K /\ m + (k - 1) = (m + k) - 1 /\ k \in 0..(y - m)
          BY <2>0, <2>1, <2>2, <3>1
        <5> QED
          BY <1>1, <4>2, <5>1
      <4>3. y - m \in Nat /\ m + (y - m) = y
        BY <2>1, <2>2, <3>1
      <4> HIDE DEF T
      <4>4. \A k \in 0..(y - m) : k \in T
        BY <4>1, <4>2, <4>3, UpToAll
      <4>5. a[m + (y - m)] = NoStation
        BY <4>3, <4>4 DEF T
      <4> QED
        BY <1>1, <4>3, <4>5
    <3> QED
      BY <2>1, <2>2, <3>1
  <2> DEFINE T == {k \in 0..(m - y) : a[x + k] = a[y + k]}
  <2>4. 0 \in T
    BY <1>2, <2>1, <2>2, <2>3
  <2>5. ASSUME NEW k \in 1..(m - y), k - 1 \in T PROVE k \in T
    <3>1. /\ x + k \in 1..K /\ y + k \in 1..K /\ k \in 0..(m - y)
          /\ x + (k - 1) = (x + k) - 1 /\ y + (k - 1) = (y + k) - 1
      BY <1>2, <2>0, <2>1, <2>2, <2>3
    <3> QED
      BY <1>1, <2>5, <3>1
  <2>6. m - y \in Nat /\ y + (m - y) = m /\ x + (m - y) \in 0..K /\ x + (m - y) < m
    BY <1>2, <2>0, <2>1, <2>2, <2>3
  <2> HIDE DEF T
  <2>7. \A k \in 0..(m - y) : k \in T
    BY <2>4, <2>5, <2>6, UpToAll
  <2>8. a[x + (m - y)] = NoStation
    BY <2>2, <2>6, <2>7 DEF T
  <2> QED
    BY <2>2, <2>6, <2>8
<1> QED
  BY <1>1, <1>2

-------------------------------------------------------------------------------
(* The fields of a run.                                                         *)

\* A list has finitely many members, and as many as its length if none is in it
\* twice.
LEMMA ListSet ==
  ASSUME NEW S, NEW s \in Seq(S)
  PROVE  /\ IsFiniteSet(ToSet(s)) /\ Cardinality(ToSet(s)) \in Nat /\ Cardinality(ToSet(s)) <= Len(s)
         /\ (\A i, j \in DOMAIN s : s[i] = s[j] => i = j) => Cardinality(ToSet(s)) = Len(s)
<1>1. Len(s) \in Nat /\ DOMAIN s = 1..Len(s)
  OBVIOUS
<1> DEFINE I == 1..Len(s)
<1>2. IsFiniteSet(I) /\ Cardinality(I) = Len(s)
  <2> DEFINE n == Len(s)
  <2>1. n \in Nat
    BY <1>1
  <2> HIDE DEF n
  <2>2. 1 \in Int /\ n \in Int
    BY <2>1
  <2>3. IsFiniteSet(1..n) /\ Cardinality(1..n) = IF 1 > n THEN 0 ELSE n - 1 + 1
    BY <2>2, FS_Interval
  <2>4. (IF 1 > n THEN 0 ELSE n - 1 + 1) = n
    BY <2>1
  <2> QED
    BY <2>3, <2>4 DEF n
<1>3. s \in Surjection(I, ToSet(s))
  BY <1>1 DEF Surjection, ToSet
<1>4. (\A i, j \in DOMAIN s : s[i] = s[j] => i = j) => s \in Injection(I, ToSet(s))
  BY <1>1, <1>3 DEF Injection, IsInjective, Surjection
<1> HIDE DEF I
<1>5. /\ IsFiniteSet(ToSet(s)) /\ Cardinality(ToSet(s)) <= Cardinality(I)
      /\ Cardinality(ToSet(s)) = Cardinality(I) <=> s \in Injection(I, ToSet(s))
  BY <1>2, <1>3, FS_Surjection
<1>6. Cardinality(ToSet(s)) \in Nat
  BY <1>5, FS_CardinalityType
<1> QED
  BY <1>2, <1>4, <1>5, <1>6

\* Every field has its type, and so have the entries of those that are functions.
LEMMA RunTypes ==
  ASSUME NEW c, Net(c), NEW q \in Runs(c)
  PROVE  /\ q.turn \in Nat /\ q.seq \in Nat /\ q.calendar \subseteq Events(c) /\ q.completed \in Seq(Patients(c))
         /\ q.queue \in [Stations(c) -> Seq(Patients(c))] /\ q.serving \in [Stations(c) -> SUBSET Patients(c)]
         /\ q.started \in Counters(c) /\ q.finished \in Counters(c) /\ q.busy \in Counters(c)
         /\ q.since \in [Patients(c) -> Nat] /\ q.waited \in [Patients(c) -> Int] /\ q.gone \in [Patients(c) -> Nat]
         /\ q.metrics \in BOOLEAN
         /\ \A e \in q.calendar : /\ e.at \in Nat /\ e.seq \in Nat /\ e.patient \in Patients(c)
                                  /\ e.station \in Stations(c) \cup {NoStation}
         /\ \A st \in Stations(c) :
              /\ q.queue[st] \in Seq(Patients(c)) /\ Len(q.queue[st]) \in Nat /\ DOMAIN q.queue[st] = 1..Len(q.queue[st])
              /\ \A i \in DOMAIN q.queue[st] : q.queue[st][i] \in Patients(c)
              /\ q.serving[st] \subseteq Patients(c) /\ IsFiniteSet(q.serving[st]) /\ Cardinality(q.serving[st]) \in Nat
              /\ c.capacity[st] \in Nat \ {0} /\ c.service[st] \in Nat \ {0}
         /\ IsFiniteSet(Patients(c)) /\ \A p \in Patients(c) : c.arrival[p] \in Nat
         /\ Len(q.completed) \in Nat /\ DOMAIN q.completed = 1..Len(q.completed)
         /\ \A i \in DOMAIN q.completed : q.completed[i] \in Patients(c)
<1>1. /\ q.turn \in Nat /\ q.seq \in Nat /\ q.calendar \subseteq Events(c) /\ q.completed \in Seq(Patients(c))
      /\ q.queue \in [Stations(c) -> Seq(Patients(c))] /\ q.serving \in [Stations(c) -> SUBSET Patients(c)]
      /\ q.started \in Counters(c) /\ q.finished \in Counters(c) /\ q.busy \in Counters(c)
      /\ q.since \in [Patients(c) -> Nat] /\ q.waited \in [Patients(c) -> Int] /\ q.gone \in [Patients(c) -> Nat]
      /\ q.metrics \in BOOLEAN
  BY DEF Runs
<1>2. \A e \in q.calendar : /\ e.at \in Nat /\ e.seq \in Nat /\ e.patient \in Patients(c)
                            /\ e.station \in Stations(c) \cup {NoStation}
  BY <1>1 DEF Events
<1>3. IsFiniteSet(Patients(c))
  <2>1. c.patients \in Seq(Patients(c)) /\ Patients(c) = ToSet(c.patients)
    BY DEF Net, Specified, Patients
  <2> QED
    BY <2>1, ListSet
<1>4. ASSUME NEW st \in Stations(c)
      PROVE  /\ q.queue[st] \in Seq(Patients(c)) /\ Len(q.queue[st]) \in Nat /\ DOMAIN q.queue[st] = 1..Len(q.queue[st])
             /\ \A i \in DOMAIN q.queue[st] : q.queue[st][i] \in Patients(c)
             /\ q.serving[st] \subseteq Patients(c) /\ IsFiniteSet(q.serving[st]) /\ Cardinality(q.serving[st]) \in Nat
  <2>1. q.queue[st] \in Seq(Patients(c)) /\ q.serving[st] \subseteq Patients(c)
    BY <1>1
  <2>2. Len(q.queue[st]) \in Nat /\ DOMAIN q.queue[st] = 1..Len(q.queue[st])
        /\ \A i \in DOMAIN q.queue[st] : q.queue[st][i] \in Patients(c)
    BY <2>1
  <2>3. IsFiniteSet(q.serving[st]) /\ Cardinality(q.serving[st]) \in Nat
    BY <1>3, <2>1, FS_Subset, FS_CardinalityType
  <2> QED
    BY <2>1, <2>2, <2>3
<1>5. \A st \in Stations(c) : c.capacity[st] \in Nat \ {0} /\ c.service[st] \in Nat \ {0}
  BY DEF Net, Specified
<1>6. \A p \in Patients(c) : c.arrival[p] \in Nat
  BY DEF Net, Specified
<1>7. Len(q.completed) \in Nat /\ DOMAIN q.completed = 1..Len(q.completed)
      /\ \A i \in DOMAIN q.completed : q.completed[i] \in Patients(c)
  BY <1>1
<1> QED
  BY <1>1, <1>2, <1>3, <1>4, <1>5, <1>6, <1>7

-------------------------------------------------------------------------------
(* Calling those who wait.                                                      *)

\* Who is called at a station.
CalledUp(c, q, st) == {q.queue[st][i] : i \in 1..Called(c, q, st)}

\* The number of those who are called, and what stays in the queue.
LEMMA Calls ==
  ASSUME NEW c, Net(c), NEW q \in Runs(c), NEW st \in Stations(c), Cardinality(q.serving[st]) <= c.capacity[st]
  PROVE  LET n == Called(c, q, st)
             w == q.queue[st]
         IN  /\ n \in Nat /\ n <= Len(w) /\ Free(c, q, st) \in Nat /\ n <= Free(c, q, st)
             /\ n = Len(w) \/ n = Free(c, q, st)
             /\ ToSet(SubSeq(w, 1, n)) = CalledUp(c, q, st) /\ \A i \in 1..n : SubSeq(w, 1, n)[i] = w[i]
             /\ CalledUp(c, q, st) \subseteq ToSet(w) /\ CalledUp(c, q, st) \subseteq Patients(c)
             /\ SubSeq(w, n + 1, Len(w)) \in Seq(Patients(c))
             /\ DOMAIN SubSeq(w, n + 1, Len(w)) = 1..(Len(w) - n) /\ Len(SubSeq(w, n + 1, Len(w))) = Len(w) - n
             /\ \A i \in 1..(Len(w) - n) : SubSeq(w, n + 1, Len(w))[i] = w[n + i]
<1> DEFINE n == Called(c, q, st)
           w == q.queue[st]
           L == Len(w)
<1>1. /\ w \in Seq(Patients(c)) /\ L \in Nat /\ DOMAIN w = 1..L /\ \A i \in 1..L : w[i] \in Patients(c)
      /\ Cardinality(q.serving[st]) \in Nat /\ c.capacity[st] \in Nat
  BY RunTypes
<1>2. Free(c, q, st) \in Nat
  BY <1>1 DEF Free
<1>3. n \in Nat /\ n <= L /\ n <= Free(c, q, st) /\ (n = L \/ n = Free(c, q, st))
  BY <1>1, <1>2 DEF Called
<1>4. CalledUp(c, q, st) = {w[i] : i \in 1..n}
  BY DEF CalledUp
<1> HIDE DEF n, w, L
<1>5. Len(SubSeq(w, 1, n)) = n /\ DOMAIN SubSeq(w, 1, n) = 1..n /\ \A i \in 1..n : SubSeq(w, 1, n)[i] = w[i]
  <2>1. 1 \in Int /\ n \in Int /\ \A i \in 1..n : w[i] \in Patients(c)
    BY <1>1, <1>3
  <2>2. /\ SubSeq(w, 1, n) \in Seq(Patients(c)) /\ Len(SubSeq(w, 1, n)) = (IF 1 <= n THEN n - 1 + 1 ELSE 0)
        /\ \A i \in 1..(n - 1 + 1) : SubSeq(w, 1, n)[i] = w[1 + i - 1]
    BY <2>1, SubSeqProperties
  <2> QED
    BY <1>3, <2>2
<1>6. ToSet(SubSeq(w, 1, n)) = CalledUp(c, q, st)
  BY <1>4, <1>5 DEF ToSet
<1>7. CalledUp(c, q, st) \subseteq ToSet(w) /\ CalledUp(c, q, st) \subseteq Patients(c)
  BY <1>1, <1>3, <1>4 DEF ToSet
<1>8. /\ SubSeq(w, n + 1, L) \in Seq(Patients(c))
      /\ Len(SubSeq(w, n + 1, L)) = L - n /\ DOMAIN SubSeq(w, n + 1, L) = 1..(L - n)
      /\ \A i \in 1..(L - n) : SubSeq(w, n + 1, L)[i] = w[n + i]
  <2>1. n + 1 \in Int /\ L \in Int /\ \A i \in (n + 1)..L : w[i] \in Patients(c)
    BY <1>1, <1>3
  <2>2. /\ SubSeq(w, n + 1, L) \in Seq(Patients(c))
        /\ Len(SubSeq(w, n + 1, L)) = (IF n + 1 <= L THEN L - (n + 1) + 1 ELSE 0)
        /\ \A i \in 1..(L - (n + 1) + 1) : SubSeq(w, n + 1, L)[i] = w[(n + 1) + i - 1]
    BY <2>1, SubSeqProperties
  <2>3. L - (n + 1) + 1 = L - n /\ \A i \in 1..(L - n) : (n + 1) + i - 1 = n + i
    BY <1>1, <1>3
  <2>4. Len(SubSeq(w, n + 1, L)) = L - n
    BY <1>1, <1>3, <2>2
  <2> QED
    BY <2>2, <2>3, <2>4
<1> QED
  BY <1>2, <1>3, <1>5, <1>6, <1>7, <1>8 DEF n, w, L

\* What calling the first n changes, field by field.
Fields(c, q, st, n, r) ==
  /\ r \in Runs(c)
  /\ r.turn = q.turn /\ r.seq = q.seq + n /\ r.completed = q.completed /\ r.finished = q.finished
  /\ r.since = q.since /\ r.gone = q.gone /\ r.metrics = q.metrics
  /\ r.queue = [q.queue EXCEPT ![st] = SubSeq(q.queue[st], n + 1, Len(q.queue[st]))]
  /\ r.serving = [q.serving EXCEPT ![st] = @ \cup CalledUp(c, q, st)]
  /\ r.started = [q.started EXCEPT ![st] = @ + n]
  /\ r.busy = [q.busy EXCEPT ![st] = @ + n * c.service[st]]
  /\ r.waited = [p \in Patients(c) |-> IF p \in CalledUp(c, q, st)
                                       THEN q.waited[p] + (q.turn - q.since[p]) ELSE q.waited[p]]
  /\ r.calendar = q.calendar \cup {Event(q.turn + c.service[st], q.seq + i, q.queue[st][i], st) : i \in 1..n}

\* These are the fields of a run whose station has called.
LEMMA TryStartFields ==
  ASSUME NEW c, Net(c), NEW q \in Runs(c), NEW st \in Stations(c), Cardinality(q.serving[st]) <= c.capacity[st]
  PROVE  Fields(c, q, st, Called(c, q, st), TryStart(c, q, st))
<1> DEFINE n == Called(c, q, st)
           w == q.queue[st]
           r == TryStart(c, q, st)
           called == SubSeq(w, 1, n)
           new == {Event(q.turn + c.service[st], q.seq + i, called[i], st) : i \in 1..n}
           queue == [q.queue EXCEPT ![st] = SubSeq(w, n + 1, Len(w))]
           serving == [q.serving EXCEPT ![st] = @ \cup ToSet(called)]
           started == [q.started EXCEPT ![st] = @ + n]
           busy == [q.busy EXCEPT ![st] = @ + n * c.service[st]]
           waited == [p \in Patients(c) |-> IF p \in ToSet(called)
                                            THEN q.waited[p] + (q.turn - q.since[p]) ELSE q.waited[p]]
<1>1. st # NoStation
  BY DEF Net, Specified
<1>2. r = [q EXCEPT !.queue = queue, !.serving = serving, !.started = started, !.busy = busy, !.waited = waited,
                    !.calendar = @ \cup new, !.seq = @ + n]
  <2>1. r = Start(c, q, st, n)
    BY <1>1 DEF TryStart
  <2> HIDE DEF n, r
  <2> QED
    BY <2>1 DEF Start
<1>3. /\ n \in Nat /\ n <= Len(w) /\ ToSet(called) = CalledUp(c, q, st) /\ \A i \in 1..n : called[i] = w[i]
      /\ CalledUp(c, q, st) \subseteq Patients(c) /\ SubSeq(w, n + 1, Len(w)) \in Seq(Patients(c))
  BY Calls
<1>4. queue \in [Stations(c) -> Seq(Patients(c))] /\ serving \in [Stations(c) -> SUBSET Patients(c)]
  BY <1>3, RunTypes
<1>5. started \in Counters(c) /\ busy \in Counters(c)
  <2>1. n * c.service[st] \in Nat
    BY <1>3, RunTypes
  <2>2. q.started \in [Stations(c) -> Nat] /\ q.busy \in [Stations(c) -> Nat]
    BY RunTypes DEF Counters
  <2> HIDE DEF n
  <2> QED
    BY <1>3, <2>1, <2>2 DEF Counters
<1>6. waited \in [Patients(c) -> Int]
  BY RunTypes
<1>7. new \subseteq Events(c) /\ new = {Event(q.turn + c.service[st], q.seq + i, w[i], st) : i \in 1..n}
  <2>1. ASSUME NEW i \in 1..n PROVE Event(q.turn + c.service[st], q.seq + i, w[i], st) \in Events(c)
    <3>1. i \in 1..Len(w) /\ w[i] \in Patients(c) /\ q.seq + i \in Nat /\ q.turn + c.service[st] \in Nat
      <4>1. DOMAIN w = 1..Len(w) /\ Len(w) \in Nat /\ q.seq \in Nat /\ q.turn \in Nat /\ c.service[st] \in Nat
        BY RunTypes
      <4>2. \A k \in DOMAIN w : w[k] \in Patients(c)
        BY RunTypes
      <4> HIDE DEF n, w
      <4> QED
        BY <1>3, <4>1, <4>2
    <3> QED
      BY <3>1 DEF Event, Events
  <2>2. new = {Event(q.turn + c.service[st], q.seq + i, w[i], st) : i \in 1..n}
    BY <1>3
  <2> QED
    BY <2>1, <2>2
<1>8. q.seq + n \in Nat
  BY <1>3, RunTypes
<1> HIDE DEF n, w, r, called, new, queue, serving, started, busy, waited
<1>9. /\ r.turn = q.turn /\ r.seq = q.seq + n /\ r.completed = q.completed /\ r.finished = q.finished
      /\ r.since = q.since /\ r.gone = q.gone /\ r.metrics = q.metrics
      /\ r.queue = queue /\ r.serving = serving /\ r.started = started /\ r.busy = busy /\ r.waited = waited
      /\ r.calendar = q.calendar \cup new
  BY <1>2 DEF Runs
<1>10. r \in Runs(c)
  BY <1>2, <1>4, <1>5, <1>6, <1>7, <1>8 DEF Runs
<1> QED
  BY <1>3, <1>7, <1>9, <1>10 DEF n, w, r, queue, serving, started, busy, waited, Fields

\* Who waits has no event and is at no station's service.
LEMMA CalledAreNew ==
  ASSUME NEW c, Net(c), NEW q \in Runs(c), Booked(c, q), NEW st \in Stations(c),
         Cardinality(q.serving[st]) <= c.capacity[st]
  PROVE  /\ \A e \in q.calendar : e.patient \notin CalledUp(c, q, st)
         /\ q.serving[st] \cap CalledUp(c, q, st) = {}
         /\ IsFiniteSet(CalledUp(c, q, st)) /\ Cardinality(CalledUp(c, q, st)) = Called(c, q, st)
         /\ Cardinality(q.serving[st] \cup CalledUp(c, q, st)) = Cardinality(q.serving[st]) + Called(c, q, st)
<1> DEFINE n == Called(c, q, st)
           w == q.queue[st]
<1>1. /\ n \in Nat /\ n <= Len(w) /\ ToSet(SubSeq(w, 1, n)) = CalledUp(c, q, st)
      /\ \A i \in 1..n : SubSeq(w, 1, n)[i] = w[i] /\ CalledUp(c, q, st) \subseteq ToSet(w)
      /\ CalledUp(c, q, st) \subseteq Patients(c)
  BY Calls
<1>2. CalledUp(c, q, st) \subseteq Queued(c, q)
  BY <1>1, Calls DEF Queued
<1>3. \A e \in q.calendar : e.patient \notin CalledUp(c, q, st)
  BY <1>2 DEF Booked, Expecting
<1>4. q.serving[st] \cap CalledUp(c, q, st) = {}
  BY <1>3 DEF Booked
<1>5. /\ w \in Seq(Patients(c)) /\ DOMAIN w = 1..Len(w) /\ Len(w) \in Nat
      /\ \A i \in DOMAIN w : w[i] \in Patients(c)
      /\ IsFiniteSet(q.serving[st]) /\ Cardinality(q.serving[st]) \in Nat
  BY RunTypes
<1>6. \A i, j \in DOMAIN w : w[i] = w[j] => i = j
  BY DEF Booked
<1> HIDE DEF n, w
<1> DEFINE s == SubSeq(w, 1, n)
<1>7. s \in Seq(Patients(c)) /\ Len(s) = n /\ DOMAIN s = 1..n /\ \A i \in 1..n : s[i] = w[i]
  <2>1. 1 \in Int /\ n \in Int /\ \A i \in 1..n : w[i] \in Patients(c)
    BY <1>1, <1>5
  <2>2. /\ s \in Seq(Patients(c)) /\ Len(s) = (IF 1 <= n THEN n - 1 + 1 ELSE 0)
        /\ \A i \in 1..(n - 1 + 1) : s[i] = w[1 + i - 1]
    BY <2>1, SubSeqProperties
  <2> QED
    BY <1>1, <2>2
<1>8. \A i, j \in DOMAIN s : s[i] = s[j] => i = j
  BY <1>1, <1>5, <1>6, <1>7
<1> HIDE DEF s
<1>9. IsFiniteSet(ToSet(s)) /\ Cardinality(ToSet(s)) = n
  BY <1>7, <1>8, ListSet
<1>10. IsFiniteSet(CalledUp(c, q, st)) /\ Cardinality(CalledUp(c, q, st)) = n
  BY <1>1, <1>9 DEF s
<1>11. Cardinality(q.serving[st] \cup CalledUp(c, q, st)) = Cardinality(q.serving[st]) + n
  <2>1. Cardinality(q.serving[st] \cup CalledUp(c, q, st)) = Cardinality(q.serving[st]) + n - Cardinality({})
    BY <1>4, <1>5, <1>10, FS_Union
  <2> QED
    BY <1>1, <1>5, <2>1, FS_EmptySet
<1> QED
  BY <1>3, <1>4, <1>10, <1>11 DEF n

\* r is q after the first n in the queue of st were called.
Calling(c, q, st, n, r) ==
  /\ r \in Runs(c) /\ n \in Nat /\ n <= Len(q.queue[st])
  /\ n = Len(q.queue[st]) \/ Cardinality(q.serving[st]) + n = c.capacity[st]
  /\ Cardinality(q.serving[st]) + n <= c.capacity[st]
  /\ r.turn = q.turn /\ r.seq = q.seq + n /\ r.completed = q.completed /\ r.finished = q.finished
  /\ r.since = q.since /\ r.gone = q.gone /\ r.metrics = q.metrics
  /\ \A t \in Stations(c) \ {st} : /\ r.queue[t] = q.queue[t] /\ r.serving[t] = q.serving[t]
                                   /\ r.started[t] = q.started[t] /\ r.busy[t] = q.busy[t]
  /\ DOMAIN r.queue[st] = 1..(Len(q.queue[st]) - n)
  /\ \A i \in 1..(Len(q.queue[st]) - n) : r.queue[st][i] = q.queue[st][n + i]
  /\ r.serving[st] = q.serving[st] \cup {q.queue[st][i] : i \in 1..n}
  /\ Cardinality(r.serving[st]) = Cardinality(q.serving[st]) + n
  /\ r.started[st] = q.started[st] + n /\ r.busy[st] = q.busy[st] + n * c.service[st]
  /\ \A i \in 1..n : r.waited[q.queue[st][i]] = q.waited[q.queue[st][i]] + (q.turn - q.since[q.queue[st][i]])
  /\ \A p \in Patients(c) : (\A i \in 1..n : p # q.queue[st][i]) => r.waited[p] = q.waited[p]
  /\ r.calendar = q.calendar \cup {Event(q.turn + c.service[st], q.seq + i, q.queue[st][i], st) : i \in 1..n}

\* This is what calling at a station does to books that are in order.
LEMMA StartCalls ==
  ASSUME NEW c, Net(c), NEW q \in Runs(c), Booked(c, q), NEW st \in Stations(c),
         Cardinality(q.serving[st]) <= c.capacity[st]
  PROVE  Calling(c, q, st, Called(c, q, st), TryStart(c, q, st))
<1> DEFINE n == Called(c, q, st)
           w == q.queue[st]
           r == TryStart(c, q, st)
<1>1. /\ r \in Runs(c)
      /\ r.turn = q.turn /\ r.seq = q.seq + n /\ r.completed = q.completed /\ r.finished = q.finished
      /\ r.since = q.since /\ r.gone = q.gone /\ r.metrics = q.metrics
      /\ r.queue = [q.queue EXCEPT ![st] = SubSeq(w, n + 1, Len(w))]
      /\ r.serving = [q.serving EXCEPT ![st] = @ \cup CalledUp(c, q, st)]
      /\ r.started = [q.started EXCEPT ![st] = @ + n]
      /\ r.busy = [q.busy EXCEPT ![st] = @ + n * c.service[st]]
      /\ r.waited = [p \in Patients(c) |-> IF p \in CalledUp(c, q, st)
                                           THEN q.waited[p] + (q.turn - q.since[p]) ELSE q.waited[p]]
      /\ r.calendar = q.calendar \cup {Event(q.turn + c.service[st], q.seq + i, w[i], st) : i \in 1..n}
  <2>1. Fields(c, q, st, n, r)
    BY TryStartFields
  <2> HIDE DEF n, r
  <2> QED
    BY <2>1 DEF Fields
<1>2. /\ n \in Nat /\ n <= Len(w) /\ Free(c, q, st) \in Nat /\ n <= Free(c, q, st)
      /\ n = Len(w) \/ n = Free(c, q, st)
      /\ DOMAIN SubSeq(w, n + 1, Len(w)) = 1..(Len(w) - n)
      /\ \A i \in 1..(Len(w) - n) : SubSeq(w, n + 1, Len(w))[i] = w[n + i]
  BY Calls
<1>3. Cardinality(q.serving[st] \cup CalledUp(c, q, st)) = Cardinality(q.serving[st]) + n
  BY CalledAreNew
<1>4. CalledUp(c, q, st) = {w[i] : i \in 1..n}
  BY DEF CalledUp
<1>5. /\ q.queue \in [Stations(c) -> Seq(Patients(c))] /\ q.serving \in [Stations(c) -> SUBSET Patients(c)]
      /\ q.started \in [Stations(c) -> Nat] /\ q.busy \in [Stations(c) -> Nat]
      /\ Cardinality(q.serving[st]) \in Nat /\ c.capacity[st] \in Nat
  BY RunTypes DEF Counters
<1>6. \A i \in 1..n : w[i] \in Patients(c)
  <2>1. DOMAIN w = 1..Len(w) /\ Len(w) \in Nat /\ \A i \in DOMAIN w : w[i] \in Patients(c)
    BY RunTypes
  <2> HIDE DEF n, w
  <2> QED
    BY <1>2, <2>1
<1>7. /\ n = Len(w) \/ Cardinality(q.serving[st]) + n = c.capacity[st]
      /\ Cardinality(q.serving[st]) + n <= c.capacity[st]
  <2>1. Free(c, q, st) = c.capacity[st] - Cardinality(q.serving[st])
    BY DEF Free
  <2> HIDE DEF n, w
  <2> QED
    BY <1>2, <1>5, <2>1
<1> HIDE DEF n, r
<1>8. \A t \in Stations(c) \ {st} : /\ r.queue[t] = q.queue[t] /\ r.serving[t] = q.serving[t]
                                   /\ r.started[t] = q.started[t] /\ r.busy[t] = q.busy[t]
  BY <1>1, <1>5
<1>9. /\ DOMAIN r.queue[st] = 1..(Len(w) - n)
      /\ \A i \in 1..(Len(w) - n) : r.queue[st][i] = w[n + i]
      /\ r.serving[st] = q.serving[st] \cup {w[i] : i \in 1..n}
      /\ Cardinality(r.serving[st]) = Cardinality(q.serving[st]) + n
      /\ r.started[st] = q.started[st] + n /\ r.busy[st] = q.busy[st] + n * c.service[st]
  <2>1. r.queue[st] = SubSeq(w, n + 1, Len(w))
    BY <1>1, <1>5
  <2>2. r.serving[st] = q.serving[st] \cup CalledUp(c, q, st)
    BY <1>1, <1>5
  <2>3. r.started[st] = q.started[st] + n /\ r.busy[st] = q.busy[st] + n * c.service[st]
    BY <1>1, <1>5
  <2> QED
    BY <1>2, <1>3, <1>4, <2>1, <2>2, <2>3
<1>10. \A i \in 1..n : r.waited[w[i]] = q.waited[w[i]] + (q.turn - q.since[w[i]])
  BY <1>1, <1>4, <1>6
<1>11. \A p \in Patients(c) : (\A i \in 1..n : p # w[i]) => r.waited[p] = q.waited[p]
  BY <1>1, <1>4
<1> QED
  BY <1>1, <1>2, <1>7, <1>8, <1>9, <1>10, <1>11 DEF Calling, n, r

\* Calling keeps the numbers and the dates of the events.
LEMMA CallingDated ==
  ASSUME NEW c, Net(c), NEW q \in Runs(c), Dated(q), NEW st \in Stations(c),
         NEW n, NEW r, Calling(c, q, st, n, r)
  PROVE  Dated(r)
<1> DEFINE New(i) == Event(q.turn + c.service[st], q.seq + i, q.queue[st][i], st)
<1>1. r.turn = q.turn /\ r.seq = q.seq + n /\ r.calendar = q.calendar \cup {New(i) : i \in 1..n} /\ n \in Nat
  BY DEF Calling
<1>2. q.turn \in Nat /\ q.seq \in Nat /\ c.service[st] \in Nat
  BY RunTypes
<1>3. \A i \in 1..n : New(i).seq = q.seq + i /\ New(i).at = q.turn + c.service[st]
  BY DEF Event
<1>4. \A e \in q.calendar : e.seq \in Nat /\ e.at \in Nat
  BY RunTypes
<1> HIDE DEF New
<1>5. \A e \in r.calendar : e.seq <= r.seq /\ e.at >= r.turn
  BY <1>1, <1>2, <1>3, <1>4 DEF Dated
<1>6. ASSUME NEW e \in r.calendar, NEW f \in r.calendar, e.seq = f.seq PROVE e = f
  BY <1>1, <1>2, <1>3, <1>4, <1>6 DEF Dated
<1> QED
  BY <1>5, <1>6 DEF Dated

\* Calling keeps the places of a station within its capacity, and leaves none
\* free there while somebody waits.
LEMMA CallingManned ==
  ASSUME NEW c, Net(c), NEW q \in Runs(c), NEW X, Manned(c, q, X), NEW st \in Stations(c),
         NEW n, NEW r, Calling(c, q, st, n, r)
  PROVE  Manned(c, r, X \ {st})
<1>1. ASSUME NEW t \in Stations(c), t # st
      PROVE  /\ Cardinality(r.serving[t]) <= c.capacity[t]
             /\ t \notin X \ {st} /\ r.queue[t] # <<>> => Cardinality(r.serving[t]) = c.capacity[t]
  BY <1>1 DEF Manned, Calling
<1>2. Cardinality(r.serving[st]) <= c.capacity[st]
  BY DEF Calling
<1>3. ASSUME r.queue[st] # <<>> PROVE Cardinality(r.serving[st]) = c.capacity[st]
  <2>1. r.queue[st] \in Seq(Patients(c)) /\ Len(q.queue[st]) \in Nat /\ n \in Nat
    BY RunTypes DEF Calling
  <2>2. n # Len(q.queue[st])
    <3>1. ASSUME n = Len(q.queue[st]) PROVE FALSE
      <4>1. DOMAIN r.queue[st] = 1..0
        <5>1. n - n = 0
          BY <2>1
        <5> QED
          BY <3>1, <5>1 DEF Calling
      <4>2. Len(r.queue[st]) = 0
        <5>1. DOMAIN r.queue[st] = 1..Len(r.queue[st]) /\ Len(r.queue[st]) \in Nat
          BY <2>1
        <5> QED
          BY <4>1, <5>1
      <4> QED
        BY <1>3, <2>1, <4>2
    <3> QED
      BY <3>1
  <2> QED
    BY <2>2 DEF Calling
<1> QED
  BY <1>1, <1>2, <1>3 DEF Manned

\* Who waits has a place in a queue.
LEMMA InQueue ==
  ASSUME NEW c, NEW q, NEW p
  PROVE  p \in Queued(c, q) <=> \E st \in Stations(c) : \E i \in DOMAIN q.queue[st] : p = q.queue[st][i]
BY DEF Queued, ToSet

\* Those called get an event and leave the queue, the others stay where they are.
LEMMA CallingMoves ==
  ASSUME NEW c, Net(c), NEW q \in Runs(c), Booked(c, q), NEW st \in Stations(c),
         NEW n, NEW r, Calling(c, q, st, n, r)
  PROVE  LET C == {q.queue[st][i] : i \in 1..n}
         IN  /\ Expecting(r) = Expecting(q) \cup C
             /\ Queued(c, r) = Queued(c, q) \ C /\ C \subseteq Queued(c, q)
             /\ Discharged(r) = Discharged(q)
<1> DEFINE w == q.queue[st]
           C == {w[i] : i \in 1..n}
           New(i) == Event(q.turn + c.service[st], q.seq + i, w[i], st)
<1>1. /\ n \in Nat /\ Len(w) \in Nat /\ n <= Len(w) /\ DOMAIN w = 1..Len(w)
      /\ DOMAIN r.queue[st] = 1..(Len(w) - n) /\ \A i \in 1..(Len(w) - n) : r.queue[st][i] = w[n + i]
      /\ \A t \in Stations(c) : t # st => r.queue[t] = q.queue[t]
      /\ r.calendar = q.calendar \cup {New(i) : i \in 1..n} /\ r.completed = q.completed
  BY RunTypes DEF Calling
<1>2. \A i \in 1..n : New(i).patient = w[i]
  BY DEF Event
<1>3. \A s, t \in Stations(c) : \A i \in DOMAIN q.queue[s], j \in DOMAIN q.queue[t] :
        q.queue[s][i] = q.queue[t][j] => s = t /\ i = j
  BY DEF Booked
<1>4. Expecting(r) = Expecting(q) \cup C
  <2> HIDE DEF w, New
  <2>1. \A p : p \in Expecting(r) <=> p \in Expecting(q) \/ p \in C
    BY <1>1, <1>2 DEF Expecting
  <2> HIDE DEF C
  <2> QED
    BY <2>1
<1>5. C \subseteq Queued(c, q)
  <2>1. ASSUME NEW i \in 1..n PROVE w[i] \in Queued(c, q)
    <3>1. i \in DOMAIN w
      BY <1>1
    <3> QED
      BY <3>1, InQueue
  <2> QED
    BY <2>1
<1>6. ASSUME NEW p \in Queued(c, r) PROVE p \in Queued(c, q) /\ p \notin C
  <2>0. PICK t \in Stations(c) : \E i \in DOMAIN r.queue[t] : p = r.queue[t][i]
    BY InQueue
  <2>1. PICK i \in DOMAIN r.queue[t] : p = r.queue[t][i]
    BY <2>0
  <2>2. CASE t # st
    <3>1. i \in DOMAIN q.queue[t] /\ p = q.queue[t][i]
      BY <1>1, <2>1, <2>2
    <3>2. ASSUME NEW j \in 1..n, p = w[j] PROVE FALSE
      <4>1. j \in DOMAIN w
        BY <1>1
      <4> QED
        BY <1>3, <2>2, <3>1, <3>2, <4>1
    <3> QED
      BY <3>1, <3>2, InQueue
  <2>3. CASE t = st
    <3>0. i \in 1..(Len(w) - n) /\ p = w[n + i]
      BY <1>1, <2>1, <2>3
    <3>1. n + i \in DOMAIN w /\ p = w[n + i] /\ \A j \in 1..n : j \in DOMAIN w /\ n + i # j
      <4> HIDE DEF w
      <4> QED
        BY <1>1, <3>0
    <3>2. \A j \in 1..n : w[n + i] # w[j]
      BY <1>3, <3>1
    <3>3. p \in Queued(c, q)
      BY <3>1, InQueue
    <3> QED
      BY <3>1, <3>2, <3>3
  <2> QED
    BY <2>2, <2>3
<1>7. ASSUME NEW p \in Queued(c, q), p \notin C PROVE p \in Queued(c, r)
  <2>0. PICK t \in Stations(c) : \E i \in DOMAIN q.queue[t] : p = q.queue[t][i]
    BY InQueue
  <2>1. PICK i \in DOMAIN q.queue[t] : p = q.queue[t][i]
    BY <2>0
  <2>2. CASE t # st
    <3>1. i \in DOMAIN r.queue[t] /\ p = r.queue[t][i]
      BY <1>1, <2>1, <2>2
    <3> QED
      BY <3>1, InQueue
  <2>3. CASE t = st
    <3>1. i \in 1..Len(w) /\ i \notin 1..n /\ p = w[i]
      BY <1>1, <1>7, <2>1, <2>3
    <3>2. i - n \in 1..(Len(w) - n) /\ n + (i - n) = i
      BY <1>1, <3>1
    <3>3. i - n \in DOMAIN r.queue[st] /\ p = r.queue[st][i - n]
      BY <1>1, <3>1, <3>2
    <3> QED
      BY <3>3, InQueue
  <2> QED
    BY <2>2, <2>3
<1>8. Queued(c, r) = Queued(c, q) \ C
  <2> HIDE DEF C
  <2> QED
    BY <1>6, <1>7
<1>9. Discharged(r) = Discharged(q)
  BY <1>1 DEF Discharged
<1> QED
  BY <1>4, <1>5, <1>8, <1>9

\* Calling keeps everybody in one place.
LEMMA CallingBooked ==
  ASSUME NEW c, Net(c), NEW q \in Runs(c), Booked(c, q), NEW st \in Stations(c),
         NEW n, NEW r, Calling(c, q, st, n, r)
  PROVE  Booked(c, r)
<1> DEFINE w == q.queue[st]
           C == {w[i] : i \in 1..n}
           New(i) == Event(q.turn + c.service[st], q.seq + i, w[i], st)
<1>1. /\ n \in Nat /\ Len(w) \in Nat /\ n <= Len(w) /\ DOMAIN w = 1..Len(w)
      /\ DOMAIN r.queue[st] = 1..(Len(w) - n) /\ \A i \in 1..(Len(w) - n) : r.queue[st][i] = w[n + i]
      /\ \A t \in Stations(c) : t # st => r.queue[t] = q.queue[t] /\ r.serving[t] = q.serving[t]
      /\ r.calendar = q.calendar \cup {New(i) : i \in 1..n} /\ r.completed = q.completed
      /\ r.serving[st] = q.serving[st] \cup C
  BY RunTypes DEF Calling
<1>2. /\ Expecting(r) = Expecting(q) \cup C /\ Queued(c, r) = Queued(c, q) \ C /\ C \subseteq Queued(c, q)
      /\ Discharged(r) = Discharged(q)
  BY CallingMoves
<1>3. \A i \in 1..n : New(i).patient = w[i] /\ New(i).station = st
  BY DEF Event
<1>4. \A s, t \in Stations(c) : \A i \in DOMAIN q.queue[s], j \in DOMAIN q.queue[t] :
        q.queue[s][i] = q.queue[t][j] => s = t /\ i = j
  BY DEF Booked
<1>5. /\ Patients(c) = Expecting(r) \cup Queued(c, r) \cup Discharged(r)
      /\ Expecting(r) \cap Queued(c, r) = {} /\ Expecting(r) \cap Discharged(r) = {}
      /\ Queued(c, r) \cap Discharged(r) = {}
  <2> HIDE DEF C
  <2> QED
    BY <1>2 DEF Booked
<1>6. ASSUME NEW e \in r.calendar, NEW f \in r.calendar, e.patient = f.patient PROVE e = f
  <2>1. \A i \in 1..n, j \in 1..n : w[i] = w[j] => i = j
    <3>1. \A i \in 1..n : i \in DOMAIN w
      BY <1>1
    <3> QED
      BY <1>4, <3>1
  <2>2. \A d \in q.calendar : \A i \in 1..n : d.patient # w[i]
    BY <1>2 DEF Booked, Expecting
  <2>3. \A d, g \in q.calendar : d.patient = g.patient => d = g
    BY DEF Booked
  <2> HIDE DEF w, C, New
  <2> QED
    BY <1>1, <1>3, <1>6, <2>1, <2>2, <2>3
<1>7. ASSUME NEW s \in Stations(c), NEW t \in Stations(c), NEW i \in DOMAIN r.queue[s], NEW j \in DOMAIN r.queue[t],
             r.queue[s][i] = r.queue[t][j]
      PROVE  s = t /\ i = j
  <2> DEFINE I(u, k) == IF u = st THEN n + k ELSE k
  <2>1. ASSUME NEW u \in Stations(c), NEW k \in DOMAIN r.queue[u]
        PROVE  I(u, k) \in DOMAIN q.queue[u] /\ r.queue[u][k] = q.queue[u][I(u, k)]
    <3>1. CASE u = st
      <4>1. k \in 1..(Len(w) - n) /\ n + k \in 1..Len(w)
        BY <1>1, <2>1, <3>1
      <4> QED
        BY <1>1, <3>1, <4>1
    <3>2. CASE u # st
      BY <1>1, <2>1, <3>2
    <3> QED
      BY <3>1, <3>2
  <2>2. s = t /\ I(s, i) = I(t, j)
    <3> HIDE DEF I, w
    <3> QED
      BY <1>4, <1>7, <2>1
  <2>3. CASE s = st
    BY <1>1, <2>2, <2>3
  <2> QED
    BY <2>2, <2>3
<1>8. ASSUME NEW t \in Stations(c) PROVE r.serving[t] = {e.patient : e \in {f \in r.calendar : f.station = t}}
  <2>1. q.serving[t] = {e.patient : e \in {f \in q.calendar : f.station = t}}
    BY DEF Booked
  <2> HIDE DEF w, New
  <2>2. CASE t = st
    <3>1. \A p \in C : \E e \in r.calendar : e.station = t /\ e.patient = p
      BY <1>1, <1>3, <2>2
    <3>2. \A i \in 1..n : New(i).patient \in C
      BY <1>3
    <3> HIDE DEF C
    <3>3. \A p \in r.serving[t] : \E e \in r.calendar : e.station = t /\ e.patient = p
      BY <1>1, <2>1, <2>2, <3>1
    <3>4. \A e \in r.calendar : e.station = t => e.patient \in r.serving[t]
      BY <1>1, <2>1, <2>2, <3>2
    <3> QED
      BY <3>3, <3>4
  <2>3. CASE t # st
    <3> HIDE DEF C
    <3> QED
      BY <1>1, <1>3, <2>1, <2>3
  <2> QED
    BY <2>2, <2>3
<1>9. \A i, j \in DOMAIN r.completed : r.completed[i] = r.completed[j] => i = j
  BY <1>1 DEF Booked
<1> QED
  BY <1>5, <1>6, <1>7, <1>8, <1>9 DEF Booked

\* The places of a queue after the first n have left it.
LEMMA CallingQueues ==
  ASSUME NEW c, Net(c), NEW q \in Runs(c), NEW st \in Stations(c), NEW n, NEW r, Calling(c, q, st, n, r),
         NEW t \in Stations(c)
  PROVE  \E d \in Nat : \A i \in DOMAIN r.queue[t] :
           d + i \in DOMAIN q.queue[t] /\ r.queue[t][i] = q.queue[t][d + i] /\ (t = st => d = n)
<1>1. /\ n \in Nat /\ Len(q.queue[t]) \in Nat /\ DOMAIN q.queue[t] = 1..Len(q.queue[t])
      /\ r.queue[t] \in Seq(Patients(c)) /\ DOMAIN r.queue[t] = 1..Len(r.queue[t]) /\ Len(r.queue[t]) \in Nat
  BY RunTypes DEF Calling
<1>2. CASE t = st
  <2>1. n <= Len(q.queue[t]) /\ DOMAIN r.queue[t] = 1..(Len(q.queue[t]) - n)
        /\ \A i \in 1..(Len(q.queue[t]) - n) : r.queue[t][i] = q.queue[t][n + i]
    BY <1>2 DEF Calling
  <2> DEFINE K == Len(q.queue[t])
  <2>2. ASSUME NEW i \in DOMAIN r.queue[t] PROVE n + i \in DOMAIN q.queue[t] /\ r.queue[t][i] = q.queue[t][n + i]
    <3>1. i \in 1..(K - n)
      BY <2>1
    <3>2. n \in Nat /\ K \in Nat /\ n <= K
      BY <1>1, <2>1
    <3> HIDE DEF K
    <3>3. n + i \in 1..K
      BY <3>1, <3>2
    <3> QED
      BY <1>1, <2>1, <3>1, <3>3 DEF K
  <2> QED
    BY <1>1, <2>2
<1>3. CASE t # st
  <2>1. r.queue[t] = q.queue[t]
    BY <1>3 DEF Calling
  <2>2. \A i \in DOMAIN r.queue[t] : 0 + i = i
    BY <1>1
  <2>3. \A i \in DOMAIN r.queue[t] :
          0 + i \in DOMAIN q.queue[t] /\ r.queue[t][i] = q.queue[t][0 + i] /\ (t = st => 0 = n)
    BY <1>3, <2>1, <2>2
  <2> QED
    BY <2>3
<1> QED
  BY <1>2, <1>3

\* Calling keeps the order of the queues and the totals of the stations.
LEMMA CallingBalanced ==
  ASSUME NEW c, Net(c), NEW q \in Runs(c), Balanced(c, q), NEW st \in Stations(c),
         NEW n, NEW r, Calling(c, q, st, n, r)
  PROVE  Balanced(c, r)
<1>1. ASSUME NEW t \in Stations(c)
      PROVE  /\ \A i, j \in DOMAIN r.queue[t] : i < j => r.since[r.queue[t][i]] <= r.since[r.queue[t][j]]
             /\ \A i \in DOMAIN r.queue[t] : r.since[r.queue[t][i]] <= r.turn
  <2>1. PICK d \in Nat : \A i \in DOMAIN r.queue[t] : d + i \in DOMAIN q.queue[t] /\ r.queue[t][i] = q.queue[t][d + i]
    BY CallingQueues
  <2>2. r.since = q.since /\ r.turn = q.turn
    BY DEF Calling
  <2>3. DOMAIN r.queue[t] = 1..Len(r.queue[t]) /\ Len(r.queue[t]) \in Nat
    BY RunTypes DEF Calling
  <2>4. \A i, j \in DOMAIN r.queue[t] : i < j => d + i < d + j
    BY <2>3
  <2> QED
    BY <2>1, <2>2, <2>4 DEF Balanced
<1>2. ASSUME NEW t \in Stations(c)
      PROVE  /\ r.busy[t] = r.started[t] * c.service[t]
             /\ r.started[t] = r.finished[t] + Cardinality(r.serving[t])
  <2>1. q.busy[t] = q.started[t] * c.service[t] /\ q.started[t] = q.finished[t] + Cardinality(q.serving[t])
    BY DEF Balanced
  <2>2. CASE t # st
    BY <2>1, <2>2 DEF Calling
  <2>3. CASE t = st
    <3>1. /\ r.busy[t] = q.busy[t] + n * c.service[t] /\ r.started[t] = q.started[t] + n /\ r.finished = q.finished
          /\ Cardinality(r.serving[t]) = Cardinality(q.serving[t]) + n /\ n \in Nat
      BY <2>3 DEF Calling
    <3>2. q.started \in [Stations(c) -> Nat] /\ q.finished \in [Stations(c) -> Nat]
      BY RunTypes DEF Counters
    <3>3. q.started[t] \in Nat /\ q.finished[t] \in Nat /\ Cardinality(q.serving[t]) \in Nat /\ c.service[t] \in Nat
      BY <3>2, RunTypes
    <3>4. (q.started[t] + n) * c.service[t] = q.started[t] * c.service[t] + n * c.service[t]
      BY <3>1, <3>3
    <3> QED
      BY <2>1, <3>1, <3>3, <3>4
  <2> QED
    BY <2>2, <2>3
<1> QED
  BY <1>1, <1>2 DEF Balanced

\* Calling keeps everybody on the route, in time.
LEMMA CallingTimed ==
  ASSUME NEW c, Net(c), NEW q \in Runs(c), Booked(c, q), Timed(c, q), NEW st \in Stations(c),
         NEW n, NEW r, Calling(c, q, st, n, r)
  PROVE  Timed(c, r)
<1> DEFINE w == q.queue[st]
           C == {w[i] : i \in 1..n}
           New(i) == Event(q.turn + c.service[st], q.seq + i, w[i], st)
<1>1. /\ n \in Nat /\ Len(w) \in Nat /\ n <= Len(w) /\ DOMAIN w = 1..Len(w)
      /\ r.calendar = q.calendar \cup {New(i) : i \in 1..n} /\ r.completed = q.completed
      /\ r.since = q.since /\ r.gone = q.gone
      /\ \A p \in Patients(c) : (\A i \in 1..n : p # w[i]) => r.waited[p] = q.waited[p]
      /\ \A i \in 1..n : r.waited[w[i]] = q.waited[w[i]] + (q.turn - q.since[w[i]])
  BY RunTypes DEF Calling
<1>2. /\ Queued(c, r) = Queued(c, q) \ C /\ C \subseteq Queued(c, q)
      /\ Discharged(r) = Discharged(q)
  BY CallingMoves
<1>3. \A i \in 1..n : New(i).patient = w[i] /\ New(i).station = st /\ New(i).at = q.turn + c.service[st]
  BY DEF Event
<1>4. \A p \in Patients(c) : p \notin C => r.waited[p] = q.waited[p]
  BY <1>1
<1>5. ASSUME NEW e \in r.calendar
      PROVE  \/ e.station = NoStation /\ e.at = c.arrival[e.patient] /\ r.waited[e.patient] = 0
             \/ \E k \in Route(c) : /\ Along(c)[k] = e.station
                                    /\ e.at - c.arrival[e.patient] = r.waited[e.patient] + Served(c)[k + 1]
  <2>1. CASE e \in q.calendar
    <3>1. e.patient \in Patients(c) /\ e.patient \notin C
      <4>1. e.patient \in Expecting(q) /\ Expecting(q) \cap Queued(c, q) = {} /\ Expecting(q) \subseteq Patients(c)
        BY <2>1 DEF Booked, Expecting
      <4> HIDE DEF C
      <4> QED
        BY <1>2, <4>1
    <3>2. r.waited[e.patient] = q.waited[e.patient]
      BY <1>4, <3>1
    <3> QED
      BY <2>1, <3>2 DEF Timed
  <2>2. CASE e \notin q.calendar
    <3>1. PICK i \in 1..n : e = New(i)
      BY <1>1, <2>2
    <3> DEFINE p == w[i]
    <3>2. i \in DOMAIN w /\ p \in Patients(c)
      <4>1. i \in DOMAIN w
        BY <1>1
      <4> QED
        BY <4>1, RunTypes
    <3>3. PICK k \in Route(c) : Along(c)[k] = st /\ q.since[p] - c.arrival[p] = q.waited[p] + Served(c)[k]
      BY <3>2 DEF Timed
    <3>4. Served(c)[k] \in Nat /\ Served(c)[k + 1] = Served(c)[k] + c.service[st]
      BY <3>3, OnRoute
    <3>5. /\ q.turn \in Nat /\ c.service[st] \in Nat /\ c.arrival[p] \in Nat /\ q.since[p] \in Nat /\ q.waited[p] \in Int
      BY <3>2, RunTypes
    <3>6. /\ e.at = q.turn + c.service[st] /\ e.patient = p /\ e.station = st
          /\ r.waited[p] = q.waited[p] + (q.turn - q.since[p])
      BY <1>1, <1>3, <3>1
    <3> HIDE DEF p
    <3>7. e.at - c.arrival[p] = r.waited[p] + Served(c)[k + 1]
      BY <3>3, <3>4, <3>5, <3>6
    <3> QED
      BY <3>3, <3>6, <3>7
  <2> QED
    BY <2>1, <2>2
<1>6. ASSUME NEW t \in Stations(c), NEW i \in DOMAIN r.queue[t]
      PROVE  \E k \in Route(c) : /\ Along(c)[k] = t
                                 /\ r.since[r.queue[t][i]] - c.arrival[r.queue[t][i]]
                                      = r.waited[r.queue[t][i]] + Served(c)[k]
  <2>1. PICK d \in Nat : \A j \in DOMAIN r.queue[t] : d + j \in DOMAIN q.queue[t] /\ r.queue[t][j] = q.queue[t][d + j]
    BY CallingQueues
  <2> DEFINE p == r.queue[t][i]
  <2>2. d + i \in DOMAIN q.queue[t] /\ p = q.queue[t][d + i]
    BY <2>1
  <2>3. PICK k \in Route(c) : Along(c)[k] = t /\ q.since[p] - c.arrival[p] = q.waited[p] + Served(c)[k]
    BY <2>2 DEF Timed
  <2>4. p \in Patients(c) /\ p \notin C
    <3>1. p \in Queued(c, r)
      BY InQueue
    <3> QED
      BY <1>2, <2>2, <3>1, RunTypes
  <2> QED
    BY <1>1, <1>4, <2>3, <2>4
<1>7. ASSUME NEW p \in Discharged(r)
      PROVE  r.gone[p] - c.arrival[p] = r.waited[p] + Served(c)[Cardinality(Stations(c)) + 1]
  <2>1. p \in Patients(c) /\ p \notin C /\ p \in Discharged(q)
    BY <1>2 DEF Booked
  <2> QED
    BY <1>1, <1>4, <2>1 DEF Timed
<1> QED
  BY <1>5, <1>6, <1>7 DEF Timed

\* The books stay in order when a station calls, which then leaves no place free.
LEMMA TryStartKeeps ==
  ASSUME NEW c, Net(c), NEW q, NEW X, RunOK(c, q, X), NEW st \in Stations(c) \cup {NoStation}
  PROVE  RunOK(c, TryStart(c, q, st), X \ {st}) /\ TryStart(c, q, st).metrics = q.metrics
<1>1. CASE st = NoStation
  <2>1. TryStart(c, q, st) = q
    BY <1>1 DEF TryStart
  <2>2. \A t \in Stations(c) : t \notin X \ {st} => t \notin X
    BY <1>1 DEF Net, Specified
  <2>3. Manned(c, q, X \ {st})
    BY <2>2 DEF RunOK, Manned
  <2> QED
    BY <2>1, <2>3 DEF RunOK
<1>2. CASE st \in Stations(c)
  <2>1. q \in Runs(c) /\ Booked(c, q) /\ Cardinality(q.serving[st]) <= c.capacity[st]
    BY <1>2 DEF RunOK, Manned
  <2> DEFINE n == Called(c, q, st)
             r == TryStart(c, q, st)
  <2>2. Calling(c, q, st, n, r)
    BY <1>2, <2>1, StartCalls
  <2> HIDE DEF n, r
  <2>3. r \in Runs(c) /\ r.metrics = q.metrics
    BY <2>2 DEF Calling
  <2>4. Dated(r) /\ Booked(c, r)
    BY <1>2, <2>1, <2>2, CallingDated, CallingBooked DEF RunOK
  <2>5. Manned(c, r, X \ {st}) /\ Balanced(c, r) /\ Timed(c, r)
    BY <1>2, <2>1, <2>2, CallingManned, CallingBalanced, CallingTimed DEF RunOK
  <2> QED
    BY <2>3, <2>4, <2>5 DEF RunOK, r
<1> QED
  BY <1>1, <1>2

-------------------------------------------------------------------------------
(* An event: the patient leaves the calendar and a station, and joins the next  *)
(* queue or is discharged, before the stations call.                            *)
To(c, e) == IF e.station = NoStation THEN c.entry ELSE c.next[e.station]
Moved(c, q, e, m) ==
  /\ m \in Runs(c) /\ m.turn = e.at /\ m.seq = q.seq /\ m.calendar = q.calendar \ {e}
  /\ m.started = q.started /\ m.busy = q.busy /\ m.waited = q.waited /\ m.metrics = q.metrics
  /\ \A t \in Stations(c) :
       /\ m.serving[t] = (IF t = e.station THEN q.serving[t] \ {e.patient} ELSE q.serving[t])
       /\ m.finished[t] = (IF t = e.station THEN q.finished[t] + 1 ELSE q.finished[t])
       /\ m.queue[t] = (IF t = To(c, e) THEN Append(q.queue[t], e.patient) ELSE q.queue[t])
  /\ \A p \in Patients(c) :
       /\ m.since[p] = (IF To(c, e) # NoStation /\ p = e.patient THEN e.at ELSE q.since[p])
       /\ m.gone[p] = (IF To(c, e) = NoStation /\ p = e.patient THEN e.at ELSE q.gone[p])
  /\ m.completed = (IF To(c, e) = NoStation THEN Append(q.completed, e.patient) ELSE q.completed)

\* A patient goes to a station or, from the last one of the route, leaves.
LEMMA Goes ==
  ASSUME NEW c, Net(c), NEW q \in Runs(c), NEW e \in q.calendar
  PROVE  /\ To(c, e) \in Stations(c) \cup {NoStation}
         /\ e.station = NoStation => To(c, e) \in Stations(c)
         /\ NoStation \notin Stations(c)
<1>1. e.station \in Stations(c) \cup {NoStation}
  BY RunTypes
<1> QED
  BY <1>1 DEF To, Net, ValidNet, Specified

\* The run that has popped an event.
Popped(q, e) == [q EXCEPT !.turn = e.at, !.calendar = @ \ {e}]

\* Joining a queue changes it and the date of the patient's arrival there.
Enqueued(c, q, p, st, m) ==
  /\ m \in Runs(c) /\ m.turn = q.turn /\ m.seq = q.seq /\ m.calendar = q.calendar
  /\ m.started = q.started /\ m.busy = q.busy /\ m.waited = q.waited /\ m.metrics = q.metrics
  /\ m.serving = q.serving /\ m.finished = q.finished /\ m.gone = q.gone /\ m.completed = q.completed
  /\ \A t \in Stations(c) : m.queue[t] = (IF t = st THEN Append(q.queue[t], p) ELSE q.queue[t])
  /\ \A x \in Patients(c) : m.since[x] = (IF x = p THEN q.turn ELSE q.since[x])

\* This is what joining a queue does.
LEMMA EnqueueFields ==
  ASSUME NEW c, NEW q \in Runs(c), NEW p \in Patients(c), NEW st \in Stations(c), NEW m, m = Enqueue(q, p, st)
  PROVE  Enqueued(c, q, p, st, m)
<1> DEFINE queue == [q.queue EXCEPT ![st] = Append(@, p)]
           since == [q.since EXCEPT ![p] = q.turn]
<1>1. m = [q EXCEPT !.queue = queue, !.since = since]
  BY DEF Enqueue
<1>2. q.queue \in [Stations(c) -> Seq(Patients(c))] /\ q.since \in [Patients(c) -> Nat] /\ q.turn \in Nat
  BY DEF Runs
<1>3. queue \in [Stations(c) -> Seq(Patients(c))] /\ since \in [Patients(c) -> Nat]
  BY <1>2
<1>4. /\ \A t \in Stations(c) : queue[t] = (IF t = st THEN Append(q.queue[t], p) ELSE q.queue[t])
      /\ \A x \in Patients(c) : since[x] = (IF x = p THEN q.turn ELSE q.since[x])
  BY <1>2
<1> HIDE DEF queue, since
<1>5. m \in Runs(c) /\ m.queue = queue /\ m.since = since
  BY <1>1, <1>3 DEF Runs
<1>6. /\ m.turn = q.turn /\ m.seq = q.seq /\ m.calendar = q.calendar
      /\ m.started = q.started /\ m.busy = q.busy /\ m.waited = q.waited /\ m.metrics = q.metrics
      /\ m.serving = q.serving /\ m.finished = q.finished /\ m.gone = q.gone /\ m.completed = q.completed
  BY <1>1 DEF Runs
<1> QED
  BY <1>4, <1>5, <1>6 DEF Enqueued

\* Popping an event sets the clock.
LEMMA PoppedFields ==
  ASSUME NEW c, NEW q \in Runs(c), NEW e \in q.calendar, NEW m, m = Popped(q, e)
  PROVE  /\ m \in Runs(c) /\ m.turn = e.at /\ m.seq = q.seq /\ m.calendar = q.calendar \ {e}
         /\ m.started = q.started /\ m.busy = q.busy /\ m.waited = q.waited /\ m.metrics = q.metrics
         /\ m.serving = q.serving /\ m.finished = q.finished /\ m.gone = q.gone /\ m.completed = q.completed
         /\ m.queue = q.queue /\ m.since = q.since
<1>1. e.at \in Nat /\ q.calendar \ {e} \subseteq Events(c)
  BY DEF Runs, Events
<1> QED
  BY <1>1 DEF Runs, Popped

\* A service that ends frees its place and is counted.
Freed(q, p, st) == [q EXCEPT !.serving[st] = @ \ {p}, !.finished[st] = @ + 1]
Vacated(c, q, p, st, m) ==
  /\ m \in Runs(c) /\ m.turn = q.turn /\ m.seq = q.seq /\ m.calendar = q.calendar
  /\ m.started = q.started /\ m.busy = q.busy /\ m.waited = q.waited /\ m.metrics = q.metrics
  /\ m.queue = q.queue /\ m.since = q.since /\ m.gone = q.gone /\ m.completed = q.completed
  /\ \A t \in Stations(c) : /\ m.serving[t] = (IF t = st THEN q.serving[t] \ {p} ELSE q.serving[t])
                            /\ m.finished[t] = (IF t = st THEN q.finished[t] + 1 ELSE q.finished[t])

\* This is what the end of a service does.
LEMMA FreedFields ==
  ASSUME NEW c, NEW q \in Runs(c), NEW p \in Patients(c), NEW st \in Stations(c), NEW m, m = Freed(q, p, st)
  PROVE  Vacated(c, q, p, st, m)
<1> DEFINE serving == [q.serving EXCEPT ![st] = @ \ {p}]
           finished == [q.finished EXCEPT ![st] = @ + 1]
<1>1. m = [q EXCEPT !.serving = serving, !.finished = finished]
  BY DEF Freed
<1>2. q.serving \in [Stations(c) -> SUBSET Patients(c)] /\ q.finished \in [Stations(c) -> Nat]
  BY DEF Runs, Counters
<1>3. serving \in [Stations(c) -> SUBSET Patients(c)] /\ finished \in Counters(c)
  BY <1>2 DEF Counters
<1>4. \A t \in Stations(c) : /\ serving[t] = (IF t = st THEN q.serving[t] \ {p} ELSE q.serving[t])
                             /\ finished[t] = (IF t = st THEN q.finished[t] + 1 ELSE q.finished[t])
  BY <1>2
<1> HIDE DEF serving, finished
<1>5. m \in Runs(c) /\ m.serving = serving /\ m.finished = finished
  BY <1>1, <1>3 DEF Runs
<1>6. /\ m.turn = q.turn /\ m.seq = q.seq /\ m.calendar = q.calendar
      /\ m.started = q.started /\ m.busy = q.busy /\ m.waited = q.waited /\ m.metrics = q.metrics
      /\ m.queue = q.queue /\ m.since = q.since /\ m.gone = q.gone /\ m.completed = q.completed
  BY <1>1 DEF Runs
<1> QED
  BY <1>4, <1>5, <1>6 DEF Vacated

\* A patient who leaves is discharged at the turn of the clock.
Released(q, p, turn) == [q EXCEPT !.gone[p] = turn, !.completed = Append(@, p)]
Departed(c, q, p, turn, m) ==
  /\ m \in Runs(c) /\ m.turn = q.turn /\ m.seq = q.seq /\ m.calendar = q.calendar
  /\ m.started = q.started /\ m.busy = q.busy /\ m.waited = q.waited /\ m.metrics = q.metrics
  /\ m.queue = q.queue /\ m.since = q.since /\ m.serving = q.serving /\ m.finished = q.finished
  /\ m.completed = Append(q.completed, p)
  /\ \A x \in Patients(c) : m.gone[x] = (IF x = p THEN turn ELSE q.gone[x])

\* This is what a discharge does.
LEMMA DischargeFields ==
  ASSUME NEW c, NEW q \in Runs(c), NEW p \in Patients(c), NEW turn \in Nat, NEW m, m = Released(q, p, turn)
  PROVE  Departed(c, q, p, turn, m)
<1> DEFINE gone == [q.gone EXCEPT ![p] = turn]
<1>1. m = [q EXCEPT !.gone = gone, !.completed = Append(@, p)]
  BY DEF Released
<1>2. q.gone \in [Patients(c) -> Nat] /\ q.completed \in Seq(Patients(c))
  BY DEF Runs
<1>3. gone \in [Patients(c) -> Nat] /\ Append(q.completed, p) \in Seq(Patients(c))
  BY <1>2
<1>4. \A x \in Patients(c) : gone[x] = (IF x = p THEN turn ELSE q.gone[x])
  BY <1>2
<1> HIDE DEF gone
<1>5. m \in Runs(c) /\ m.gone = gone /\ m.completed = Append(q.completed, p)
  BY <1>1, <1>3 DEF Runs
<1>6. /\ m.turn = q.turn /\ m.seq = q.seq /\ m.calendar = q.calendar
      /\ m.started = q.started /\ m.busy = q.busy /\ m.waited = q.waited /\ m.metrics = q.metrics
      /\ m.queue = q.queue /\ m.since = q.since /\ m.serving = q.serving /\ m.finished = q.finished
  BY <1>1 DEF Runs
<1> QED
  BY <1>4, <1>5, <1>6 DEF Departed

\* An event is processed by moving its patient, and then both stations call.
LEMMA NextMoves ==
  ASSUME NEW c, Net(c), NEW q \in Runs(c), NEW e \in q.calendar, e = NextEvent(q)
  PROVE  \E m : Moved(c, q, e, m) /\ RunNext(c, q) = TryStart(c, TryStart(c, m, e.station), To(c, e))
<1> DEFINE p == e.patient
           st == e.station
           to == To(c, e)
           at == Popped(q, e)
<1>1. p \in Patients(c) /\ st \in Stations(c) \cup {NoStation} /\ NoStation \notin Stations(c)
      /\ to \in Stations(c) \cup {NoStation} /\ (st = NoStation => to \in Stations(c)) /\ e.at \in Nat
  <2>1. to \in Stations(c) \cup {NoStation} /\ (st = NoStation => to \in Stations(c)) /\ NoStation \notin Stations(c)
    BY Goes
  <2>2. p \in Patients(c) /\ st \in Stations(c) \cup {NoStation} /\ e.at \in Nat
    BY RunTypes
  <2> QED
    BY <2>1, <2>2
<1>2. RunNext(c, q) = IF st = NoStation THEN Arrival(c, at, p) ELSE Complete(c, at, p, st)
  BY DEF RunNext, Popped
<1>3. /\ at \in Runs(c) /\ at.turn = e.at /\ at.seq = q.seq /\ at.calendar = q.calendar \ {e}
      /\ at.started = q.started /\ at.busy = q.busy /\ at.waited = q.waited /\ at.metrics = q.metrics
      /\ at.serving = q.serving /\ at.finished = q.finished /\ at.gone = q.gone /\ at.completed = q.completed
      /\ at.queue = q.queue /\ at.since = q.since
  BY PoppedFields
<1>4. to = IF st = NoStation THEN c.entry ELSE c.next[st]
  BY DEF To
<1> HIDE DEF at, to
<1>5. CASE st = NoStation
  <2> DEFINE m == Enqueue(at, p, to)
  <2>1. RunNext(c, q) = TryStart(c, TryStart(c, m, st), to)
    BY <1>2, <1>4, <1>5 DEF Arrival, TryStart
  <2>2. to \in Stations(c)
    BY <1>1, <1>5
  <2>3. Enqueued(c, at, p, to, m)
    BY <1>1, <1>3, <2>2, EnqueueFields
  <2> HIDE DEF m
  <2>4. Moved(c, q, e, m)
    BY <1>1, <1>3, <1>5, <2>2, <2>3 DEF Moved, Enqueued, to
  <2> QED
    BY <2>1, <2>4 DEF to
<1>6. CASE st # NoStation
  <2> DEFINE f == Freed(at, p, st)
  <2>1. st \in Stations(c)
    BY <1>1, <1>6
  <2>2. Vacated(c, at, p, st, f) /\ f \in Runs(c) /\ f.turn = at.turn
    <3>1. Vacated(c, at, p, st, f)
      BY <1>1, <1>3, <2>1, FreedFields
    <3> QED
      BY <3>1 DEF Vacated
  <2>3. CASE to = NoStation
    <3> DEFINE m == Released(f, p, at.turn)
    <3>1. RunNext(c, q) = TryStart(c, TryStart(c, m, st), to)
      BY <1>2, <1>4, <1>6, <2>3 DEF Complete, Freed, Released
    <3> HIDE DEF f
    <3>2. Departed(c, f, p, at.turn, m)
      <4>1. at.turn \in Nat
        BY <1>1, <1>3
      <4> QED
        BY <1>1, <2>2, <4>1, DischargeFields
    <3> HIDE DEF m
    <3>3. Moved(c, q, e, m)
      <4>1. /\ m \in Runs(c) /\ m.turn = e.at /\ m.seq = q.seq /\ m.calendar = q.calendar \ {e}
            /\ m.started = q.started /\ m.busy = q.busy /\ m.waited = q.waited /\ m.metrics = q.metrics
        BY <1>1, <1>3, <2>2, <2>3, <3>2 DEF Vacated, Departed
      <4>2. ASSUME NEW t \in Stations(c)
            PROVE  /\ m.serving[t] = (IF t = st THEN q.serving[t] \ {p} ELSE q.serving[t])
                   /\ m.finished[t] = (IF t = st THEN q.finished[t] + 1 ELSE q.finished[t])
                   /\ m.queue[t] = (IF t = to THEN Append(q.queue[t], p) ELSE q.queue[t])
        <5>1. t # to
          BY <1>1, <2>3
        <5>2. m.serving[t] = f.serving[t] /\ m.finished[t] = f.finished[t] /\ m.queue[t] = f.queue[t]
          BY <3>2 DEF Departed
        <5>3. /\ f.serving[t] = (IF t = st THEN at.serving[t] \ {p} ELSE at.serving[t])
              /\ f.finished[t] = (IF t = st THEN at.finished[t] + 1 ELSE at.finished[t])
              /\ f.queue[t] = at.queue[t]
          BY <2>2 DEF Vacated
        <5> QED
          BY <1>3, <5>1, <5>2, <5>3
      <4>3. ASSUME NEW x \in Patients(c)
            PROVE  /\ m.since[x] = (IF to # NoStation /\ x = p THEN e.at ELSE q.since[x])
                   /\ m.gone[x] = (IF to = NoStation /\ x = p THEN e.at ELSE q.gone[x])
        BY <1>1, <1>3, <2>2, <2>3, <3>2 DEF Vacated, Departed
      <4>4. m.completed = (IF to = NoStation THEN Append(q.completed, p) ELSE q.completed)
        BY <1>1, <1>3, <2>2, <2>3, <3>2 DEF Vacated, Departed
      <4> QED
        BY <4>1, <4>2, <4>3, <4>4 DEF Moved, to
    <3> QED
      BY <3>1, <3>3 DEF to
  <2>4. CASE to # NoStation
    <3> DEFINE m == Enqueue(f, p, to)
    <3>1. RunNext(c, q) = TryStart(c, TryStart(c, m, st), to)
      BY <1>2, <1>4, <1>6, <2>4 DEF Complete, Freed
    <3> HIDE DEF f
    <3>2. to \in Stations(c)
      BY <1>1, <2>4
    <3>3. Enqueued(c, f, p, to, m)
      BY <1>1, <2>2, <3>2, EnqueueFields
    <3> HIDE DEF m
    <3>4. Moved(c, q, e, m)
      <4>1. /\ m \in Runs(c) /\ m.turn = e.at /\ m.seq = q.seq /\ m.calendar = q.calendar \ {e}
            /\ m.started = q.started /\ m.busy = q.busy /\ m.waited = q.waited /\ m.metrics = q.metrics
        BY <1>1, <1>3, <2>2, <2>4, <3>2, <3>3 DEF Vacated, Enqueued
      <4>2. ASSUME NEW t \in Stations(c)
            PROVE  /\ m.serving[t] = (IF t = st THEN q.serving[t] \ {p} ELSE q.serving[t])
                   /\ m.finished[t] = (IF t = st THEN q.finished[t] + 1 ELSE q.finished[t])
                   /\ m.queue[t] = (IF t = to THEN Append(q.queue[t], p) ELSE q.queue[t])
        BY <1>1, <1>3, <2>2, <2>4, <3>2, <3>3 DEF Vacated, Enqueued
      <4>3. ASSUME NEW x \in Patients(c)
            PROVE  /\ m.since[x] = (IF to # NoStation /\ x = p THEN e.at ELSE q.since[x])
                   /\ m.gone[x] = (IF to = NoStation /\ x = p THEN e.at ELSE q.gone[x])
        BY <1>1, <1>3, <2>2, <2>4, <3>2, <3>3 DEF Vacated, Enqueued
      <4>4. m.completed = (IF to = NoStation THEN Append(q.completed, p) ELSE q.completed)
        BY <1>1, <1>3, <2>2, <2>4, <3>2, <3>3 DEF Vacated, Enqueued
      <4> QED
        BY <4>1, <4>2, <4>3, <4>4 DEF Moved, to
    <3> QED
      BY <3>1, <3>4 DEF to
  <2> QED
    BY <2>3, <2>4
<1> QED
  BY <1>5, <1>6

\* Of the events of a calendar that is not empty one is the next, and none of
\* the others is before it.
LEMMA NextIsFirst ==
  ASSUME NEW c, Net(c), NEW q \in Runs(c), Dated(q), q.calendar # {}
  PROVE  NextEvent(q) \in q.calendar /\ \A f \in q.calendar : f.at >= NextEvent(q).at
<1>1. \A e \in q.calendar : e.at \in Nat /\ e.seq \in Nat
  BY RunTypes
<1>2. PICK a \in {e.at : e \in q.calendar} : \A b \in {e.at : e \in q.calendar} : a <= b
  <2>1. {e.at : e \in q.calendar} \in SUBSET Nat /\ {e.at : e \in q.calendar} # {}
    BY <1>1
  <2> QED
    BY <2>1, NatMin
<1> DEFINE E == {e \in q.calendar : e.at = a}
<1>3. PICK s \in {e.seq : e \in E} : \A b \in {e.seq : e \in E} : s <= b
  <2>1. {e.seq : e \in E} \in SUBSET Nat /\ {e.seq : e \in E} # {}
    BY <1>1, <1>2
  <2> HIDE DEF E
  <2> QED
    BY <2>1, NatMin
<1>4. PICK e \in E : e.seq = s
  BY <1>3
<1>5. \A f \in q.calendar \ {e} : Earlier(e, f)
  <2> SUFFICES ASSUME NEW f \in q.calendar, f # e PROVE Earlier(e, f)
    OBVIOUS
  <2>1. e.at <= f.at /\ f.seq # e.seq
    BY <1>2, <1>4 DEF Dated
  <2>2. CASE e.at = f.at
    <3>1. e.seq <= f.seq
      BY <1>3, <1>4, <2>2
    <3> QED
      BY <1>1, <1>4, <2>1, <2>2, <3>1 DEF Earlier
  <2>3. CASE e.at # f.at
    BY <1>1, <1>4, <2>1, <2>3 DEF Earlier
  <2> QED
    BY <2>2, <2>3
<1>6. NextEvent(q) \in q.calendar /\ \A f \in q.calendar \ {NextEvent(q)} : Earlier(NextEvent(q), f)
  BY <1>4, <1>5 DEF NextEvent
<1> QED
  BY <1>1, <1>6 DEF Earlier

\* Moving the patient of the next event keeps the dates.
LEMMA MovedDated ==
  ASSUME NEW c, Net(c), NEW q \in Runs(c), Dated(q), NEW e \in q.calendar, \A f \in q.calendar : f.at >= e.at,
         NEW m, Moved(c, q, e, m)
  PROVE  Dated(m)
<1>1. m.turn = e.at /\ m.seq = q.seq /\ m.calendar = q.calendar \ {e}
  BY DEF Moved
<1> QED
  BY <1>1 DEF Dated

\* The queue the patient joins has one place more.
LEMMA MovedQueue ==
  ASSUME NEW c, Net(c), NEW q \in Runs(c), NEW e \in q.calendar, NEW m, Moved(c, q, e, m), NEW t \in Stations(c)
  PROVE  /\ t # To(c, e) => m.queue[t] = q.queue[t]
         /\ t = To(c, e) => /\ DOMAIN m.queue[t] = 1..(Len(q.queue[t]) + 1)
                            /\ m.queue[t][Len(q.queue[t]) + 1] = e.patient
         /\ \A i \in 1..Len(q.queue[t]) : m.queue[t][i] = q.queue[t][i]
         /\ DOMAIN q.queue[t] = 1..Len(q.queue[t]) /\ Len(q.queue[t]) \in Nat
<1>1. q.queue[t] \in Seq(Patients(c)) /\ e.patient \in Patients(c) /\ Len(q.queue[t]) \in Nat
      /\ DOMAIN q.queue[t] = 1..Len(q.queue[t])
  BY RunTypes
<1>2. m.queue[t] = (IF t = To(c, e) THEN Append(q.queue[t], e.patient) ELSE q.queue[t])
  BY DEF Moved
<1> QED
  BY <1>1, <1>2

\* A patient who moves leaves the calendar and has a place in the next queue, or
\* is discharged.
LEMMA MovedPlaces ==
  ASSUME NEW c, Net(c), NEW q \in Runs(c), Booked(c, q), NEW e \in q.calendar, NEW m, Moved(c, q, e, m)
  PROVE  /\ Expecting(m) = Expecting(q) \ {e.patient} /\ e.patient \in Expecting(q)
         /\ Queued(c, m) = Queued(c, q) \cup (IF To(c, e) = NoStation THEN {} ELSE {e.patient})
         /\ Discharged(m) = Discharged(q) \cup (IF To(c, e) = NoStation THEN {e.patient} ELSE {})
<1> DEFINE p == e.patient
           to == To(c, e)
<1>1. Expecting(m) = Expecting(q) \ {p} /\ p \in Expecting(q)
  <2>1. m.calendar = q.calendar \ {e} /\ \A f, g \in q.calendar : f.patient = g.patient => f = g
    BY DEF Moved, Booked
  <2> QED
    BY <2>1 DEF Expecting
<1>2. to \in Stations(c) \cup {NoStation} /\ NoStation \notin Stations(c)
  BY Goes
<1>3. ASSUME NEW x \in Queued(c, m) PROVE x \in Queued(c, q) \/ (to # NoStation /\ x = p)
  <2>1. PICK t \in Stations(c) : \E i \in DOMAIN m.queue[t] : x = m.queue[t][i]
    BY InQueue
  <2>2. PICK i \in DOMAIN m.queue[t] : x = m.queue[t][i]
    BY <2>1
  <2>3. CASE i \in DOMAIN q.queue[t]
    <3>1. x = q.queue[t][i]
      BY <2>2, <2>3, MovedQueue
    <3> QED
      BY <2>3, <3>1, InQueue
  <2>4. CASE i \notin DOMAIN q.queue[t]
    <3> DEFINE n == Len(q.queue[t])
    <3>1. /\ t # to => m.queue[t] = q.queue[t]
          /\ t = to => DOMAIN m.queue[t] = 1..(n + 1) /\ m.queue[t][n + 1] = p
          /\ DOMAIN q.queue[t] = 1..n /\ n \in Nat
      BY MovedQueue
    <3> HIDE DEF n
    <3>2. t = to
      BY <2>2, <2>4, <3>1
    <3>3. i = n + 1
      BY <2>2, <2>4, <3>1, <3>2
    <3> QED
      BY <1>2, <2>2, <3>1, <3>2, <3>3
  <2> QED
    BY <2>3, <2>4
<1>4. ASSUME NEW x \in Queued(c, q) PROVE x \in Queued(c, m)
  <2>1. PICK t \in Stations(c) : \E i \in DOMAIN q.queue[t] : x = q.queue[t][i]
    BY InQueue
  <2>2. PICK i \in DOMAIN q.queue[t] : x = q.queue[t][i]
    BY <2>1
  <2>3. i \in DOMAIN m.queue[t] /\ m.queue[t][i] = x
    BY <2>2, MovedQueue
  <2> QED
    BY <2>3, InQueue
<1>5. ASSUME to # NoStation PROVE p \in Queued(c, m)
  <2>1. to \in Stations(c)
    BY <1>2, <1>5
  <2>2. Len(q.queue[to]) + 1 \in DOMAIN m.queue[to] /\ m.queue[to][Len(q.queue[to]) + 1] = p
    BY <2>1, MovedQueue
  <2> QED
    BY <2>1, <2>2, InQueue
<1>6. Queued(c, m) = Queued(c, q) \cup (IF to = NoStation THEN {} ELSE {p})
  BY <1>3, <1>4, <1>5
<1>7. Discharged(m) = Discharged(q) \cup (IF to = NoStation THEN {p} ELSE {})
  <2>1. q.completed \in Seq(Patients(c)) /\ p \in Patients(c) /\ Len(q.completed) \in Nat
    BY RunTypes
  <2>2. m.completed = (IF to = NoStation THEN Append(q.completed, p) ELSE q.completed)
    BY DEF Moved
  <2>3. CASE to = NoStation
    <3>1. /\ DOMAIN m.completed = 1..(Len(q.completed) + 1) /\ m.completed[Len(q.completed) + 1] = p
          /\ \A i \in 1..Len(q.completed) : m.completed[i] = q.completed[i]
          /\ DOMAIN q.completed = 1..Len(q.completed)
      BY <2>1, <2>2, <2>3
    <3>2. \A i \in 1..(Len(q.completed) + 1) : i \in 1..Len(q.completed) \/ i = Len(q.completed) + 1
      BY <2>1
    <3>3. \A i \in 1..Len(q.completed) : i \in 1..(Len(q.completed) + 1)
      BY <2>1
    <3>4. Len(q.completed) + 1 \in 1..(Len(q.completed) + 1)
      BY <2>1
    <3> QED
      BY <2>3, <3>1, <3>2, <3>3, <3>4 DEF Discharged, ToSet
  <2>4. CASE to # NoStation
    BY <2>2, <2>4 DEF Discharged
  <2> QED
    BY <2>3, <2>4
<1> QED
  BY <1>1, <1>6, <1>7

\* Moving a patient keeps everybody in one place.
LEMMA MovedBooked ==
  ASSUME NEW c, Net(c), NEW q \in Runs(c), Booked(c, q), NEW e \in q.calendar, NEW m, Moved(c, q, e, m)
  PROVE  Booked(c, m)
<1> DEFINE p == e.patient
           to == To(c, e)
<1>1. /\ Expecting(m) = Expecting(q) \ {p} /\ p \in Expecting(q)
      /\ Queued(c, m) = Queued(c, q) \cup (IF to = NoStation THEN {} ELSE {p})
      /\ Discharged(m) = Discharged(q) \cup (IF to = NoStation THEN {p} ELSE {})
  BY MovedPlaces
<1>2. p \notin Queued(c, q) /\ p \notin Discharged(q)
  BY <1>1 DEF Booked
<1>3. /\ Patients(c) = Expecting(m) \cup Queued(c, m) \cup Discharged(m)
      /\ Expecting(m) \cap Queued(c, m) = {} /\ Expecting(m) \cap Discharged(m) = {}
      /\ Queued(c, m) \cap Discharged(m) = {}
  <2>1. /\ Patients(c) = Expecting(q) \cup Queued(c, q) \cup Discharged(q)
        /\ Expecting(q) \cap Queued(c, q) = {} /\ Expecting(q) \cap Discharged(q) = {}
        /\ Queued(c, q) \cap Discharged(q) = {}
    BY DEF Booked
  <2> HIDE DEF p, to
  <2> QED
    BY <1>1, <1>2, <2>1
<1>4. \A f, g \in m.calendar : f.patient = g.patient => f = g
  BY DEF Booked, Moved
<1>5. ASSUME NEW s \in Stations(c), NEW t \in Stations(c), NEW i \in DOMAIN m.queue[s], NEW j \in DOMAIN m.queue[t],
             m.queue[s][i] = m.queue[t][j]
      PROVE  s = t /\ i = j
  <2> DEFINE Old(u, k) == k \in DOMAIN q.queue[u] /\ m.queue[u][k] = q.queue[u][k]
             New(u, k) == u = to /\ k = Len(q.queue[u]) + 1 /\ m.queue[u][k] = p
  <2>1. ASSUME NEW u \in Stations(c), NEW k \in DOMAIN m.queue[u] PROVE Old(u, k) \/ New(u, k)
    <3>1. /\ u # to => m.queue[u] = q.queue[u]
          /\ u = to => DOMAIN m.queue[u] = 1..(Len(q.queue[u]) + 1) /\ m.queue[u][Len(q.queue[u]) + 1] = p
          /\ \A l \in 1..Len(q.queue[u]) : m.queue[u][l] = q.queue[u][l]
          /\ DOMAIN q.queue[u] = 1..Len(q.queue[u]) /\ Len(q.queue[u]) \in Nat
      BY MovedQueue
    <3> HIDE DEF to
    <3> QED
      BY <2>1, <3>1
  <2>2. \A u \in Stations(c) : \A k \in DOMAIN q.queue[u] : q.queue[u][k] # p
    BY <1>2, InQueue
  <2>3. \A u, v \in Stations(c) : \A k \in DOMAIN q.queue[u], l \in DOMAIN q.queue[v] :
          q.queue[u][k] = q.queue[v][l] => u = v /\ k = l
    BY DEF Booked
  <2> QED
    BY <1>5, <2>1, <2>2, <2>3
<1>6. ASSUME NEW t \in Stations(c) PROVE m.serving[t] = {f.patient : f \in {g \in m.calendar : g.station = t}}
  <2>1. /\ q.serving[t] = {f.patient : f \in {g \in q.calendar : g.station = t}}
        /\ \A f, g \in q.calendar : f.patient = g.patient => f = g
    BY DEF Booked
  <2>2. /\ m.calendar = q.calendar \ {e}
        /\ m.serving[t] = (IF t = e.station THEN q.serving[t] \ {p} ELSE q.serving[t])
    BY DEF Moved
  <2> QED
    BY <2>1, <2>2
<1>7. \A i, j \in DOMAIN m.completed : m.completed[i] = m.completed[j] => i = j
  <2>1. /\ q.completed \in Seq(Patients(c)) /\ p \in Patients(c) /\ Len(q.completed) \in Nat
        /\ DOMAIN q.completed = 1..Len(q.completed)
    BY RunTypes
  <2>2. m.completed = (IF to = NoStation THEN Append(q.completed, p) ELSE q.completed)
    BY DEF Moved
  <2>3. \A i \in DOMAIN q.completed : q.completed[i] # p
    BY <1>2 DEF Discharged, ToSet
  <2>4. \A i, j \in DOMAIN q.completed : q.completed[i] = q.completed[j] => i = j
    BY DEF Booked
  <2>5. CASE to = NoStation
    <3>1. /\ DOMAIN m.completed = 1..(Len(q.completed) + 1) /\ m.completed[Len(q.completed) + 1] = p
          /\ \A i \in 1..Len(q.completed) : m.completed[i] = q.completed[i]
      BY <2>1, <2>2, <2>5
    <3>2. \A i \in 1..(Len(q.completed) + 1) : i \in 1..Len(q.completed) \/ i = Len(q.completed) + 1
      BY <2>1
    <3> QED
      BY <2>1, <2>3, <2>4, <3>1, <3>2
  <2>6. CASE to # NoStation
    BY <2>2, <2>4, <2>6
  <2> QED
    BY <2>5, <2>6
<1> QED
  BY <1>3, <1>4, <1>5, <1>6, <1>7 DEF Booked

\* Only the two stations of the move may have a place free while somebody waits.
LEMMA MovedManned ==
  ASSUME NEW c, Net(c), NEW q \in Runs(c), Manned(c, q, {}), NEW e \in q.calendar, NEW m, Moved(c, q, e, m)
  PROVE  Manned(c, m, {e.station, To(c, e)})
<1>1. ASSUME NEW t \in Stations(c) PROVE Cardinality(m.serving[t]) <= c.capacity[t]
  <2>1. m.serving[t] \subseteq q.serving[t] /\ IsFiniteSet(q.serving[t])
    <3>1. m.serving[t] \subseteq q.serving[t]
      BY DEF Moved
    <3>2. IsFiniteSet(q.serving[t])
      BY RunTypes
    <3> QED
      BY <3>1, <3>2
  <2>2. Cardinality(m.serving[t]) <= Cardinality(q.serving[t])
    BY <2>1, FS_Subset
  <2>3. /\ Cardinality(m.serving[t]) \in Nat /\ Cardinality(q.serving[t]) \in Nat /\ c.capacity[t] \in Nat
        /\ Cardinality(q.serving[t]) <= c.capacity[t]
    <3>1. IsFiniteSet(m.serving[t])
      BY <2>1, FS_Subset
    <3> QED
      BY <2>1, <3>1, FS_CardinalityType, RunTypes DEF Manned
  <2> QED
    BY <2>2, <2>3
<1>2. ASSUME NEW t \in Stations(c), t \notin {e.station, To(c, e)}, m.queue[t] # <<>>
      PROVE  Cardinality(m.serving[t]) = c.capacity[t]
  <2>1. m.serving[t] = q.serving[t] /\ m.queue[t] = q.queue[t]
    BY <1>2 DEF Moved
  <2> QED
    BY <1>2, <2>1 DEF Manned
<1> QED
  BY <1>1, <1>2 DEF Manned

\* Moving a patient keeps the order of the queues and the totals of the stations.
LEMMA MovedBalanced ==
  ASSUME NEW c, Net(c), NEW q \in Runs(c), Booked(c, q), Balanced(c, q),
         NEW e \in q.calendar, e.at >= q.turn, NEW m, Moved(c, q, e, m)
  PROVE  Balanced(c, m)
<1> DEFINE p == e.patient
           to == To(c, e)
<1>1. e.at \in Nat /\ q.turn \in Nat /\ m.turn = e.at
  BY RunTypes DEF Moved
<1>2. p \notin Queued(c, q)
  BY MovedPlaces DEF Booked
<1>3. \A x \in Patients(c) : m.since[x] = (IF to # NoStation /\ x = p THEN e.at ELSE q.since[x])
  BY DEF Moved
<1>4. p \in Patients(c) /\ NoStation \notin Stations(c)
  BY RunTypes, Goes
<1>5. ASSUME NEW t \in Stations(c)
      PROVE  /\ \A i, j \in DOMAIN m.queue[t] : i < j => m.since[m.queue[t][i]] <= m.since[m.queue[t][j]]
             /\ \A i \in DOMAIN m.queue[t] : m.since[m.queue[t][i]] <= m.turn
  <2> DEFINE w == q.queue[t]
             v == m.queue[t]
  <2>1. ASSUME NEW i \in DOMAIN w
        PROVE  v[i] = w[i] /\ m.since[v[i]] = q.since[w[i]] /\ q.since[w[i]] <= q.turn /\ q.since[w[i]] \in Nat
    <3>1. v[i] = w[i]
      BY MovedQueue
    <3>2. w[i] \in Patients(c) /\ w[i] # p
      BY <1>2, InQueue, RunTypes
    <3>3. m.since[w[i]] = q.since[w[i]]
      BY <1>3, <3>2
    <3>4. q.since \in [Patients(c) -> Nat]
      BY RunTypes
    <3> QED
      BY <3>1, <3>2, <3>3, <3>4 DEF Balanced
  <2>2. DOMAIN w = 1..Len(w) /\ Len(w) \in Nat
    BY RunTypes
  <2>3. \A i, j \in DOMAIN w : i < j => q.since[w[i]] <= q.since[w[j]]
    BY DEF Balanced
  <2>4. CASE t # to
    <3>1. DOMAIN v = DOMAIN w
      BY <2>4, MovedQueue
    <3> HIDE DEF w, v
    <3>2. ASSUME NEW i \in DOMAIN v, NEW j \in DOMAIN v, i < j
          PROVE  m.since[v[i]] <= m.since[v[j]]
      BY <2>1, <2>3, <3>1, <3>2
    <3>3. ASSUME NEW i \in DOMAIN v
          PROVE  m.since[v[i]] <= m.turn
      <4>1. m.since[v[i]] = q.since[w[i]] /\ q.since[w[i]] <= q.turn /\ q.since[w[i]] \in Nat
        BY <2>1, <3>1
      <4> QED
        BY <1>1, <4>1
    <3> QED
      BY <3>2, <3>3 DEF v
  <2>5. CASE t = to
    <3>1. DOMAIN v = 1..(Len(w) + 1) /\ v[Len(w) + 1] = p
      BY <2>5, MovedQueue
    <3>2. m.since[p] = e.at
      BY <1>3, <1>4, <2>5
    <3> HIDE DEF w, v
    <3>3. ASSUME NEW i \in DOMAIN v PROVE m.since[v[i]] <= e.at /\ (i \in DOMAIN w \/ i = Len(w) + 1)
      <4>1. CASE i \in DOMAIN w
        BY <1>1, <2>1, <4>1
      <4>2. CASE i \notin DOMAIN w
        BY <1>1, <2>2, <3>1, <3>2, <4>2
      <4> QED
        BY <4>1, <4>2
    <3>4. ASSUME NEW i \in DOMAIN v, NEW j \in DOMAIN v, i < j PROVE m.since[v[i]] <= m.since[v[j]]
      <4>1. CASE j \in DOMAIN w
        <5>1. i \in DOMAIN w
          BY <2>2, <3>1, <3>4, <4>1
        <5> QED
          BY <2>1, <2>3, <3>4, <4>1, <5>1
      <4>2. CASE j = Len(w) + 1
        BY <3>1, <3>2, <3>3, <4>2
      <4> QED
        BY <3>3, <4>1, <4>2
    <3> QED
      BY <1>1, <3>3, <3>4 DEF v
  <2> QED
    BY <2>4, <2>5
<1>6. ASSUME NEW t \in Stations(c)
      PROVE  m.busy[t] = m.started[t] * c.service[t] /\ m.started[t] = m.finished[t] + Cardinality(m.serving[t])
  <2>1. q.busy[t] = q.started[t] * c.service[t] /\ q.started[t] = q.finished[t] + Cardinality(q.serving[t])
    BY DEF Balanced
  <2>2. /\ m.busy = q.busy /\ m.started = q.started
        /\ m.serving[t] = (IF t = e.station THEN q.serving[t] \ {p} ELSE q.serving[t])
        /\ m.finished[t] = (IF t = e.station THEN q.finished[t] + 1 ELSE q.finished[t])
    BY DEF Moved
  <2>3. CASE t = e.station
    <3>1. p \in q.serving[t]
      BY <2>3 DEF Booked
    <3>2. IsFiniteSet(q.serving[t]) /\ Cardinality(q.serving[t]) \in Nat
      BY RunTypes
    <3>3. Cardinality(q.serving[t] \ {p}) = Cardinality(q.serving[t]) - 1
      BY <3>1, <3>2, FS_RemoveElement
    <3>4. q.finished \in [Stations(c) -> Nat]
      BY RunTypes DEF Counters
    <3>5. q.finished[t] \in Nat
      BY <3>4
    <3>6. /\ m.serving[t] = q.serving[t] \ {p} /\ m.finished[t] = q.finished[t] + 1
      BY <2>2, <2>3
    <3> QED
      BY <2>1, <2>2, <3>2, <3>3, <3>5, <3>6
  <2>4. CASE t # e.station
    BY <2>1, <2>2, <2>4
  <2> QED
    BY <2>3, <2>4
<1> QED
  BY <1>5, <1>6 DEF Balanced

\* Moving a patient is one step along the route, in time.
LEMMA MovedTimed ==
  ASSUME NEW c, Net(c), NEW q \in Runs(c), Booked(c, q), Timed(c, q), NEW e \in q.calendar, NEW m, Moved(c, q, e, m)
  PROVE  Timed(c, m)
<1> DEFINE p == e.patient
           to == To(c, e)
           K == Cardinality(Stations(c))
<1>1. /\ e.at \in Nat /\ p \in Patients(c) /\ c.arrival[p] \in Nat /\ q.waited[p] \in Int
  <2>1. q.waited \in [Patients(c) -> Int] /\ p \in Patients(c)
    BY RunTypes
  <2> QED
    BY <2>1, RunTypes
<1>2. /\ m.calendar = q.calendar \ {e} /\ m.waited = q.waited
      /\ \A x \in Patients(c) : /\ m.since[x] = (IF to # NoStation /\ x = p THEN e.at ELSE q.since[x])
                                /\ m.gone[x] = (IF to = NoStation /\ x = p THEN e.at ELSE q.gone[x])
  BY DEF Moved
<1>3. /\ Discharged(m) = Discharged(q) \cup (IF to = NoStation THEN {p} ELSE {})
      /\ p \notin Queued(c, q) /\ p \notin Discharged(q)
  BY MovedPlaces DEF Booked
<1>4. \/ to # NoStation /\ \E k \in Route(c) : Along(c)[k] = to /\ e.at - c.arrival[p] = q.waited[p] + Served(c)[k]
      \/ to = NoStation /\ e.at - c.arrival[p] = q.waited[p] + Served(c)[K + 1]
  <2>1. \/ e.station = NoStation /\ e.at = c.arrival[p] /\ q.waited[p] = 0
        \/ \E k \in Route(c) : Along(c)[k] = e.station /\ e.at - c.arrival[p] = q.waited[p] + Served(c)[k + 1]
    BY DEF Timed
  <2>2. CASE e.station = NoStation /\ e.at = c.arrival[p] /\ q.waited[p] = 0
    <3>1. to = c.entry /\ to \in Stations(c) /\ NoStation \notin Stations(c)
      BY <2>2, Goes DEF To
    <3>2. 0 \in 0..K /\ Along(c)[0] = c.entry /\ Served(c)[0] = 0
      BY AlongSteps, ServedSteps
    <3>3. 0 \in Route(c) /\ Along(c)[0] = to
      BY <3>1, <3>2 DEF Route
    <3>4. e.at - c.arrival[p] = q.waited[p] + Served(c)[0]
      BY <1>1, <2>2, <3>2
    <3>5. to # NoStation
      BY <3>1
    <3> HIDE DEF p, to, K
    <3> QED
      BY <3>3, <3>4, <3>5
  <2>3. CASE \E k \in Route(c) : Along(c)[k] = e.station /\ e.at - c.arrival[p] = q.waited[p] + Served(c)[k + 1]
    <3>1. PICK k \in Route(c) : Along(c)[k] = e.station /\ e.at - c.arrival[p] = q.waited[p] + Served(c)[k + 1]
      BY <2>3
    <3>2. /\ k \in Nat /\ Along(c)[k] \in Stations(c) /\ Along(c)[k + 1] = c.next[Along(c)[k]]
          /\ Along(c)[k + 1] # NoStation => k + 1 \in Route(c)
          /\ Along(c)[k + 1] = NoStation => Served(c)[k + 1] = Served(c)[K + 1]
      BY OnRoute
    <3>3. e.station # NoStation
      BY <3>1, <3>2, Goes
    <3>4. to = Along(c)[k + 1]
      BY <3>1, <3>2, <3>3 DEF To
    <3> HIDE DEF to, p, K
    <3> QED
      BY <3>1, <3>2, <3>4
  <2> QED
    BY <2>1, <2>2, <2>3
<1>5. ASSUME NEW f \in m.calendar
      PROVE  \/ f.station = NoStation /\ f.at = c.arrival[f.patient] /\ m.waited[f.patient] = 0
             \/ \E k \in Route(c) : /\ Along(c)[k] = f.station
                                    /\ f.at - c.arrival[f.patient] = m.waited[f.patient] + Served(c)[k + 1]
  BY <1>2 DEF Timed
<1>6. ASSUME NEW t \in Stations(c), NEW i \in DOMAIN m.queue[t]
      PROVE  \E k \in Route(c) : /\ Along(c)[k] = t
                                 /\ m.since[m.queue[t][i]] - c.arrival[m.queue[t][i]]
                                      = m.waited[m.queue[t][i]] + Served(c)[k]
  <2>1. CASE i \in DOMAIN q.queue[t]
    <3> DEFINE x == q.queue[t][i]
    <3>1. m.queue[t][i] = x
      BY <2>1, MovedQueue
    <3>2. x \in Patients(c) /\ x # p
      BY <1>3, <2>1, InQueue, RunTypes
    <3>3. m.since[x] = q.since[x]
      BY <1>2, <3>2
    <3>4. \E k \in Route(c) : Along(c)[k] = t /\ q.since[x] - c.arrival[x] = q.waited[x] + Served(c)[k]
      BY <2>1 DEF Timed
    <3> HIDE DEF x
    <3> QED
      BY <1>2, <3>1, <3>3, <3>4
  <2>2. CASE i \notin DOMAIN q.queue[t]
    <3>1. t = to /\ m.queue[t][i] = p
      BY <2>2, MovedQueue
    <3>2. to # NoStation
      BY <3>1, Goes
    <3>3. m.since[p] = e.at
      BY <1>1, <1>2, <3>2
    <3> HIDE DEF p, to
    <3> QED
      BY <1>2, <1>4, <3>1, <3>2, <3>3
  <2> QED
    BY <2>1, <2>2
<1>7. ASSUME NEW x \in Discharged(m) PROVE m.gone[x] - c.arrival[x] = m.waited[x] + Served(c)[K + 1]
  <2>1. CASE x \in Discharged(q)
    <3>1. x \in Patients(c) /\ x # p
      BY <1>3, <2>1 DEF Booked
    <3> QED
      BY <1>2, <2>1, <3>1 DEF Timed
  <2>2. CASE x \notin Discharged(q)
    <3>1. to = NoStation /\ x = p
      BY <1>3, <1>7, <2>2
    <3>2. m.gone[p] = e.at
      BY <1>1, <1>2, <3>1
    <3> HIDE DEF p, to, K
    <3> QED
      BY <1>2, <1>4, <3>1, <3>2
  <2> QED
    BY <2>1, <2>2
<1> QED
  BY <1>5, <1>6, <1>7 DEF Timed

\* Processing the next event keeps the books in order.
LEMMA RunNextKeeps ==
  ASSUME NEW c, Net(c), NEW q, RunOK(c, q, {}), q.calendar # {}
  PROVE  RunOK(c, RunNext(c, q), {}) /\ RunNext(c, q).metrics = q.metrics
<1>1. q \in Runs(c) /\ Dated(q) /\ Booked(c, q) /\ Manned(c, q, {}) /\ Balanced(c, q) /\ Timed(c, q)
  BY DEF RunOK
<1>2. PICK e \in q.calendar : e = NextEvent(q) /\ \A f \in q.calendar : f.at >= e.at
  BY <1>1, NextIsFirst
<1>3. PICK m : Moved(c, q, e, m) /\ RunNext(c, q) = TryStart(c, TryStart(c, m, e.station), To(c, e))
  BY <1>1, <1>2, NextMoves
<1>4. e.at >= q.turn
  BY <1>1 DEF Dated
<1>5. RunOK(c, m, {e.station, To(c, e)}) /\ m.metrics = q.metrics
  <2>1. m \in Runs(c) /\ m.metrics = q.metrics
    BY <1>3 DEF Moved
  <2>2. Dated(m) /\ Booked(c, m) /\ Manned(c, m, {e.station, To(c, e)})
    BY <1>1, <1>2, <1>3, MovedDated, MovedBooked, MovedManned
  <2>3. Balanced(c, m) /\ Timed(c, m)
    BY <1>1, <1>3, <1>4, MovedBalanced, MovedTimed
  <2> QED
    BY <2>1, <2>2, <2>3 DEF RunOK
<1>6. e.station \in Stations(c) \cup {NoStation} /\ To(c, e) \in Stations(c) \cup {NoStation}
  BY <1>1, Goes, RunTypes
<1> DEFINE x == TryStart(c, m, e.station)
<1>7. RunOK(c, x, {e.station, To(c, e)} \ {e.station}) /\ x.metrics = q.metrics
  BY <1>5, <1>6, TryStartKeeps
<1> HIDE DEF x
<1> DEFINE Y == {e.station, To(c, e)} \ {e.station}
<1>8. RunOK(c, TryStart(c, x, To(c, e)), Y \ {To(c, e)}) /\ TryStart(c, x, To(c, e)).metrics = q.metrics
  BY <1>6, <1>7, TryStartKeeps
<1>9. Y \ {To(c, e)} = {}
  OBVIOUS
<1> QED
  BY <1>3, <1>8, <1>9 DEF x

\* A run starts with its books in order: everybody is in the calendar.
LEMMA OpenQueueOK ==
  ASSUME NEW c, Net(c)
  PROVE  RunOK(c, OpenQueue(c), {}) /\ OpenQueue(c).metrics = FALSE
<1> DEFINE q == OpenQueue(c)
           ps == c.patients
           E(i) == Event(c.arrival[ps[i]], i, ps[i], NoStation)
           calendar == {E(i) : i \in 1..Len(ps)}
<1>1. /\ ps \in Seq(Patients(c)) /\ Len(ps) \in Nat /\ DOMAIN ps = 1..Len(ps) /\ \A i \in DOMAIN ps : ps[i] \in Patients(c)
      /\ \A i, j \in DOMAIN ps : ps[i] = ps[j] => i = j
      /\ Patients(c) = {ps[i] : i \in 1..Len(ps)} /\ c.arrival \in [Patients(c) -> Nat]
      /\ NoStation \notin Stations(c)
  <2>1. ps \in Seq(Patients(c)) /\ c.arrival \in [Patients(c) -> Nat] /\ NoStation \notin Stations(c)
        /\ \A i, j \in DOMAIN ps : ps[i] = ps[j] => i = j
    BY DEF Net, Specified, IsInjective
  <2>2. Patients(c) = {ps[i] : i \in DOMAIN ps}
    BY DEF Patients, ToSet
  <2> QED
    BY <2>1, <2>2
<1>2. \A i \in 1..Len(ps) : /\ E(i).at = c.arrival[ps[i]] /\ E(i).seq = i
                            /\ E(i).patient = ps[i] /\ E(i).station = NoStation
  BY DEF Event
<1>3. calendar \subseteq Events(c)
  <2>1. ASSUME NEW i \in 1..Len(ps) PROVE E(i) \in Events(c)
    <3>0. ps[i] \in Patients(c)
      BY <1>1
    <3>a. c.arrival \in [Patients(c) -> Nat]
      BY <1>1
    <3>1. ps[i] \in Patients(c) /\ i \in Nat /\ c.arrival[ps[i]] \in Nat
      BY <3>0, <3>a
    <3> HIDE DEF ps
    <3> QED
      BY <3>1 DEF Event, Events
  <2> HIDE DEF E, ps
  <2> QED
    BY <2>1
<1>4. /\ q.turn = 0 /\ q.seq = Len(ps) /\ q.calendar = calendar /\ q.completed = <<>> /\ q.metrics = FALSE
      /\ \A st \in Stations(c) : /\ q.queue[st] = <<>> /\ q.serving[st] = {} /\ q.started[st] = 0
                                 /\ q.finished[st] = 0 /\ q.busy[st] = 0
      /\ \A p \in Patients(c) : q.waited[p] = 0
  BY DEF OpenQueue
<1>5. q \in Runs(c)
  <2> HIDE DEF calendar
  <2>1. /\ [st \in Stations(c) |-> <<>>] \in [Stations(c) -> Seq(Patients(c))]
        /\ [st \in Stations(c) |-> {}] \in [Stations(c) -> SUBSET Patients(c)]
        /\ [st \in Stations(c) |-> 0] \in Counters(c)
        /\ [p \in Patients(c) |-> 0] \in [Patients(c) -> Nat] /\ [p \in Patients(c) |-> 0] \in [Patients(c) -> Int]
        /\ <<>> \in Seq(Patients(c))
    BY DEF Counters
  <2>2. q = [turn |-> 0, seq |-> Len(ps), calendar |-> calendar, queue |-> [st \in Stations(c) |-> <<>>],
             serving |-> [st \in Stations(c) |-> {}], started |-> [st \in Stations(c) |-> 0],
             finished |-> [st \in Stations(c) |-> 0], busy |-> [st \in Stations(c) |-> 0],
             since |-> [p \in Patients(c) |-> 0], waited |-> [p \in Patients(c) |-> 0],
             gone |-> [p \in Patients(c) |-> 0], completed |-> <<>>, metrics |-> FALSE]
    BY DEF OpenQueue, calendar
  <2> HIDE DEF q, ps
  <2> QED
    BY <1>1, <1>3, <2>1, <2>2 DEF Runs
<1> HIDE DEF q, ps, E, calendar
<1>6. \A e \in q.calendar : \E i \in 1..Len(ps) : e = E(i)
  BY <1>4 DEF calendar
<1>7. Dated(q)
  <2>1. \A i \in 1..Len(ps) : E(i).seq <= Len(ps) /\ E(i).at >= 0
    BY <1>1, <1>2
  <2> QED
    BY <1>2, <1>4, <1>6, <2>1 DEF Dated
<1>8. Expecting(q) = Patients(c) /\ Queued(c, q) = {} /\ Discharged(q) = {}
  <2>1. \A i \in 1..Len(ps) : E(i) \in q.calendar
    BY <1>4 DEF calendar
  <2>2. \A p : p \in Expecting(q) <=> p \in Patients(c)
    <3>1. \A p \in Patients(c) : \E e \in q.calendar : e.patient = p
      BY <1>1, <1>2, <2>1
    <3>2. \A e \in q.calendar : e.patient \in Patients(c)
      BY <1>1, <1>2, <1>6
    <3> QED
      BY <3>1, <3>2 DEF Expecting
  <2>3. \A st \in Stations(c) : DOMAIN q.queue[st] = {}
    BY <1>4
  <2>4. Queued(c, q) = {}
    BY <2>3, InQueue
  <2>5. Discharged(q) = {}
    BY <1>4 DEF Discharged, ToSet
  <2> QED
    BY <2>2, <2>4, <2>5
<1>9. Booked(c, q)
  <2>1. \A e, f \in q.calendar : e.patient = f.patient => e = f
    BY <1>1, <1>2, <1>6
  <2>2. \A st \in Stations(c) : DOMAIN q.queue[st] = {}
    BY <1>4
  <2>3. DOMAIN q.completed = {}
    BY <1>4
  <2>4. \A st \in Stations(c) : q.serving[st] = {e.patient : e \in {f \in q.calendar : f.station = st}}
    <3>1. \A st \in Stations(c) : \A e \in q.calendar : e.station # st
      BY <1>1, <1>2, <1>6
    <3> QED
      BY <1>4, <3>1
  <2> QED
    BY <1>8, <2>1, <2>2, <2>3, <2>4 DEF Booked
<1>10. Manned(c, q, {})
  <2>1. \A st \in Stations(c) : Cardinality(q.serving[st]) = 0 /\ c.capacity[st] \in Nat /\ q.queue[st] = <<>>
    BY <1>4, <1>5, FS_EmptySet, RunTypes
  <2> QED
    BY <2>1 DEF Manned
<1>11. Balanced(c, q)
  <2>1. ASSUME NEW st \in Stations(c)
        PROVE  /\ q.busy[st] = q.started[st] * c.service[st]
               /\ q.started[st] = q.finished[st] + Cardinality(q.serving[st])
    <3>1. Cardinality(q.serving[st]) = 0 /\ c.service[st] \in Nat
      BY <1>4, <1>5, FS_EmptySet, RunTypes
    <3> QED
      BY <1>4, <3>1
  <2>2. \A st \in Stations(c) : DOMAIN q.queue[st] = {}
    BY <1>4
  <2> QED
    BY <2>1, <2>2 DEF Balanced
<1>12. Timed(c, q)
  <2>1. \A st \in Stations(c) : DOMAIN q.queue[st] = {}
    BY <1>4
  <2>2. \A e \in q.calendar : e.station = NoStation /\ e.at = c.arrival[e.patient] /\ q.waited[e.patient] = 0
    BY <1>1, <1>2, <1>4, <1>6
  <2> QED
    BY <1>8, <2>1, <2>2 DEF Timed
<1> QED
  BY <1>4, <1>5, <1>7, <1>9, <1>10, <1>11, <1>12 DEF RunOK, q

-------------------------------------------------------------------------------
(* Runs of many events.                                                         *)

\* A pass keeps the books in order.
LEMMA PassKeeps ==
  ASSUME NEW c, Net(c), NEW q, RunOK(c, q, {})
  PROVE  RunOK(c, Pass(c, q), {}) /\ Pass(c, q).metrics = q.metrics
BY RunNextKeeps DEF Pass

\* f is the run from q, for N passes.
Sound(c) == {q \in Runs(c) : RunOK(c, q, {})}
Trace(c, q, N, f) == f[0] = q /\ \A k \in 1..N : f[k] = Pass(c, f[k - 1])

\* A run of limit passes is the end of its trace, which is unique.
LEMMA RunAllTrace ==
  ASSUME NEW c, Net(c), NEW q \in Sound(c), NEW N \in Nat
  PROVE  /\ \E f : Trace(c, q, N, f)
         /\ \A f : Trace(c, q, N, f) => RunAll(c, q, N) = f[N]
<1> DEFINE S == Sound(c)
           F(f) == f = [n \in 0..N |-> IF n = 0 THEN q ELSE Pass(c, f[n - 1])]
           h == [n \in 1..N |-> [x \in S |-> Pass(c, x)]]
           a == CHOOSE f : F(f)
<1>1. RunAll(c, q, N) = a[N]
  BY DEF RunAll
<1>2. \A x \in S : Pass(c, x) \in S
  BY PassKeeps DEF Sound, RunOK
<1> HIDE DEF S
<1>3. h \in [1..N -> [S -> S]] /\ q \in S
  BY <1>2 DEF S
<1>4. PICK f \in [0..N -> S] : f[0] = q /\ \A k \in 1..N : f[k] = h[k][f[k - 1]]
  <2> HIDE DEF h
  <2>1. \E f \in [0..N -> S] : Recurs(f, N, q, h)
    BY <1>3, Recursion, Zenon
  <2> QED
    BY <2>1 DEF Recurs
<1>5. F(f)
  <2>1. ASSUME NEW k \in 1..N PROVE f[k] = Pass(c, f[k - 1])
    <3>1. f[k - 1] \in S
      BY <1>4
    <3> QED
      BY <1>4, <3>1 DEF h
  <2> QED
    BY <1>4, <2>1
<1>6. F(a)
  <2> HIDE DEF F
  <2> QED
    BY <1>5
<1> HIDE DEF a
<1>7. Trace(c, q, N, a)
  <2>1. a[0] = q /\ \A k \in 1..N : a[k] = Pass(c, a[k - 1])
    BY <1>6
  <2> QED
    BY <2>1 DEF Trace
<1>8. ASSUME NEW g, Trace(c, q, N, g) PROVE g[N] = a[N]
  <2> DEFINE T == {k \in 0..N : g[k] = a[k]}
  <2>1. 0 \in T
    BY <1>7, <1>8 DEF Trace
  <2>2. ASSUME NEW k \in 1..N, k - 1 \in T PROVE k \in T
    BY <1>7, <1>8, <2>2 DEF Trace
  <2> HIDE DEF T
  <2>3. \A k \in 0..N : k \in T
    BY <2>1, <2>2, UpToAll
  <2> QED
    BY <2>3 DEF T
<1> QED
  BY <1>1, <1>7, <1>8

\* Running one event more is a pass more.
LEMMA RunAllSteps ==
  ASSUME NEW c, Net(c), NEW q \in Sound(c)
  PROVE  /\ RunAll(c, q, 0) = q
         /\ \A k \in Nat : RunAll(c, q, k + 1) = Pass(c, RunAll(c, q, k))
<1>1. RunAll(c, q, 0) = q
  <2>1. PICK f : Trace(c, q, 0, f)
    BY RunAllTrace
  <2>2. RunAll(c, q, 0) = f[0]
    BY <2>1, RunAllTrace
  <2> QED
    BY <2>1, <2>2 DEF Trace
<1>2. ASSUME NEW k \in Nat PROVE RunAll(c, q, k + 1) = Pass(c, RunAll(c, q, k))
  <2>0. k + 1 \in Nat
    OBVIOUS
  <2>1. PICK f : Trace(c, q, k + 1, f)
    BY <2>0, RunAllTrace
  <2>2. RunAll(c, q, k + 1) = f[k + 1]
    BY <2>0, <2>1, RunAllTrace
  <2>3. Trace(c, q, k, f)
    BY <2>1 DEF Trace
  <2>4. RunAll(c, q, k) = f[k]
    BY <2>3, RunAllTrace
  <2>5. f[k + 1] = Pass(c, f[(k + 1) - 1]) /\ (k + 1) - 1 = k
    BY <2>1 DEF Trace
  <2> QED
    BY <2>2, <2>4, <2>5
<1> QED
  BY <1>1, <1>2

\* However many events are run, the books stay in order; an empty calendar stays
\* as it is, and running goes on where it stopped.
LEMMA RunAllFacts ==
  ASSUME NEW c, Net(c), NEW q \in Sound(c), NEW k \in Nat
  PROVE  /\ RunAll(c, q, k) \in Sound(c) /\ RunAll(c, q, k).metrics = q.metrics
         /\ q.calendar = {} => RunAll(c, q, k) = q
         /\ \A j \in Nat : RunAll(c, q, j + k) = RunAll(c, RunAll(c, q, j), k)
<1> DEFINE r(n) == RunAll(c, q, n)
           T == {n \in 0..k : r(n) \in Sound(c) /\ r(n).metrics = q.metrics /\ (q.calendar = {} => r(n) = q)}
<1>1. 0 \in T
  BY RunAllSteps
<1>2. ASSUME NEW n \in 1..k, n - 1 \in T PROVE n \in T
  <2>1. n - 1 \in Nat /\ (n - 1) + 1 = n
    OBVIOUS
  <2>2. r(n) = Pass(c, r(n - 1))
    BY <2>1, RunAllSteps
  <2> HIDE DEF r
  <2>3. r(n - 1) \in Sound(c) /\ r(n - 1).metrics = q.metrics /\ (q.calendar = {} => r(n - 1) = q)
    BY <1>2
  <2>4. RunOK(c, r(n - 1), {})
    BY <2>3 DEF Sound
  <2>5. RunOK(c, r(n), {}) /\ r(n).metrics = r(n - 1).metrics
    BY <2>2, <2>4, PassKeeps
  <2>6. q.calendar = {} => r(n) = q
    BY <2>2, <2>3 DEF Pass
  <2> QED
    BY <2>3, <2>5, <2>6 DEF Sound, RunOK
<1>3. k \in T
  <2> HIDE DEF T
  <2> QED
    BY <1>1, <1>2, UpToAll
<1>4. ASSUME NEW j \in Nat PROVE RunAll(c, q, j + k) = RunAll(c, RunAll(c, q, j), k)
  <2> DEFINE a == RunAll(c, q, j)
             U == {n \in 0..k : RunAll(c, q, j + n) = RunAll(c, a, n)}
  <2>1. a \in Sound(c)
    <3> DEFINE V == {n \in 0..j : r(n) \in Sound(c)}
    <3>1. 0 \in V
      BY RunAllSteps
    <3>2. ASSUME NEW n \in 1..j, n - 1 \in V PROVE n \in V
      <4>1. n - 1 \in Nat /\ (n - 1) + 1 = n
        OBVIOUS
      <4>2. r(n) = Pass(c, r(n - 1))
        BY <4>1, RunAllSteps
      <4> HIDE DEF r
      <4>3. r(n - 1) \in Sound(c)
        BY <3>2
      <4> QED
        BY <4>2, <4>3, PassKeeps DEF Sound, RunOK
    <3> HIDE DEF V
    <3>3. j \in V
      BY <3>1, <3>2, UpToAll
    <3> QED
      BY <3>3 DEF V
  <2> HIDE DEF a
  <2>2. 0 \in U
    BY <2>1, RunAllSteps DEF a
  <2>3. ASSUME NEW n \in 1..k, n - 1 \in U PROVE n \in U
    <3>1. n - 1 \in Nat /\ (n - 1) + 1 = n /\ j + (n - 1) \in Nat /\ (j + (n - 1)) + 1 = j + n
      OBVIOUS
    <3>2. RunAll(c, q, j + n) = Pass(c, RunAll(c, q, j + (n - 1)))
      BY <3>1, RunAllSteps
    <3>3. RunAll(c, a, n) = Pass(c, RunAll(c, a, n - 1))
      BY <2>1, <3>1, RunAllSteps
    <3> QED
      BY <2>3, <3>2, <3>3
  <2> HIDE DEF U
  <2>4. k \in U
    BY <2>2, <2>3, UpToAll
  <2> QED
    BY <2>4 DEF U, a
<1> QED
  BY <1>3, <1>4

-------------------------------------------------------------------------------
(* Every event takes one of the steps that the patients have before them.       *)
After(c, st, l) == \E k \in Route(c) : Along(c)[k] = st /\ k < l
Awaits(c, q, p, l) ==
  \/ \E e \in q.calendar : e.patient = p /\ (e.station = NoStation \/ After(c, e.station, l))
  \/ \E st \in Stations(c) : \E i \in DOMAIN q.queue[st] : q.queue[st][i] = p /\ After(c, st, l)
Steps(c, q) == {x \in Patients(c) \X (0..Cardinality(Stations(c))) : Awaits(c, q, x[1], x[2])}

\* Calling takes nobody a step back.
LEMMA CallingAwaits ==
  ASSUME NEW c, Net(c), NEW q \in Runs(c), NEW st \in Stations(c), NEW n, NEW r, Calling(c, q, st, n, r),
         NEW p, NEW l, Awaits(c, r, p, l)
  PROVE  Awaits(c, q, p, l)
<1> DEFINE w == q.queue[st]
           New(i) == Event(q.turn + c.service[st], q.seq + i, w[i], st)
<1>1. /\ r.calendar = q.calendar \cup {New(i) : i \in 1..n} /\ n \in Nat /\ n <= Len(w)
      /\ DOMAIN w = 1..Len(w) /\ Len(w) \in Nat
  BY RunTypes DEF Calling
<1>2. \A i \in 1..n : New(i).patient = w[i] /\ New(i).station = st /\ i \in DOMAIN w
  <2>1. \A i \in 1..n : i \in DOMAIN w
    BY <1>1
  <2> QED
    BY <2>1 DEF Event
<1>3. ASSUME NEW e \in r.calendar, e.patient = p, e.station = NoStation \/ After(c, e.station, l)
      PROVE  Awaits(c, q, p, l)
  <2>1. CASE e \in q.calendar
    BY <1>3, <2>1 DEF Awaits
  <2>2. CASE e \notin q.calendar
    <3>1. PICK i \in 1..n : e = New(i)
      BY <1>1, <2>2
    <3>2. e.station = st /\ i \in DOMAIN w /\ w[i] = p
      BY <1>2, <1>3, <3>1
    <3>3. st # NoStation
      BY DEF Net, Specified
    <3> QED
      BY <1>3, <3>2, <3>3 DEF Awaits
  <2> QED
    BY <2>1, <2>2
<1>4. ASSUME NEW t \in Stations(c), NEW i \in DOMAIN r.queue[t], r.queue[t][i] = p, After(c, t, l)
      PROVE  Awaits(c, q, p, l)
  <2>1. PICK d \in Nat : \A j \in DOMAIN r.queue[t] : d + j \in DOMAIN q.queue[t] /\ r.queue[t][j] = q.queue[t][d + j]
    BY CallingQueues
  <2>2. d + i \in DOMAIN q.queue[t] /\ q.queue[t][d + i] = p
    BY <1>4, <2>1
  <2> QED
    BY <1>4, <2>2 DEF Awaits
<1> QED
  BY <1>3, <1>4 DEF Awaits

\* Neither does a run whose stations call.
LEMMA TryStartAwaits ==
  ASSUME NEW c, Net(c), NEW q, NEW X, RunOK(c, q, X), NEW st \in Stations(c) \cup {NoStation},
         NEW p, NEW l, Awaits(c, TryStart(c, q, st), p, l)
  PROVE  Awaits(c, q, p, l)
<1>1. CASE st = NoStation
  BY <1>1 DEF TryStart
<1>2. CASE st \in Stations(c)
  <2>1. q \in Runs(c) /\ Booked(c, q) /\ Cardinality(q.serving[st]) <= c.capacity[st]
    BY <1>2 DEF RunOK, Manned
  <2>2. Calling(c, q, st, Called(c, q, st), TryStart(c, q, st))
    BY <1>2, <2>1, StartCalls
  <2> QED
    BY <1>2, <2>1, <2>2, CallingAwaits
<1> QED
  BY <1>1, <1>2

\* The patient of an event has the step of the event behind it.
LEMMA MovedAwaits ==
  ASSUME NEW c, Net(c), NEW q \in Runs(c), Booked(c, q), Timed(c, q), NEW e \in q.calendar, NEW m, Moved(c, q, e, m)
  PROVE  \E a \in 0..Cardinality(Stations(c)) :
           /\ Awaits(c, q, e.patient, a)
           /\ \A p, l : l \in 0..Cardinality(Stations(c)) /\ Awaits(c, m, p, l)
                          => Awaits(c, q, p, l) /\ ~(p = e.patient /\ l = a)
<1> DEFINE K == Cardinality(Stations(c))
           to == To(c, e)
<1>1. PICK a \in 0..K : IF e.station = NoStation THEN a = 0
                        ELSE \E k \in Route(c) : Along(c)[k] = e.station /\ a = k + 1
  <2>1. K \in Nat
    BY AlongSteps
  <2>2. CASE e.station = NoStation
    BY <2>1, <2>2
  <2>3. CASE e.station # NoStation
    <3>1. PICK k \in Route(c) : Along(c)[k] = e.station
      BY <2>3 DEF Timed
    <3>2. k \in Nat /\ k < K
      BY OnRoute
    <3>3. k + 1 \in 0..K
      BY <2>1, <3>2
    <3> QED
      BY <2>3, <3>1, <3>3
  <2> QED
    BY <2>2, <2>3
<1>2. Awaits(c, q, e.patient, a)
  <2>1. ASSUME e.station # NoStation PROVE After(c, e.station, a)
    <3>1. PICK k \in Route(c) : Along(c)[k] = e.station /\ a = k + 1
      BY <1>1, <2>1
    <3>2. k \in Nat /\ k < k + 1
      BY OnRoute
    <3> QED
      BY <3>1, <3>2 DEF After
  <2> QED
    BY <2>1 DEF Awaits
<1>3. m.calendar = q.calendar \ {e} /\ \A f, g \in q.calendar : f.patient = g.patient => f = g
  BY DEF Moved, Booked
<1>4. e.patient \notin Queued(c, q)
  BY MovedPlaces DEF Booked
<1>5. ASSUME NEW p, NEW l \in 0..K, Awaits(c, m, p, l)
      PROVE  Awaits(c, q, p, l) /\ ~(p = e.patient /\ l = a)
  <2>1. ASSUME NEW f \in m.calendar, f.patient = p, f.station = NoStation \/ After(c, f.station, l)
        PROVE  Awaits(c, q, p, l) /\ ~(p = e.patient /\ l = a)
    BY <1>3, <2>1 DEF Awaits
  <2>2. ASSUME NEW t \in Stations(c), NEW i \in DOMAIN m.queue[t], m.queue[t][i] = p, After(c, t, l)
        PROVE  Awaits(c, q, p, l) /\ ~(p = e.patient /\ l = a)
    <3>1. CASE i \in DOMAIN q.queue[t]
      <4>1. q.queue[t][i] = p
        <5>1. \A k \in 1..Len(q.queue[t]) : m.queue[t][k] = q.queue[t][k]
          BY MovedQueue
        <5>2. DOMAIN q.queue[t] = 1..Len(q.queue[t])
          BY MovedQueue
        <5> QED
          BY <2>2, <3>1, <5>1, <5>2
      <4>2. p # e.patient
        BY <1>4, <3>1, <4>1, InQueue
      <4> QED
        BY <2>2, <3>1, <4>1, <4>2 DEF Awaits
    <3>2. CASE i \notin DOMAIN q.queue[t]
      <4>1. t = to /\ p = e.patient
        <5>1. /\ t # to => m.queue[t] = q.queue[t]
              /\ t = to => DOMAIN m.queue[t] = 1..(Len(q.queue[t]) + 1) /\ m.queue[t][Len(q.queue[t]) + 1] = e.patient
              /\ DOMAIN q.queue[t] = 1..Len(q.queue[t]) /\ Len(q.queue[t]) \in Nat
          BY MovedQueue
        <5> HIDE DEF to
        <5>2. t = to
          BY <2>2, <3>2, <5>1
        <5>3. i = Len(q.queue[t]) + 1
          <6>1. i \in 1..(Len(q.queue[t]) + 1) /\ i \notin 1..Len(q.queue[t])
            BY <2>2, <3>2, <5>1, <5>2
          <6> QED
            BY <5>1, <6>1
        <5> QED
          BY <2>2, <5>1, <5>2, <5>3
      <4>2. PICK k \in Route(c) : Along(c)[k] = to /\ k < l
        BY <2>2, <4>1 DEF After
      <4>3. k \in Nat /\ l \in Nat
        BY OnRoute
      <4>4. CASE e.station = NoStation
        <5>1. Awaits(c, q, p, l)
          BY <4>1, <4>4 DEF Awaits
        <5>2. l # a
          BY <1>1, <4>2, <4>3, <4>4
        <5> QED
          BY <5>1, <5>2
      <4>5. CASE e.station # NoStation
        <5>1. PICK j \in Route(c) : Along(c)[j] = e.station /\ a = j + 1
          BY <1>1, <4>5
        <5>2. to = c.next[e.station] /\ to # NoStation
          BY <4>1, <4>5, Goes DEF To
        <5>3. j \in Nat /\ Along(c)[j + 1] = to /\ j + 1 \in Route(c)
          BY <5>1, <5>2, OnRoute
        <5>4. k = j + 1
          BY <4>2, <5>3, RouteOnce
        <5>5. j < l /\ l # a
          BY <4>2, <4>3, <5>1, <5>3, <5>4
        <5>6. After(c, e.station, l)
          BY <5>1, <5>5 DEF After
        <5>7. Awaits(c, q, p, l)
          BY <4>1, <5>6 DEF Awaits
        <5> QED
          BY <5>5, <5>7
      <4> QED
        BY <4>4, <4>5
    <3> QED
      BY <3>1, <3>2
  <2> QED
    BY <1>5, <2>1, <2>2 DEF Awaits
<1> HIDE DEF K
<1>6. \A p, l : l \in 0..K /\ Awaits(c, m, p, l) => Awaits(c, q, p, l) /\ ~(p = e.patient /\ l = a)
  BY <1>5
<1> QED
  BY <1>2, <1>6 DEF K

\* There are no more steps before the patients than one for each of them and each
\* station, and one to arrive.
LEMMA StepsFinite ==
  ASSUME NEW c, Net(c), NEW q
  PROVE  /\ IsFiniteSet(Steps(c, q)) /\ Cardinality(Steps(c, q)) \in Nat
         /\ Len(c.patients) * (1 + Cardinality(Stations(c))) \in Nat
         /\ Cardinality(Steps(c, q)) <= Len(c.patients) * (1 + Cardinality(Stations(c)))
<1> DEFINE K == Cardinality(Stations(c))
           L == Len(c.patients)
           P == Patients(c)
<1>1. K \in Nat
  BY AlongSteps
<1>2. IsFiniteSet(P) /\ Cardinality(P) = L /\ L \in Nat
  <2>1. c.patients \in Seq(P) /\ \A i, j \in DOMAIN c.patients : c.patients[i] = c.patients[j] => i = j
    BY DEF Net, Specified, IsInjective
  <2>2. Len(c.patients) \in Nat
    BY <2>1
  <2>3. IsFiniteSet(ToSet(c.patients)) /\ Cardinality(ToSet(c.patients)) = Len(c.patients)
    <3> HIDE DEF P
    <3> QED
      BY <2>1, ListSet
  <2> QED
    BY <2>2, <2>3 DEF Patients
<1>3. IsFiniteSet(0..K) /\ Cardinality(0..K) = K + 1
  <2>1. IsFiniteSet(0..K) /\ Cardinality(0..K) = IF 0 > K THEN 0 ELSE K - 0 + 1
    BY <1>1, FS_Interval
  <2> QED
    BY <1>1, <2>1
<1>4. IsFiniteSet(P \X (0..K)) /\ Cardinality(P \X (0..K)) = L * (K + 1)
  <2> DEFINE S == 0..K
  <2> HIDE DEF K, L, P, S
  <2>1. IsFiniteSet(P \X S) /\ Cardinality(P \X S) = Cardinality(P) * Cardinality(S)
    BY <1>2, <1>3, FS_Product DEF S
  <2> QED
    BY <1>2, <1>3, <2>1 DEF S
<1>5. Steps(c, q) \subseteq P \X (0..K)
  BY DEF Steps
<1> HIDE DEF K, L, P
<1>6. IsFiniteSet(Steps(c, q)) /\ Cardinality(Steps(c, q)) <= L * (K + 1)
  BY <1>4, <1>5, FS_Subset
<1>7. L * (K + 1) \in Nat /\ K + 1 = 1 + K
  BY <1>1, <1>2
<1> QED
  BY <1>6, <1>7, FS_CardinalityType DEF K, L

\* An event leaves fewer steps.
LEMMA RunNextSteps ==
  ASSUME NEW c, Net(c), NEW q, RunOK(c, q, {}), q.calendar # {}
  PROVE  Cardinality(Steps(c, RunNext(c, q))) < Cardinality(Steps(c, q))
<1> DEFINE K == Cardinality(Stations(c))
           r == RunNext(c, q)
<1>1. q \in Runs(c) /\ Dated(q) /\ Booked(c, q) /\ Manned(c, q, {}) /\ Balanced(c, q) /\ Timed(c, q)
  BY DEF RunOK
<1>2. PICK e \in q.calendar : e = NextEvent(q) /\ \A f \in q.calendar : f.at >= e.at
  BY <1>1, NextIsFirst
<1>3. PICK m : Moved(c, q, e, m) /\ r = TryStart(c, TryStart(c, m, e.station), To(c, e))
  BY <1>1, <1>2, NextMoves
<1>4. RunOK(c, m, {e.station, To(c, e)})
  <2>1. m \in Runs(c) /\ e.at >= q.turn
    BY <1>1, <1>3 DEF Moved, Dated
  <2>2. Dated(m) /\ Booked(c, m) /\ Manned(c, m, {e.station, To(c, e)})
    BY <1>1, <1>2, <1>3, MovedDated, MovedBooked, MovedManned
  <2>3. Balanced(c, m) /\ Timed(c, m)
    BY <1>1, <1>3, <2>1, MovedBalanced, MovedTimed
  <2> QED
    BY <2>1, <2>2, <2>3 DEF RunOK
<1>5. e.station \in Stations(c) \cup {NoStation} /\ To(c, e) \in Stations(c) \cup {NoStation}
  BY <1>1, Goes, RunTypes
<1> DEFINE x == TryStart(c, m, e.station)
           Y == {e.station, To(c, e)} \ {e.station}
<1>6. RunOK(c, x, Y)
  BY <1>4, <1>5, TryStartKeeps
<1>7. \A p, l : Awaits(c, x, p, l) => Awaits(c, m, p, l)
  BY <1>4, <1>5, TryStartAwaits
<1>8. \A p, l : Awaits(c, r, p, l) => Awaits(c, x, p, l)
  <2> HIDE DEF x, Y, r
  <2>1. r = TryStart(c, x, To(c, e))
    BY <1>3 DEF x
  <2> QED
    BY <1>5, <1>6, <2>1, TryStartAwaits
<1>9. PICK a \in 0..K : /\ Awaits(c, q, e.patient, a)
                        /\ \A p, l : l \in 0..K /\ Awaits(c, m, p, l)
                             => Awaits(c, q, p, l) /\ ~(p = e.patient /\ l = a)
  BY <1>1, <1>3, MovedAwaits
<1>10. e.patient \in Patients(c)
  BY <1>1, RunTypes
<1> HIDE DEF x, r, K
<1>11. Steps(c, r) \subseteq Steps(c, q) \ {<<e.patient, a>>} /\ <<e.patient, a>> \in Steps(c, q)
  <2>1. <<e.patient, a>> \in Steps(c, q)
    BY <1>9, <1>10 DEF Steps, K
  <2>2. ASSUME NEW y \in Steps(c, r) PROVE y \in Steps(c, q) /\ y # <<e.patient, a>>
    <3>1. y \in Patients(c) \X (0..K) /\ Awaits(c, r, y[1], y[2])
      BY DEF Steps, K
    <3>2. y[2] \in 0..K /\ Awaits(c, m, y[1], y[2])
      BY <1>7, <1>8, <3>1
    <3>3. Awaits(c, q, y[1], y[2]) /\ ~(y[1] = e.patient /\ y[2] = a)
      BY <1>9, <3>2
    <3> QED
      BY <3>1, <3>3 DEF Steps, K
  <2> QED
    BY <2>1, <2>2
<1>12. /\ IsFiniteSet(Steps(c, q)) /\ Cardinality(Steps(c, q)) \in Nat /\ Cardinality(Steps(c, r)) \in Nat
  BY StepsFinite
<1> DEFINE B == Steps(c, q) \ {<<e.patient, a>>}
<1>13. IsFiniteSet(B) /\ Cardinality(B) = Cardinality(Steps(c, q)) - 1
  BY <1>11, <1>12, FS_RemoveElement
<1>14. Cardinality(Steps(c, r)) <= Cardinality(B)
  BY <1>11, <1>13, FS_Subset
<1> QED
  BY <1>12, <1>13, <1>14 DEF r

\* A simulation ends: after as many events as there are steps its calendar is
\* empty.
LEMMA RunAllEnds ==
  ASSUME NEW c, Net(c), NEW q \in Sound(c),
         NEW N \in Nat, N >= Len(c.patients) * (1 + Cardinality(Stations(c)))
  PROVE  RunAll(c, q, N).calendar = {}
<1> DEFINE M == Len(c.patients) * (1 + Cardinality(Stations(c)))
           r(n) == RunAll(c, q, n)
           T == {n \in 0..N : r(n).calendar = {} \/ Cardinality(Steps(c, r(n))) + n <= M}
<1>1. M \in Nat /\ \A x : Cardinality(Steps(c, x)) \in Nat /\ Cardinality(Steps(c, x)) <= M
  BY StepsFinite
<1> HIDE DEF M
<1>2. 0 \in T
  <2> DEFINE C == Cardinality(Steps(c, r(0)))
  <2>1. C \in Nat /\ C <= M
    BY <1>1
  <2> HIDE DEF C
  <2>2. C + 0 <= M
    BY <2>1
  <2> QED
    BY <2>2 DEF C
<1>3. ASSUME NEW n \in 1..N, n - 1 \in T PROVE n \in T
  <2>1. n - 1 \in Nat /\ (n - 1) + 1 = n
    OBVIOUS
  <2> DEFINE x == r(n - 1)
  <2>2. r(n) = Pass(c, x)
    BY <2>1, RunAllSteps
  <2>3. x \in Sound(c)
    BY <2>1, RunAllFacts
  <2>4. x.calendar = {} \/ Cardinality(Steps(c, x)) + (n - 1) <= M
    BY <1>3
  <2> HIDE DEF x, r
  <2>5. CASE x.calendar = {}
    BY <2>2, <2>5 DEF Pass
  <2>6. CASE x.calendar # {}
    <3>1. r(n) = RunNext(c, x) /\ RunOK(c, x, {})
      BY <2>2, <2>3, <2>6 DEF Pass, Sound
    <3>2. Cardinality(Steps(c, r(n))) < Cardinality(Steps(c, x))
      BY <2>6, <3>1, RunNextSteps
    <3>3. Cardinality(Steps(c, r(n))) \in Nat /\ Cardinality(Steps(c, x)) \in Nat
      BY <1>1
    <3>4. Cardinality(Steps(c, r(n))) + n <= M
      BY <1>1, <2>4, <2>6, <3>2, <3>3
    <3> QED
      BY <3>4
  <2> QED
    BY <2>5, <2>6
<1>4. N \in T
  <2> HIDE DEF T
  <2>1. \A n \in 0..N : n \in T
    BY <1>2, <1>3, UpToAll
  <2> QED
    BY <2>1
<1>5. ASSUME r(N).calendar # {} PROVE FALSE
  <2> DEFINE x == r(N)
  <2>1. x \in Sound(c) /\ Cardinality(Steps(c, x)) + N <= M
    BY <1>4, <1>5, RunAllFacts
  <2>2. Cardinality(Steps(c, RunNext(c, x))) < Cardinality(Steps(c, x))
    BY <1>5, <2>1, RunNextSteps DEF Sound
  <2>3. Cardinality(Steps(c, x)) \in Nat /\ Cardinality(Steps(c, RunNext(c, x))) \in Nat /\ N >= M
    BY <1>1 DEF M
  <2> HIDE DEF x
  <2> QED
    BY <1>1, <2>1, <2>2, <2>3
<1> QED
  BY <1>5

-------------------------------------------------------------------------------
(* What the books say.                                                          *)

\* When the calendar is empty everybody is discharged.
LEMMA EmptyIsOver ==
  ASSUME NEW c, Net(c), NEW q \in Sound(c), q.calendar = {}
  PROVE  ToSet(q.completed) = Patients(c)
<1>1. q \in Runs(c) /\ Booked(c, q) /\ Manned(c, q, {})
  BY DEF Sound, RunOK
<1>2. Expecting(q) = {}
  BY DEF Expecting
<1>3. ASSUME NEW p \in Queued(c, q) PROVE FALSE
  <2>1. PICK st \in Stations(c) : \E i \in DOMAIN q.queue[st] : p = q.queue[st][i]
    BY InQueue
  <2>2. q.queue[st] # <<>>
    BY <2>1
  <2>3. Cardinality(q.serving[st]) = c.capacity[st]
    BY <1>1, <2>2 DEF Manned
  <2>4. q.serving[st] = {}
    BY <1>1 DEF Booked
  <2>5. Cardinality(q.serving[st]) = 0 /\ c.capacity[st] \in Nat \ {0}
    BY <1>1, <2>4, FS_EmptySet, RunTypes
  <2> QED
    BY <2>3, <2>5
<1> QED
  BY <1>1, <1>2, <1>3 DEF Booked, Discharged

\* Books in order put everybody in exactly one place.
LEMMA PlacesOne ==
  ASSUME NEW c, Net(c), NEW q \in Runs(c), Booked(c, q), NEW p \in Patients(c)
  PROVE  Cardinality(Places(c, q, p)) = 1
<1>1. Places(c, q, p) = Arriving(q, p) \cup Waits(c, q, p) \cup Attended(c, q, p) \cup Gone(q, p)
  BY DEF Places
<1>2. NoStation \notin Stations(c)
  BY DEF Net, Specified
<1>3. /\ p \in Expecting(q) \cup Queued(c, q) \cup Discharged(q)
      /\ Expecting(q) \cap Queued(c, q) = {} /\ Expecting(q) \cap Discharged(q) = {}
      /\ Queued(c, q) \cap Discharged(q) = {}
  BY DEF Booked
<1>4. p \notin Expecting(q) => Arriving(q, p) = {} /\ Attended(c, q, p) = {}
  BY DEF Booked, Expecting, Arriving, Attended
<1>5. ASSUME p \notin Queued(c, q) PROVE Waits(c, q, p) = {}
  <2>1. ASSUME NEW st \in Stations(c), NEW i \in 1..Len(q.queue[st]) PROVE q.queue[st][i] # p
    <3>1. i \in DOMAIN q.queue[st]
      BY RunTypes
    <3> QED
      BY <1>5, <3>1, InQueue
  <2> QED
    BY <2>1 DEF Waits
<1>6. ASSUME p \notin Discharged(q) PROVE Gone(q, p) = {}
  <2>1. \A i \in 1..Len(q.completed) : i \in DOMAIN q.completed
    BY RunTypes
  <2> QED
    BY <1>6, <2>1 DEF Gone, Discharged, ToSet
<1>7. CASE p \in Expecting(q)
  <2>1. PICK e \in q.calendar : e.patient = p
    BY <1>7 DEF Expecting
  <2>2. \A f \in q.calendar : f.patient = p => f = e
    BY <2>1 DEF Booked
  <2>3. Waits(c, q, p) = {} /\ Gone(q, p) = {}
    BY <1>3, <1>5, <1>6, <1>7
  <2>4. \A st \in Stations(c) : p \in q.serving[st] <=> e.station = st
    BY <2>1, <2>2 DEF Booked
  <2>5. CASE e.station = NoStation
    <3>1. Arriving(q, p) = {<<"coming", NoStation, e.seq>>}
      BY <2>1, <2>2, <2>5 DEF Arriving
    <3>2. Attended(c, q, p) = {}
      BY <1>2, <2>4, <2>5 DEF Attended
    <3>3. Places(c, q, p) = {<<"coming", NoStation, e.seq>>}
      BY <1>1, <2>3, <3>1, <3>2
    <3> QED
      BY <3>3, FS_Singleton
  <2>6. CASE e.station # NoStation
    <3>1. Arriving(q, p) = {}
      BY <2>2, <2>6 DEF Arriving
    <3>2. e.station \in Stations(c)
      BY <2>6, RunTypes
    <3>3. Attended(c, q, p) = {<<"served", e.station, 0>>}
      BY <2>4, <3>2 DEF Attended
    <3>4. Places(c, q, p) = {<<"served", e.station, 0>>}
      BY <1>1, <2>3, <3>1, <3>3
    <3> QED
      BY <3>4, FS_Singleton
  <2> QED
    BY <2>5, <2>6
<1>8. CASE p \in Queued(c, q)
  <2>1. PICK st \in Stations(c) : \E i \in DOMAIN q.queue[st] : p = q.queue[st][i]
    BY <1>8, InQueue
  <2>2. PICK i \in DOMAIN q.queue[st] : p = q.queue[st][i]
    BY <2>1
  <2>3. \A t \in Stations(c) : \A j \in 1..Len(q.queue[t]) : q.queue[t][j] = p => t = st /\ j = i
    <3>1. \A t \in Stations(c) : DOMAIN q.queue[t] = 1..Len(q.queue[t])
      BY RunTypes
    <3> QED
      BY <2>2, <3>1 DEF Booked
  <2>4. i \in 1..Len(q.queue[st])
    BY <2>2, RunTypes
  <2>5. \A x \in Waits(c, q, p) : x = <<"waiting", st, i>>
    BY <2>3 DEF Waits
  <2>6. <<"waiting", st, i>> \in Waits(c, q, p)
    <3>1. i \in {j \in 1..Len(q.queue[st]) : q.queue[st][j] = p}
      BY <2>2, <2>4
    <3>2. <<"waiting", st, i>> \in {<<"waiting", st, k>> : k \in {j \in 1..Len(q.queue[st]) : q.queue[st][j] = p}}
      BY <3>1
    <3> QED
      BY <3>2 DEF Waits
  <2>7. Places(c, q, p) = {<<"waiting", st, i>>}
    <3>1. Arriving(q, p) = {} /\ Attended(c, q, p) = {} /\ Gone(q, p) = {}
      BY <1>3, <1>4, <1>6, <1>8
    <3> QED
      BY <1>1, <2>5, <2>6, <3>1
  <2> QED
    BY <2>7, FS_Singleton
<1>9. CASE p \in Discharged(q)
  <2>1. PICK i \in DOMAIN q.completed : q.completed[i] = p
    BY <1>9 DEF Discharged, ToSet
  <2>2. DOMAIN q.completed = 1..Len(q.completed)
    BY RunTypes
  <2>3. \A j \in 1..Len(q.completed) : q.completed[j] = p => j = i
    BY <2>1, <2>2 DEF Booked
  <2>4. Gone(q, p) = {<<"gone", NoStation, i>>}
    BY <2>1, <2>2, <2>3 DEF Gone
  <2>5. Arriving(q, p) = {} /\ Attended(c, q, p) = {} /\ Waits(c, q, p) = {}
    BY <1>3, <1>4, <1>5, <1>9
  <2>6. Places(c, q, p) = {<<"gone", NoStation, i>>}
    BY <1>1, <2>4, <2>5
  <2> QED
    BY <2>6, FS_Singleton
<1> QED
  BY <1>3, <1>7, <1>8, <1>9

\* Books in order are what the properties of a simulation ask for.
LEMMA SoundBooks ==
  ASSUME NEW c, Net(c), NEW q \in Sound(c)
  PROVE  OnePlaceEach(c, q) /\ NoneIdle(c, q) /\ BooksBalance(c, q)
<1>1. q \in Runs(c) /\ Dated(q) /\ Booked(c, q) /\ Manned(c, q, {}) /\ Balanced(c, q) /\ Timed(c, q)
  BY DEF Sound, RunOK
<1>2. ASSUME NEW p \in Patients(c), NEW st \in Stations(c)
      PROVE  Cardinality({e \in q.calendar : e.patient = p /\ e.station = st}) = IF p \in q.serving[st] THEN 1 ELSE 0
  <2> DEFINE E == {e \in q.calendar : e.patient = p /\ e.station = st}
  <2>1. q.serving[st] = {e.patient : e \in {f \in q.calendar : f.station = st}}
    BY <1>1 DEF Booked
  <2>2. CASE p \in q.serving[st]
    <3>1. PICK e \in q.calendar : e.station = st /\ e.patient = p
      BY <2>1, <2>2
    <3>2. E = {e}
      BY <1>1, <3>1 DEF Booked
    <3> HIDE DEF E
    <3>3. Cardinality(E) = 1
      BY <3>2, FS_Singleton
    <3> QED
      BY <2>2, <3>3 DEF E
  <2>3. CASE p \notin q.serving[st]
    <3>1. E = {}
      BY <2>1, <2>3
    <3> HIDE DEF E
    <3>2. Cardinality(E) = 0
      BY <3>1, FS_EmptySet
    <3> QED
      BY <2>3, <3>2 DEF E
  <2> QED
    BY <2>2, <2>3
<1>3. OnePlaceEach(c, q)
  BY <1>1, <1>2, PlacesOne DEF OnePlaceEach
<1>4. NoneIdle(c, q)
  BY <1>1 DEF NoneIdle, Manned
<1>5. BooksBalance(c, q)
  <2>1. \A e \in q.calendar : e.at >= q.turn
    BY <1>1 DEF Dated
  <2>2. ASSUME NEW st \in Stations(c)
        PROVE  /\ \A i, j \in 1..Len(q.queue[st]) : i < j => q.since[q.queue[st][i]] <= q.since[q.queue[st][j]]
               /\ q.busy[st] = q.started[st] * c.service[st]
               /\ q.started[st] = q.finished[st] + Cardinality(q.serving[st])
    <3>1. DOMAIN q.queue[st] = 1..Len(q.queue[st])
      BY <1>1, RunTypes
    <3> QED
      BY <1>1, <3>1 DEF Balanced
  <2>3. \A p \in ToSet(q.completed) :
          q.gone[p] - c.arrival[p] = q.waited[p] + Served(c)[Cardinality(Stations(c)) + 1]
    BY <1>1 DEF Timed, Discharged
  <2> QED
    BY <2>1, <2>2, <2>3 DEF BooksBalance
<1> QED
  BY <1>3, <1>4, <1>5

-------------------------------------------------------------------------------
(* Every game.                                                                  *)

\* A game has the fields of a fresh one.
IsGame(g) ==
  \E c, phase, result, round, score, history, tell, s :
    g = [c |-> c, phase |-> phase, result |-> result, round |-> round, score |-> score,
         history |-> history, tell |-> tell, s |-> s]

\* What the opponent does next was chosen from what it may tell.
Announced(g, raised) ==
  \E h : /\ h.c = g.c /\ h.s = g.s
         /\ IF raised THEN Tells(h) = {} ELSE g.tell \in Tells(h)

\* How a setup and the play of a move may end.
SetUp(g, end) ==
  /\ IsGame(end.g) /\ end.g.c = g.c /\ end.g.phase = "ready" /\ end.g.result = "in_process"
  /\ end.g.round = 0 /\ end.g.history = Fresh(g.c).history /\ end.raised \in BOOLEAN
  /\ end.g.score = [player |-> 0, opponent |-> 0]
  /\ \/ end.raised /\ end.g.s = NoState /\ Openings(g.c) = {}
     \/ /\ end.g.s \in Openings(g.c) /\ (end.raised => Tells(end.g) = {})
        /\ Announced(end.g, end.raised)

Begun(g) == [g EXCEPT !.phase = "resolving", !.round = @ + 1]
Judged(g, m, o, out, h) ==
  /\ IsGame(h) /\ h.c = g.c /\ h.phase = "resolving" /\ h.round = g.round + 1 /\ h.s = out.s /\ h.score = out.score
  /\ h.history = Recorded(g.history, m, o, out.result) /\ h.result = g.result

Played(g, m, o, out, end) ==
  /\ IsGame(end.g) /\ end.g.c = g.c /\ end.g.s = out.s /\ end.g.score = out.score /\ end.g.round = g.round + 1
  /\ end.raised \in BOOLEAN
  /\ IF out.result = "raise"
     THEN end.raised /\ end.g.phase = "resolving" /\ end.g.history = g.history /\ end.g.result = g.result
     ELSE /\ end.g.history = Recorded(g.history, m, o, out.result)
          /\ \E h : Judged(g, m, o, out, h) /\ end.g.result = Evaluate(h)
          /\ IF end.g.result # "in_process" THEN end.g.phase = "terminal" /\ ~end.raised
             ELSE /\ end.g.phase = "ready" /\ (end.raised => Tells(end.g) = {})
                  /\ Announced(end.g, end.raised)

\* The fields of a game that is written out.
LEMMA GameFields ==
  ASSUME NEW c, NEW phase, NEW result, NEW round, NEW score, NEW history, NEW tell, NEW s, NEW g,
         g = [c |-> c, phase |-> phase, result |-> result, round |-> round, score |-> score,
              history |-> history, tell |-> tell, s |-> s]
  PROVE  /\ IsGame(g) /\ g.c = c /\ g.phase = phase /\ g.result = result /\ g.round = round
         /\ g.score = score /\ g.history = history /\ g.tell = tell /\ g.s = s
<1>1. IsGame(g)
  BY DEF IsGame
<1> QED
  BY <1>1

\* After the round the opponent chooses, or there is nothing to choose from.
LEMMA PreselectedGives ==
  ASSUME NEW g, IsGame(g), NEW end \in Preselected(g)
  PROVE  /\ IsGame(end.g) /\ end.g.c = g.c /\ end.g.phase = g.phase /\ end.g.result = g.result
         /\ end.g.round = g.round /\ end.g.history = g.history /\ end.g.s = g.s /\ end.g.score = g.score
         /\ end.raised \in BOOLEAN /\ (end.raised => Tells(end.g) = {}) /\ Announced(end.g, end.raised)
<1>1. CASE Tells(g) = {}
  <2>1. end = [g |-> g, raised |-> TRUE]
    BY <1>1 DEF Preselected, Raised
  <2>2. Announced(end.g, end.raised)
    BY <1>1, <2>1 DEF Announced
  <2> QED
    BY <1>1, <2>1, <2>2
<1>2. CASE Tells(g) # {}
  <2>1. PICK t \in Tells(g) : end = [g |-> [g EXCEPT !.tell = t], raised |-> FALSE]
    BY <1>2 DEF Preselected, Done
  <2> DEFINE h == [g EXCEPT !.tell = t]
  <2>2. PICK c, phase, result, round, score, history, tell, s :
          g = [c |-> c, phase |-> phase, result |-> result, round |-> round, score |-> score,
               history |-> history, tell |-> tell, s |-> s]
    BY DEF IsGame
  <2>3. h = [c |-> c, phase |-> phase, result |-> result, round |-> round, score |-> score,
             history |-> history, tell |-> t, s |-> s]
    BY <2>2
  <2> HIDE DEF h
  <2>4. end.g = h /\ end.raised = FALSE
    BY <2>1 DEF h
  <2>5. /\ IsGame(h) /\ h.c = c /\ h.phase = phase /\ h.result = result /\ h.round = round
        /\ h.score = score /\ h.history = history /\ h.s = s /\ h.tell = t
    BY <2>3, GameFields
  <2>6. /\ g.c = c /\ g.phase = phase /\ g.result = result /\ g.round = round
        /\ g.score = score /\ g.history = history /\ g.s = s
    BY <2>2, GameFields
  <2>7. Announced(end.g, end.raised)
    BY <2>1, <2>4, <2>5, <2>6 DEF Announced
  <2> QED
    BY <2>4, <2>5, <2>6, <2>7
<1> QED
  BY <1>1, <1>2

\* A setup gives a game that is ready, in a state that its rules may start in.
LEMMA SetupGives ==
  ASSUME NEW g, NEW end \in Setup(g)
  PROVE  SetUp(g, end)
<1> DEFINE ready == [Fresh(g.c) EXCEPT !.phase = "ready"]
           r(s) == [ready EXCEPT !.s = s]
<1>1. PICK history, score : ready = [c |-> g.c, phase |-> "ready", result |-> "in_process", round |-> 0,
               score |-> score, history |-> history, tell |-> NoMove, s |-> NoState]
  <2>1. PICK history, score : Fresh(g.c) = [c |-> g.c, phase |-> "pending", result |-> "in_process", round |-> 0,
               score |-> score, history |-> history, tell |-> NoMove, s |-> NoState]
    BY Zenon DEF Fresh
  <2>2. ready = [c |-> g.c, phase |-> "ready", result |-> "in_process", round |-> 0,
               score |-> score, history |-> history, tell |-> NoMove, s |-> NoState]
    BY <2>1
  <2> QED
    BY <2>2
<1>2. end \in IF Openings(g.c) = {} THEN {[g |-> ready, raised |-> TRUE]}
              ELSE UNION {Preselected(r(s)) : s \in Openings(g.c)}
  BY DEF Setup, Raised
<1>3. ASSUME NEW s
      PROVE  r(s) = [c |-> g.c, phase |-> "ready", result |-> "in_process", round |-> 0,
               score |-> score, history |-> history, tell |-> NoMove, s |-> s]
  <2> HIDE DEF ready
  <2> QED
    BY <1>1
<1>6. ready.history = Fresh(g.c).history
  BY DEF Fresh
<1>8. ready.score = [player |-> 0, opponent |-> 0]
  BY DEF Fresh
<1> HIDE DEF ready, r
<1>7. /\ IsGame(ready) /\ ready.c = g.c /\ ready.phase = "ready" /\ ready.result = "in_process"
      /\ ready.round = 0 /\ ready.history = history /\ ready.s = NoState /\ ready.score = score
  BY <1>1, GameFields
<1>4. CASE Openings(g.c) = {}
  <2>1. end.g = ready /\ end.raised = TRUE
    BY <1>2, <1>4
  <2> QED
    BY <1>6, <1>7, <1>8, <1>4, <2>1 DEF SetUp
<1>5. CASE Openings(g.c) # {}
  <2>1. PICK s \in Openings(g.c) : end \in Preselected(r(s))
    BY <1>2, <1>5
  <2>4. r(s) = [c |-> g.c, phase |-> "ready", result |-> "in_process", round |-> 0,
               score |-> score, history |-> history, tell |-> NoMove, s |-> s]
    BY <1>3
  <2>2. /\ IsGame(r(s)) /\ r(s).c = g.c /\ r(s).phase = "ready" /\ r(s).result = "in_process" /\ r(s).round = 0
        /\ r(s).history = history /\ r(s).s = s /\ r(s).score = score
    BY <2>4, GameFields
  <2>3. /\ IsGame(end.g) /\ end.g.c = g.c /\ end.g.phase = "ready" /\ end.g.result = "in_process"
        /\ end.g.round = 0 /\ end.g.history = history /\ end.g.s = s /\ end.g.score = score
        /\ end.raised \in BOOLEAN /\ (end.raised => Tells(end.g) = {}) /\ Announced(end.g, end.raised)
    BY <2>1, <2>2, PreselectedGives
  <2> QED
    BY <1>6, <1>7, <1>8, <2>1, <2>3 DEF SetUp
<1> QED
  BY <1>4, <1>5

\* The game that a move is played in.
LEMMA BegunGives ==
  ASSUME NEW g, IsGame(g)
  PROVE  /\ IsGame(Begun(g)) /\ Begun(g).c = g.c /\ Begun(g).phase = "resolving" /\ Begun(g).result = g.result
         /\ Begun(g).round = g.round + 1 /\ Begun(g).score = g.score /\ Begun(g).history = g.history
         /\ Begun(g).tell = g.tell /\ Begun(g).s = g.s
<1>1. PICK c, phase, result, round, score, history, tell, s :
          g = [c |-> c, phase |-> phase, result |-> result, round |-> round, score |-> score,
               history |-> history, tell |-> tell, s |-> s]
  BY DEF IsGame
<1>3. /\ g.c = c /\ g.phase = phase /\ g.result = result /\ g.round = round
      /\ g.score = score /\ g.history = history /\ g.tell = tell /\ g.s = s
  BY <1>1, GameFields
<1> DEFINE n == g.round + 1
<1>4. Begun(g) = [g EXCEPT !.phase = "resolving", !.round = n]
  BY <1>1 DEF Begun
<1>5. n = g.round + 1
  OBVIOUS
<1> HIDE DEF n
<1>2. Begun(g) = [c |-> c, phase |-> "resolving", result |-> result, round |-> n, score |-> score,
               history |-> history, tell |-> tell, s |-> s]
  BY <1>1, <1>4
<1> QED
  BY <1>2, <1>3, <1>5, GameFields

\* A move is played by one of the rounds that the rules allow.
LEMMA ReceiveGives ==
  ASSUME NEW g, IsGame(g), NEW m, NEW end \in ReceiveMove(g, m)
  PROVE  \E o \in Replies(Begun(g), m) : \E out \in Rounds(Begun(g), m, o) : Played(g, m, o, out, end)
<1> DEFINE b == Begun(g)
<1>1. PICK result, round, score, history, tell, s :
        b = [c |-> g.c, phase |-> "resolving", result |-> result, round |-> round, score |-> score,
             history |-> history, tell |-> tell, s |-> s]
  <2>1. PICK c, phase, result, round, score, history, tell, s :
          b = [c |-> c, phase |-> phase, result |-> result, round |-> round, score |-> score,
               history |-> history, tell |-> tell, s |-> s]
    BY BegunGives DEF IsGame
  <2> HIDE DEF b
  <2>2. b.c = c /\ b.phase = phase
    BY <2>1, GameFields
  <2>3. c = g.c /\ phase = "resolving"
    BY <2>2, BegunGives DEF b
  <2> QED
    BY <2>1, <2>3
<1>2. end \in UNION {UNION {Resolved(b, m, o, out) : out \in Rounds(b, m, o)} : o \in Replies(b, m)}
  BY DEF ReceiveMove, Begun
<1>13. b.result = g.result /\ b.round = g.round + 1 /\ b.history = g.history
  BY BegunGives
<1> HIDE DEF b
<1>14. result = g.result /\ round = g.round + 1 /\ history = g.history
  <2>1. b.result = result /\ b.round = round /\ b.history = history
    BY <1>1, GameFields
  <2> QED
    BY <1>13, <2>1
<1>3. PICK o \in Replies(b, m) : \E out \in Rounds(b, m, o) : end \in Resolved(b, m, o, out)
  BY <1>2
<1>4. PICK out \in Rounds(b, m, o) : end \in Resolved(b, m, o, out)
  BY <1>3
<1> DEFINE played == [b EXCEPT !.s = out.s, !.score = out.score]
           noted == [played EXCEPT !.history = Recorded(@, m, o, out.result)]
           judged == [noted EXCEPT !.result = Evaluate(noted)]
<1>5. end \in IF out.result = "raise" THEN {[g |-> played, raised |-> TRUE]}
              ELSE IF judged.result # "in_process" THEN {[g |-> [judged EXCEPT !.phase = "terminal"], raised |-> FALSE]}
              ELSE Preselected([judged EXCEPT !.phase = "ready"])
  BY <1>4 DEF Resolved, Done, Raised
<1> DEFINE os == out.s
           sc == out.score
           book == Recorded(history, m, o, out.result)
<1> HIDE DEF os, sc, book
<1>15. os = out.s /\ sc = out.score /\ book = Recorded(g.history, m, o, out.result)
  BY <1>14 DEF os, sc, book
<1>19. played = [b EXCEPT !.s = os, !.score = sc]
  BY DEF os, sc
<1>6. played = [c |-> g.c, phase |-> "resolving", result |-> result, round |-> round, score |-> sc,
                history |-> history, tell |-> tell, s |-> os]
  <2> HIDE DEF played
  <2> QED
    BY <1>1, <1>19
<1> HIDE DEF played
<1>16. /\ IsGame(played) /\ played.c = g.c /\ played.phase = "resolving" /\ played.result = result
       /\ played.round = round /\ played.score = sc /\ played.history = history /\ played.s = os
  BY <1>6, GameFields
<1>7. noted = [c |-> g.c, phase |-> "resolving", result |-> result, round |-> round, score |-> sc,
               history |-> book, tell |-> tell, s |-> os]
  BY <1>6, <1>16 DEF book
<1> HIDE DEF noted
<1>17. /\ IsGame(noted) /\ noted.c = g.c /\ noted.phase = "resolving" /\ noted.result = result
       /\ noted.round = round /\ noted.score = sc /\ noted.history = book /\ noted.s = os
  BY <1>7, GameFields
<1> DEFINE verdict == Evaluate(noted)
<1> HIDE DEF verdict
<1>8. judged = [c |-> g.c, phase |-> "resolving", result |-> verdict, round |-> round,
                score |-> sc, history |-> book, tell |-> tell, s |-> os]
  BY <1>7 DEF verdict
<1> HIDE DEF judged
<1>18. judged.result = verdict
  BY <1>8, GameFields
<1>9. Judged(g, m, o, out, noted) /\ verdict = Evaluate(noted)
  BY <1>14, <1>15, <1>17 DEF Judged, verdict
<1>10. CASE out.result = "raise"
  <2>1. end.g = played /\ end.raised = TRUE
    BY <1>5, <1>10
  <2>3. Played(g, m, o, out, end)
    BY <1>14, <1>15, <1>16, <1>10, <2>1 DEF Played
  <2> QED
    BY <1>4, <2>3 DEF b
<1>11. CASE out.result # "raise" /\ judged.result # "in_process"
  <2> DEFINE h == [judged EXCEPT !.phase = "terminal"]
  <2>1. end.g = h /\ end.raised = FALSE
    BY <1>5, <1>11
  <2>2. h = [c |-> g.c, phase |-> "terminal", result |-> verdict, round |-> round,
             score |-> sc, history |-> book, tell |-> tell, s |-> os]
    BY <1>8
  <2> HIDE DEF h
  <2>3. /\ IsGame(h) /\ h.c = g.c /\ h.phase = "terminal" /\ h.result = verdict
        /\ h.round = round /\ h.score = sc /\ h.history = book /\ h.s = os
    BY <2>2, GameFields
  <2>5. Played(g, m, o, out, end)
    BY <1>9, <1>11, <1>14, <1>15, <1>18, <2>1, <2>3 DEF Played
  <2> QED
    BY <1>4, <2>5 DEF b
<1>12. CASE out.result # "raise" /\ judged.result = "in_process"
  <2> DEFINE h == [judged EXCEPT !.phase = "ready"]
  <2>1. end \in Preselected(h)
    BY <1>5, <1>12
  <2>2. h = [c |-> g.c, phase |-> "ready", result |-> verdict, round |-> round,
             score |-> sc, history |-> book, tell |-> tell, s |-> os]
    BY <1>8
  <2> HIDE DEF h
  <2>3. /\ IsGame(h) /\ h.c = g.c /\ h.phase = "ready" /\ h.result = verdict
        /\ h.round = round /\ h.score = sc /\ h.history = book /\ h.s = os
    BY <2>2, GameFields
  <2>5. /\ IsGame(end.g) /\ end.g.c = h.c /\ end.g.phase = h.phase /\ end.g.result = h.result
        /\ end.g.round = h.round /\ end.g.history = h.history /\ end.g.s = h.s /\ end.g.score = h.score
        /\ end.raised \in BOOLEAN /\ (end.raised => Tells(end.g) = {}) /\ Announced(end.g, end.raised)
    BY <2>1, <2>3, PreselectedGives
  <2>6. Played(g, m, o, out, end)
    BY <1>9, <1>12, <1>14, <1>15, <1>18, <2>3, <2>5 DEF Played
  <2> QED
    BY <1>4, <2>6 DEF b
<1> QED
  BY <1>10, <1>11, <1>12

-------------------------------------------------------------------------------
(* A simulation in a game.                                                      *)

\* A game keeps a run that its rules reach from the opening by some passes, and
\* the metrics that were computed once it was over.
Kept(c, s) ==
  /\ s \in Sound(c)
  /\ s.metrics => s.calendar = {}
  /\ \E k \in Nat : [s EXCEPT !.metrics = FALSE] = RunAll(c, OpenQueue(c), k)

\* The metrics are not of the books.
LEMMA MetricsApart ==
  ASSUME NEW c, Net(c), NEW s \in Sound(c), NEW v \in BOOLEAN
  PROVE  /\ [s EXCEPT !.metrics = v] \in Sound(c) /\ [s EXCEPT !.metrics = v].calendar = s.calendar
         /\ [s EXCEPT !.metrics = v].metrics = v
         /\ s.metrics = v => [s EXCEPT !.metrics = v] = s
         /\ [[s EXCEPT !.metrics = v] EXCEPT !.metrics = FALSE] = [s EXCEPT !.metrics = FALSE]
<1> DEFINE t == [s EXCEPT !.metrics = v]
<1>1. s \in Runs(c) /\ RunOK(c, s, {})
  BY DEF Sound
<1>2. t \in Runs(c)
  BY <1>1 DEF Runs
<1>3. /\ t.turn = s.turn /\ t.seq = s.seq /\ t.calendar = s.calendar /\ t.queue = s.queue /\ t.serving = s.serving
      /\ t.started = s.started /\ t.finished = s.finished /\ t.busy = s.busy /\ t.since = s.since
      /\ t.waited = s.waited /\ t.gone = s.gone /\ t.completed = s.completed
  BY <1>1 DEF Runs
<1>4. t.metrics = v
  BY <1>1 DEF Runs
<1>5. s.metrics = v => t = s
  BY <1>1 DEF Runs
<1>6. [t EXCEPT !.metrics = FALSE] = [s EXCEPT !.metrics = FALSE]
  BY <1>1 DEF Runs
<1> HIDE DEF t
<1>7. Dated(t)
  BY <1>1, <1>3 DEF RunOK, Dated
<1>8. Booked(c, t)
  <2>1. Expecting(t) = Expecting(s) /\ Queued(c, t) = Queued(c, s) /\ Discharged(t) = Discharged(s)
    BY <1>3 DEF Expecting, Queued, Discharged
  <2> QED
    BY <1>1, <1>3, <2>1 DEF RunOK, Booked
<1>9. Manned(c, t, {}) /\ Balanced(c, t)
  BY <1>1, <1>3 DEF RunOK, Manned, Balanced
<1>10. Timed(c, t)
  <2>1. Discharged(t) = Discharged(s)
    BY <1>3 DEF Discharged
  <2> QED
    BY <1>1, <1>3, <2>1 DEF RunOK, Timed
<1>11. t \in Sound(c)
  BY <1>2, <1>7, <1>8, <1>9, <1>10 DEF Sound, RunOK
<1> QED
  BY <1>3, <1>4, <1>5, <1>6, <1>11 DEF t

\* The opening is a sound run.
LEMMA OpenIsSound ==
  ASSUME NEW c, Net(c)
  PROVE  OpenQueue(c) \in Sound(c) /\ OpenQueue(c).metrics = FALSE
BY OpenQueueOK DEF Sound, RunOK

\* A run from the opening is kept, with its metrics if it is over.
LEMMA KeptFinished ==
  ASSUME NEW c, Net(c), NEW k \in Nat
  PROVE  /\ Kept(c, RunAll(c, OpenQueue(c), k)) /\ Kept(c, Finished(RunAll(c, OpenQueue(c), k)))
<1> DEFINE open == OpenQueue(c)
           y == RunAll(c, open, k)
<1>6. open \in Sound(c) /\ open.metrics = FALSE
  BY OpenIsSound
<1> HIDE DEF open
<1>1. y \in Sound(c) /\ y.metrics = FALSE
  BY <1>6, RunAllFacts
<1>2. y = RunAll(c, OpenQueue(c), k)
  BY DEF open
<1> HIDE DEF y
<1>3. [y EXCEPT !.metrics = FALSE] = y
  BY <1>1, MetricsApart
<1>4. Kept(c, y)
  BY <1>1, <1>2, <1>3 DEF Kept
<1>5. Kept(c, Finished(y))
  <2>1. CASE y.calendar # {}
    BY <1>4, <2>1 DEF Finished
  <2>2. CASE y.calendar = {}
    <3> DEFINE z == [y EXCEPT !.metrics = TRUE]
    <3>1. Finished(y) = z
      BY <2>2 DEF Finished
    <3>2. /\ z \in Sound(c) /\ z.calendar = y.calendar
          /\ [z EXCEPT !.metrics = FALSE] = [y EXCEPT !.metrics = FALSE]
      BY <1>1, MetricsApart
    <3> HIDE DEF z
    <3>3. Kept(c, z)
      BY <1>2, <1>3, <2>2, <3>2 DEF Kept
    <3> QED
      BY <3>1, <3>3
  <2> QED
    BY <2>1, <2>2
<1> QED
  BY <1>2, <1>4, <1>5

\* Further passes keep it so, also after it is over.
LEMMA KeptRun ==
  ASSUME NEW c, Net(c), NEW s, Kept(c, s), NEW n \in Nat
  PROVE  Kept(c, Finished(RunAll(c, s, n)))
<1>1. PICK k \in Nat : [s EXCEPT !.metrics = FALSE] = RunAll(c, OpenQueue(c), k)
  BY DEF Kept
<1>2. s \in Sound(c)
  BY DEF Kept
<1>3. CASE s.metrics
  <2>1. s.calendar = {} /\ RunAll(c, s, n) = s
    BY <1>2, <1>3, RunAllFacts DEF Kept
  <2>2. s.metrics = TRUE
    BY <1>2, <1>3 DEF Sound, Runs
  <2>3. [s EXCEPT !.metrics = TRUE] = s
    BY <1>2, <2>2, MetricsApart
  <2> QED
    BY <2>1, <2>3 DEF Finished
<1>4. CASE ~s.metrics
  <2>1. s.metrics = FALSE
    BY <1>2, <1>4 DEF Sound, Runs
  <2>5. [s EXCEPT !.metrics = FALSE] = s
    BY <1>2, <2>1, MetricsApart
  <2>2. s = RunAll(c, OpenQueue(c), k)
    BY <1>1, <2>5
  <2> DEFINE open == OpenQueue(c)
  <2>6. open \in Sound(c) /\ s = RunAll(c, open, k)
    BY <2>2, OpenIsSound
  <2> HIDE DEF open
  <2>7. RunAll(c, open, k + n) = RunAll(c, RunAll(c, open, k), n)
    BY <2>6, RunAllFacts
  <2>3. RunAll(c, s, n) = RunAll(c, OpenQueue(c), k + n)
    BY <2>6, <2>7 DEF open
  <2>4. k + n \in Nat
    OBVIOUS
  <2> QED
    BY <2>3, <2>4, KeptFinished
<1> QED
  BY <1>3, <1>4

\* So does one event.
LEMMA KeptNext ==
  ASSUME NEW c, Net(c), NEW s, Kept(c, s), s.calendar # {}
  PROVE  Kept(c, Finished(RunNext(c, s)))
<1>1. s \in Sound(c)
  BY DEF Kept
<1>2. RunAll(c, s, 0) = s /\ RunAll(c, s, 0 + 1) = Pass(c, RunAll(c, s, 0))
  BY <1>1, RunAllSteps
<1>3. RunAll(c, s, 1) = RunNext(c, s)
  BY <1>2 DEF Pass
<1>4. Kept(c, Finished(RunAll(c, s, 1)))
  BY KeptRun
<1> QED
  BY <1>3, <1>4

\* What is kept has its books in order and ends where running all at once ends.
LEMMA KeptSound ==
  ASSUME NEW c, Net(c), NEW s, Kept(c, s)
  PROVE  /\ OnePlaceEach(c, s) /\ NoneIdle(c, s) /\ BooksBalance(c, s)
         /\ LET end == RunAll(c, s, c.limit)
            IN /\ end.calendar = {} => ToSet(end.completed) = Patients(c)
               /\ c.limit >= Len(c.patients) * (1 + Cardinality(Stations(c)))
                    => [end EXCEPT !.metrics = FALSE] = RunAll(c, OpenQueue(c), c.limit)
<1> DEFINE end == RunAll(c, s, c.limit)
           L == c.limit
           open == OpenQueue(c)
<1>1. s \in Sound(c) /\ L \in Nat
  BY DEF Kept, Net, Specified
<1>2. OnePlaceEach(c, s) /\ NoneIdle(c, s) /\ BooksBalance(c, s)
  BY <1>1, SoundBooks
<1>3. end \in Sound(c) /\ end.metrics = s.metrics /\ (s.calendar = {} => end = s)
  BY <1>1, RunAllFacts
<1>4. end.calendar = {} => ToSet(end.completed) = Patients(c)
  <2> HIDE DEF end
  <2> QED
    BY <1>3, EmptyIsOver
<1>5. ASSUME L >= Len(c.patients) * (1 + Cardinality(Stations(c)))
      PROVE  [end EXCEPT !.metrics = FALSE] = RunAll(c, open, L)
  <2>1. PICK k \in Nat : [s EXCEPT !.metrics = FALSE] = RunAll(c, open, k)
    BY DEF Kept
  <2>2. open \in Sound(c) /\ open.metrics = FALSE
    BY OpenIsSound
  <2> DEFINE y == RunAll(c, open, k)
             whole == RunAll(c, open, L)
  <2> HIDE DEF open
  <2>3. y \in Sound(c) /\ whole \in Sound(c) /\ y.metrics = FALSE /\ whole.metrics = FALSE
    <3>1. \A j \in Nat : RunAll(c, open, j) \in Sound(c) /\ RunAll(c, open, j).metrics = open.metrics
      BY <2>2, RunAllFacts
    <3> HIDE DEF L
    <3> QED
      BY <1>1, <2>2, <3>1
  <2>4. whole.calendar = {}
    BY <1>1, <1>5, <2>2, RunAllEnds
  <2>5. RunAll(c, open, L + k) = RunAll(c, whole, k) /\ RunAll(c, open, k + L) = RunAll(c, y, L)
    <3>1. \A j \in Nat, k2 \in Nat : RunAll(c, open, j + k2) = RunAll(c, RunAll(c, open, j), k2)
      BY <2>2, RunAllFacts
    <3> HIDE DEF L
    <3> QED
      BY <1>1, <3>1
  <2>6. RunAll(c, whole, k) = whole
    <3> HIDE DEF whole
    <3> QED
      BY <2>3, <2>4, RunAllFacts
  <2>7. RunAll(c, y, L) = whole
    <3>1. L + k = k + L
      BY <1>1
    <3> QED
      BY <2>5, <2>6, <3>1
  <2>8. [s EXCEPT !.metrics = FALSE] = y
    BY <2>1
  <2> HIDE DEF y, whole
  <2>9. CASE s.metrics
    <3>1. s.calendar = {} /\ end = s
      BY <1>3, <2>9 DEF Kept
    <3>4. [s EXCEPT !.metrics = FALSE].calendar = s.calendar
      BY <1>1, MetricsApart
    <3>2. y.calendar = {}
      BY <2>8, <3>1, <3>4
    <3>3. RunAll(c, y, L) = y
      BY <1>1, <2>3, <3>2, RunAllFacts
    <3> QED
      BY <2>7, <2>8, <3>1, <3>3 DEF whole
  <2>10. CASE ~s.metrics
    <3>1. s.metrics = FALSE
      BY <1>1, <2>10 DEF Sound, Runs
    <3>2. s = y
      BY <1>1, <2>8, <3>1, MetricsApart
    <3>3. end = whole
      BY <2>7, <3>2
    <3>4. [whole EXCEPT !.metrics = FALSE] = whole
      BY <2>3, MetricsApart
    <3> QED
      BY <3>3, <3>4 DEF whole
  <2> QED
    BY <2>9, <2>10
<1> QED
  BY <1>2, <1>4, <1>5

-------------------------------------------------------------------------------
(* The shape of a game, and the simulation in it.                               *)

\* The books of a history that every round has added a result to.
Told(h) == h.count \in Nat /\ (h.count # 0 => h.result \in {"win", "lose", "draw", "continue"})

\* A round has one of five results, and none raises but that of a simulation.
LEMMA RoundResults ==
  ASSUME NEW g, g.c.kind \in GameKinds, NEW m, g.c.kind = "trivial" => m \in TrivialMoves,
         NEW o, NEW out \in Rounds(g, m, o)
  PROVE  /\ out.result \in {"win", "lose", "draw", "continue", "raise"}
         /\ g.c.kind # "queue" => out.result # "raise"
<1> DEFINE Good(x) == x.result \in {"win", "lose", "draw", "continue"}
<1>0. \A s, mine, theirs, result : Outcome(g, s, mine, theirs, result).result = result
  BY DEF Outcome
<1>1. CASE g.c.kind = "trivial"
  <2>1. out = TrivialRound(g, m, o)
    BY <1>1 DEF Rounds
  <2> QED
    BY <1>0, <1>1, <2>1 DEF TrivialRound, TrivialMoves
<1>2. CASE g.c.kind = "throws"
  <2>1. out = ThrowRound(g, m, o)
    BY <1>2 DEF Rounds
  <2> QED
    BY <1>0, <2>1 DEF ThrowRound
<1>3. CASE g.c.kind = "nim"
  <2>1. out = NimRound(g, m, o)
    BY <1>3 DEF Rounds
  <2> QED
    BY <1>0, <2>1 DEF NimRound
<1>4. CASE g.c.kind = "bag"
  <2>1. out = BagRound(g, m, o)
    BY <1>4 DEF Rounds
  <2> QED
    BY <1>0, <2>1 DEF BagRound
<1>5. CASE g.c.kind = "siege"
  <2>1. out = SiegeRound(g, m, o)
    BY <1>5 DEF Rounds
  <2> DEFINE attack == IF g.s.initiative THEN m ELSE o
             defence == IF g.s.initiative THEN o ELSE m
             held == Resistance(g.c, defence, attack) - Pressure(g.c, attack, Present(g.c, defence), TRUE)
             after == IF held > 0 THEN ~g.s.initiative ELSE g.s.initiative
             s == [Clashed(g, m, o) EXCEPT !.initiative = after]
             result == IF held = 0 THEN "draw" ELSE IF g.s.initiative = (held < 0) THEN "win" ELSE "lose"
  <2>2. out = Outcome(g, s, Dealt(g, m, o), Dealt(g, o, m), result)
    BY <2>1 DEF SiegeRound
  <2>3. result \in {"draw", "win", "lose"}
    <3> HIDE DEF held
    <3> QED
      BY Zenon
  <2> HIDE DEF s, result
  <2> QED
    BY <1>0, <2>2, <2>3
<1>6. CASE g.c.kind = "corridor"
  <2>1. out = CorridorRound(g, m, o)
    BY <1>6 DEF Rounds
  <2>2. \E s, mine, theirs : \E result \in {"win", "lose", "continue"} : out = Outcome(g, s, mine, theirs, result)
    BY ZenonT(60), <2>1 DEF CorridorRound
  <2> QED
    BY <1>0, <2>2
<1>7. CASE g.c.kind = "phrases"
  <2>1. out = PhraseRound(g, m, o)
    BY <1>7 DEF Rounds
  <2> QED
    BY <1>0, <2>1 DEF PhraseRound
<1>8. CASE g.c.kind = "blackjack"
  <2>1. out \in BlackjackRounds(g, m)
    BY <1>8 DEF Rounds
  <2>2. ASSUME NEW s PROVE Good(Showdown(g, s))
    BY <1>0 DEF Showdown
  <2>3. \E s : \/ out = Outcome(g, s, 0, 1, "lose") \/ out = Outcome(g, s, 0, 0, "continue")
               \/ \E end : out = Showdown(g, end)
    BY <2>1 DEF BlackjackRounds
  <2> QED
    BY <1>0, <2>2, <2>3
<1>9. CASE g.c.kind = "kim"
  <2>1. out = KimRound(g, m)
    BY <1>9 DEF Rounds
  <2> QED
    BY <1>0, <2>1 DEF KimRound
<1>10. CASE g.c.kind = "incremental"
  <2>1. out = IncrementalRound(g, m)
    BY <1>10 DEF Rounds
  <2>2. Good(EndCycle(g))
    BY <1>0 DEF EndCycle
  <2>3. out = EndCycle(g) \/ \E s : out = Outcome(g, s, 0, 0, "continue")
    BY <2>1, Zenon DEF IncrementalRound
  <2> QED
    BY <1>0, <2>2, <2>3
<1>11. CASE g.c.kind = "queue"
  <2>1. out = QueueRound(g, m)
    BY <1>11 DEF Rounds
  <2> QED
    BY <1>0, <1>11, <2>1 DEF QueueRound
<1>12. CASE g.c.kind = "credentials"
  <2>1. out = CheckpointRound(g, m)
    BY <1>12 DEF Rounds
  <2> QED
    BY <1>0, <2>1 DEF CheckpointRound
<1> QED
  BY <1>1, <1>2, <1>3, <1>4, <1>5, <1>6, <1>7, <1>8, <1>9, <1>10, <1>11, <1>12 DEF GameKinds

\* The scoring gives a result, whatever the strategy.
LEMMA EvaluateResults ==
  ASSUME NEW g, Told(g.history)
  PROVE  Evaluate(g) \in Results
<1>1. BestOf(g) \in Results
  BY DEF BestOf, Results
<1>2. FirstTo(g) \in Results
  BY DEF FirstTo, Results
<1>3. HighestAfter(g) \in Results
  BY DEF HighestAfter, Results
<1>4. SingleRound(g) \in Results
  BY DEF SingleRound, Results, Told
<1>5. ForceLeft(g) \in Results
  BY DEF ForceLeft, Results
<1>6. IncrementalResult(g) \in Results
  BY DEF IncrementalResult, Results
<1>7. ShiftResult(g) \in Results
  BY DEF ShiftResult, Results
<1> QED
  BY <1>1, <1>2, <1>3, <1>4, <1>5, <1>6, <1>7 DEF Evaluate, Results

\* A simulation with a net that setup accepts.
Simulates(c) == c.kind = "queue" /\ ValidNet(c)

\* The shape of a game, with what its history says; what a simulation keeps.
Shaped(g) ==
  /\ IsGame(g) /\ g.c \in Configs /\ g.phase \in Phases /\ g.result \in Results /\ g.round \in Nat /\ Told(g.history)
  /\ Simulates(g.c) =>
       IF g.phase = "pending" THEN g.s = NoState
       ELSE Kept(g.c, g.s)

\* What the block offers is apt: a simulation steps on only while it has events.
Apt(g, offered) ==
  /\ g.c.kind = "trivial" => offered \subseteq TrivialMoves
  /\ Simulates(g.c) /\ g.phase = "ready" /\ "run_next" \in offered => g.s.calendar # {}

\* A kept run is a state.
LEMMA KeptIsState ==
  ASSUME NEW c, NEW s, Kept(c, s)
  PROVE  s # NoState
<1>1. "turn" \in DOMAIN s
  BY DEF Kept, Sound, Runs
<1>2. "turn" \notin DOMAIN NoState
  BY DEF NoState
<1> QED
  BY <1>1, <1>2

\* A setup leaves a game in shape.
LEMMA SetupShaped ==
  ASSUME ConfigsAssumption, NEW g, Shaped(g), NEW end \in Setup(g)
  PROVE  Shaped(end.g) /\ end.g.c = g.c
<1>1. SetUp(g, end)
  BY SetupGives
<1>2. IsGame(end.g) /\ end.g.c = g.c /\ end.g.phase = "ready" /\ end.g.result = "in_process" /\ end.g.round = 0
  BY <1>1 DEF SetUp
<1>3. Told(end.g.history)
  <2>1. Fresh(g.c).history.count = 0
    BY DEF Fresh
  <2> QED
    BY <1>1, <2>1 DEF SetUp, Told
<1>4. ASSUME Simulates(g.c) PROVE Kept(g.c, end.g.s)
  <2>1. Openings(g.c) = {OpenQueue(g.c)}
    BY <1>4 DEF Openings, Simulates
  <2>2. end.g.s = OpenQueue(g.c)
    BY <1>1, <2>1 DEF SetUp
  <2>3. Net(g.c)
    BY <1>4 DEF Net, Simulates, ConfigsAssumption, Shaped
  <2>4. RunAll(g.c, OpenQueue(g.c), 0) = OpenQueue(g.c)
    BY <2>3, OpenIsSound, RunAllSteps
  <2> QED
    BY <2>2, <2>3, <2>4, KeptFinished
<1> QED
  BY <1>2, <1>3, <1>4 DEF Shaped, Phases, Results

\* A round of a simulation keeps its run, whether it raises or not.
LEMMA QueueRoundKeeps ==
  ASSUME NEW g, Net(g.c), Kept(g.c, g.s), NEW m, m = "run_next" => g.s.calendar # {}
  PROVE  Kept(g.c, QueueRound(g, m).s)
<1> DEFINE ran == IF m = "run_next" THEN Finished(RunNext(g.c, g.s)) ELSE Finished(RunAll(g.c, g.s, g.c.limit))
<1>1. g.s # NoState
  BY KeptIsState
<1>2. QueueRound(g, m).s = ran
  BY <1>1 DEF QueueRound, Outcome
<1>3. CASE m = "run_next"
  BY <1>2, <1>3, KeptNext
<1>4. CASE m # "run_next"
  <2>1. g.c.limit \in Nat
    BY DEF Net, Specified
  <2> QED
    BY <1>2, <1>4, <2>1, KeptRun
<1> QED
  BY <1>3, <1>4

\* A move leaves a game in shape.
LEMMA ReceiveShaped ==
  ASSUME ConfigsAssumption, NEW g, Shaped(g), g.phase = "ready", NEW m, g.c.kind = "trivial" => m \in TrivialMoves,
         Simulates(g.c) /\ m = "run_next" => g.s.calendar # {}, NEW end \in ReceiveMove(g, m)
  PROVE  Shaped(end.g) /\ end.g.c = g.c /\ (end.raised /\ Simulates(g.c) => end.g.phase = "resolving")
<1> DEFINE b == Begun(g)
<1>1. IsGame(g) /\ g.c \in Configs /\ g.result \in Results /\ g.round \in Nat /\ Told(g.history)
  BY DEF Shaped
<1>2. PICK o \in Replies(b, m) : \E out \in Rounds(b, m, o) : Played(g, m, o, out, end)
  BY <1>1, ReceiveGives
<1>3. PICK out \in Rounds(b, m, o) : Played(g, m, o, out, end)
  BY <1>2
<1>4. b.c = g.c /\ b.s = g.s
  BY <1>1, BegunGives
<1> HIDE DEF b
<1>5. g.c.kind \in GameKinds
  BY <1>1 DEF ConfigsAssumption
<1>6. out.result \in {"win", "lose", "draw", "continue", "raise"}
  BY <1>3, <1>4, <1>5, RoundResults
<1>7. /\ IsGame(end.g) /\ end.g.c = g.c /\ end.g.s = out.s /\ end.g.round = g.round + 1
      /\ end.g.phase \in {"resolving", "terminal", "ready"}
  BY <1>3 DEF Played
<1>8. Told(end.g.history) /\ end.g.result \in Results
  <2>1. CASE out.result = "raise"
    BY <1>1, <1>3, <2>1 DEF Played
  <2>2. CASE out.result # "raise"
    <3> DEFINE book == Recorded(g.history, m, o, out.result)
    <3>1. book.count = g.history.count + 1 /\ book.result = out.result
      BY DEF Recorded
    <3> HIDE DEF book
    <3>2. Told(book)
      BY <1>1, <1>6, <2>2, <3>1 DEF Told
    <3>3. end.g.history = book
      BY <1>3, <2>2 DEF Played, book
    <3>4. PICK h : Judged(g, m, o, out, h) /\ end.g.result = Evaluate(h)
      BY <1>3, <2>2 DEF Played
    <3>5. h.history = book
      BY <3>4 DEF Judged, book
    <3>6. Evaluate(h) \in Results
      BY <3>2, <3>5, EvaluateResults
    <3> QED
      BY <3>2, <3>3, <3>4, <3>6
  <2> QED
    BY <2>1, <2>2
<1>9. ASSUME Simulates(g.c) PROVE Kept(g.c, end.g.s)
  <2>1. out = QueueRound(b, m)
    BY <1>3, <1>4, <1>9 DEF Rounds, Simulates
  <2>2. Net(g.c) /\ Kept(g.c, g.s)
    BY <1>1, <1>9 DEF Net, Simulates, ConfigsAssumption, Shaped
  <2>3. Kept(b.c, QueueRound(b, m).s)
    BY <1>4, <1>9, <2>2, QueueRoundKeeps
  <2> QED
    BY <1>4, <1>7, <2>1, <2>3
<1>10. ASSUME end.raised, Simulates(g.c) PROVE end.g.phase = "resolving"
  <2>1. Tells(end.g) = {NoMove}
    BY <1>7, <1>10 DEF Tells, Simulates
  <2> QED
    BY <1>3, <1>10, <2>1 DEF Played
<1> QED
  BY <1>1, <1>7, <1>8, <1>9, <1>10 DEF Shaped, Phases

\* A frame projects actions that are apt.
LEMMA ProjectedApt ==
  ASSUME NEW g, Shaped(g)
  PROVE  Apt(g, Projected(g))
<1>1. ASSUME g.c.kind = "trivial" PROVE Projected(g) \subseteq TrivialMoves
  BY <1>1 DEF Projected, Provisioned, Moves
<1>2. ASSUME Simulates(g.c), g.phase = "ready", "run_next" \in Projected(g) PROVE g.s.calendar # {}
  <2>1. "run_next" \in QueueMoves(g)
    BY <1>2 DEF Projected, Provisioned, Moves, Simulates
  <2>2. g.s # NoState
    BY <1>2, KeptIsState DEF Shaped
  <2> QED
    BY <2>1, <2>2 DEF QueueMoves
<1> QED
  BY <1>1, <1>2 DEF Apt

-------------------------------------------------------------------------------
(* The invariant.                                                               *)
GamesInv ==
  /\ Shaped(game) /\ Apt(game, actions)
  /\ place \in {"block", "outside"} /\ keeps \in BOOLEAN

\* A game starts in shape.
LEMMA GamesInit == ASSUME ConfigsAssumption, Init PROVE GamesInv
<1>1. PICK c \in Configs : game = Fresh(c)
  BY DEF Init
<1>2. PICK score, history :
        /\ game = [c |-> c, phase |-> "pending", result |-> "in_process", round |-> 0, score |-> score,
                   history |-> history, tell |-> NoMove, s |-> NoState]
        /\ history.count = 0
  <2>1. PICK score, history :
          /\ Fresh(c) = [c |-> c, phase |-> "pending", result |-> "in_process", round |-> 0, score |-> score,
                         history |-> history, tell |-> NoMove, s |-> NoState]
          /\ history = [count |-> 0, win |-> 0, lose |-> 0, move |-> NoMove, reply |-> NoMove, result |-> "none"]
    BY Zenon DEF Fresh
  <2>2. history.count = 0
    BY <2>1
  <2> QED
    BY <1>1, <2>1, <2>2
<1>3. /\ IsGame(game) /\ game.c = c /\ game.phase = "pending" /\ game.result = "in_process" /\ game.round = 0
      /\ game.history = history /\ game.s = NoState
  BY <1>2, GameFields
<1>4. Told(game.history)
  BY <1>2, <1>3 DEF Told
<1>5. Shaped(game)
  BY <1>3, <1>4 DEF Shaped, Phases, Results
<1>6. Apt(game, actions) /\ place \in {"block", "outside"} /\ keeps \in BOOLEAN
  BY <1>3 DEF Init, Apt, ConfigsAssumption
<1> QED
  BY <1>5, <1>6 DEF GamesInv

\* A frame that ends, or that fails, leaves what the invariant asks for.
LEMMA EndsKeeps ==
  ASSUME GamesInv, NEW g, Shaped(g), Ends(g)
  PROVE  GamesInv'
<1>1. game' = g /\ actions' = Projected(g) /\ place' \in {"block", "outside"} /\ keeps' = keeps
  BY DEF Ends, Exit
<1>2. Shaped(game') /\ Apt(game', actions')
  BY <1>1, ProjectedApt
<1> QED
  BY <1>1, <1>2 DEF GamesInv, Shaped, Apt, Told, IsGame

LEMMA FailsKeeps ==
  ASSUME GamesInv, NEW g, NEW planned, Shaped(g), Apt(g, planned), Fails(g, planned)
  PROVE  GamesInv'
<1>1. place' = place /\ keeps' = keeps
  BY DEF Fails
<1>2. \/ game' = g /\ actions' = planned
      \/ game' = game /\ actions' = actions
  BY DEF Fails
<1>3. Shaped(game') /\ Apt(game', actions')
  BY <1>2 DEF GamesInv
<1> QED
  BY <1>1, <1>3 DEF GamesInv

\* Every frame keeps the invariant.
LEMMA GamesStep ==
  ASSUME ConfigsAssumption, GamesInv, [Next]_vars
  PROVE  GamesInv'
<1>1. Shaped(game) /\ Apt(game, actions) /\ Apt(game, Projected(game))
  BY ProjectedApt DEF GamesInv
<1>2. CASE Arrive
  <2>1. PICK end \in IF game.phase = "pending" THEN Setup(game) ELSE {Done(game)} :
          IF end.raised THEN Fails(end.g, Projected(game)) ELSE Ends(end.g)
    BY <1>2 DEF Arrive
  <2>2. CASE game.phase = "pending"
    <3>1. end \in Setup(game)
      BY <2>1, <2>2
    <3>2. Shaped(end.g)
      BY <1>1, <3>1, SetupShaped
    <3>3. Projected(game) = {} /\ Apt(end.g, {})
      BY <2>2 DEF Projected, Apt
    <3> QED
      BY <2>1, <3>2, <3>3, EndsKeeps, FailsKeeps
  <2>3. CASE game.phase # "pending"
    <3>1. end.g = game /\ ~end.raised
      BY <2>1, <2>3 DEF Done
    <3> QED
      BY <1>1, <2>1, <3>1, EndsKeeps
  <2> QED
    BY <2>2, <2>3
<1>3. CASE Choose
  <2>1. PICK a \in actions : \E m \in Submitted(game, a) :
          IF Refused(game, m) THEN Fails(game, Projected(game))
          ELSE \E end \in ReceiveMove(game, m) :
                 IF end.raised THEN Fails(end.g, Projected(game)) ELSE Ends(end.g)
    BY <1>3 DEF Choose
  <2>2. PICK m \in Submitted(game, a) :
          IF Refused(game, m) THEN Fails(game, Projected(game))
          ELSE \E end \in ReceiveMove(game, m) :
                 IF end.raised THEN Fails(end.g, Projected(game)) ELSE Ends(end.g)
    BY <2>1
  <2>3. CASE Refused(game, m)
    BY <1>1, <2>2, <2>3, FailsKeeps
  <2>4. CASE ~Refused(game, m)
    <3>1. PICK end \in ReceiveMove(game, m) :
            IF end.raised THEN Fails(end.g, Projected(game)) ELSE Ends(end.g)
      BY <2>2, <2>4
    <3>2. game.phase = "ready"
      BY <1>3 DEF Choose
    <3>3. game.c.kind \in {"trivial", "queue"} => m = a
      BY <2>2 DEF Submitted
    <3>4. game.c.kind = "trivial" => m \in TrivialMoves
      BY <1>1, <2>1, <3>3 DEF Apt
    <3>5. Simulates(game.c) /\ m = "run_next" => game.s.calendar # {}
      BY <1>1, <2>1, <3>2, <3>3 DEF Apt, Simulates
    <3>6. Shaped(end.g) /\ end.g.c = game.c /\ (end.raised /\ Simulates(game.c) => end.g.phase = "resolving")
      BY <1>1, <3>1, <3>2, <3>4, <3>5, ReceiveShaped
    <3>7. end.raised => Apt(end.g, Projected(game))
      BY <1>1, <3>6 DEF Apt
    <3> QED
      BY <3>1, <3>6, <3>7, EndsKeeps, FailsKeeps
  <2> QED
    BY <2>3, <2>4
<1>4. CASE ChooseStale
  BY <1>1, <1>4, EndsKeeps DEF ChooseStale
<1>5. CASE UNCHANGED vars
  BY <1>5 DEF vars, GamesInv
<1> QED
  BY <1>2, <1>3, <1>4, <1>5 DEF Next

(* Whatever frames succeed and fail, in sessions that keep what a failed one    *)
(* did and in those that do not, the game has its shape: its phase, its result  *)
(* and its counts are what the handlers give them (game_handler.py).            *)
THEOREM GamesAreTyped == Spec => []TypeOK
<1>1. Init => GamesInv
  BY GamesInit, ConfigsAssumption
<1>2. GamesInv /\ [Next]_vars => GamesInv'
  BY GamesStep, ConfigsAssumption
<1>3. GamesInv => TypeOK
  BY DEF GamesInv, Shaped, Told, TypeOK
<1> QED
  BY <1>1, <1>2, <1>3, PTL DEF Spec

(* A simulation of any net that setup accepts, with any number of patients and  *)
(* stations, keeps its books through every frame of its game: everybody is in   *)
(* one place, no station is idle while somebody waits, times add up; and where  *)
(* stepping through the events ends is where running all at once does, with     *)
(* everybody discharged (tangl.mechanics.simulation.queueing).                  *)
THEOREM SimulationsAreSound == Spec => []QueueSound
<1>1. Init => GamesInv
  BY GamesInit, ConfigsAssumption
<1>2. GamesInv /\ [Next]_vars => GamesInv'
  BY GamesStep, ConfigsAssumption
<1>3. GamesInv => QueueSound
  <2> SUFFICES ASSUME GamesInv, Simulating PROVE QueueSound
    BY DEF QueueSound
  <2>1. Simulates(game.c) /\ Shaped(game) /\ game.s # NoState
    BY DEF GamesInv, Simulating, Simulates
  <2>2. Kept(game.c, game.s)
    BY <2>1 DEF Shaped
  <2>3. Net(game.c)
    BY <2>1, ConfigsAssumption DEF Net, Simulates, Shaped, ConfigsAssumption
  <2> QED
    BY <2>2, <2>3, KeptSound DEF QueueSound
<1> QED
  BY <1>1, <1>2, <1>3, PTL DEF Spec

-------------------------------------------------------------------------------
(* Sums.                                                                        *)

\* A sum takes the members of a set in an order that depends on the set alone.
First(s) == CHOOSE x \in s : TRUE
Rest(s) == s \ {First(s)}

\* What the empty set has, and each finite set if its rest has, all have.
LEMMA SubsetsAll ==
  ASSUME NEW S, IsFiniteSet(S), NEW T, {} \in T, \A s \in SUBSET S : s # {} /\ Rest(s) \in T => s \in T
  PROVE  \A s \in SUBSET S : s \in T
<1> DEFINE N == Cardinality(S)
           U == {k \in 0..N : \A s \in SUBSET S : Cardinality(s) = k => s \in T}
<1>1. N \in Nat
  BY FS_CardinalityType
<1>2. \A s \in SUBSET S : IsFiniteSet(s) /\ Cardinality(s) \in 0..N
  BY <1>1, FS_Subset, FS_CardinalityType
<1>3. 0 \in U
  BY <1>1, <1>2, FS_EmptySet
<1>4. ASSUME NEW k \in 1..N, k - 1 \in U PROVE k \in U
  <2> SUFFICES ASSUME NEW s \in SUBSET S, Cardinality(s) = k PROVE s \in T
    BY <1>1
  <2>1. s # {}
    BY FS_EmptySet
  <2>2. First(s) \in s
    BY <2>1 DEF First
  <2>3. Cardinality(Rest(s)) = k - 1
    BY <1>2, <2>2, FS_RemoveElement DEF Rest
  <2>4. Rest(s) \in SUBSET S
    BY DEF Rest
  <2> QED
    BY <1>4, <2>1, <2>3, <2>4
<1> HIDE DEF U
<1>5. \A k \in 0..N : k \in U
  BY <1>1, <1>3, <1>4, UpToAll
<1> QED
  BY <1>2, <1>5 DEF U

\* a sums up f over the subsets of S.
Sums(S, f, a) ==
  /\ a \in [SUBSET S -> Int] /\ a[{}] = 0
  /\ \A s \in SUBSET S : s # {} => First(s) \in S /\ a[s] = f[First(s)] + a[Rest(s)]

\* A function of integers can be summed up.
LEMMA SumsExist ==
  ASSUME NEW S, IsFiniteSet(S), NEW f \in [S -> Int]
  PROVE  \E a : Sums(S, f, a)
<1> DEFINE N == Cardinality(S)
           Z(k) == {s \in SUBSET S : Cardinality(s) <= k}
           G(k, g) == /\ g \in [Z(k) -> Int] /\ g[{}] = 0
                      /\ \A s \in Z(k) : s # {} => g[s] = f[First(s)] + g[Rest(s)]
           T == {k \in 0..N : \E g : G(k, g)}
<1>1. N \in Nat
  BY FS_CardinalityType
<1>2. \A s \in SUBSET S : IsFiniteSet(s) /\ Cardinality(s) \in Nat /\ Cardinality(s) <= N
  BY <1>1, FS_Subset, FS_CardinalityType
<1>3. \A s \in SUBSET S : s # {} => First(s) \in s /\ Rest(s) \in SUBSET S /\ Cardinality(Rest(s)) = Cardinality(s) - 1
  <2> SUFFICES ASSUME NEW s \in SUBSET S, s # {}
               PROVE  First(s) \in s /\ Rest(s) \in SUBSET S /\ Cardinality(Rest(s)) = Cardinality(s) - 1
    OBVIOUS
  <2>1. First(s) \in s
    BY DEF First
  <2> QED
    BY <1>2, <2>1, FS_RemoveElement DEF Rest
<1>4. {} \in SUBSET S /\ Cardinality({}) = 0 /\ \A s \in SUBSET S : Cardinality(s) = 0 => s = {}
  BY <1>2, FS_EmptySet
<1>5. 0 \in T
  <2> DEFINE g == [s \in Z(0) |-> 0]
  <2>1. G(0, g)
    BY <1>2, <1>4
  <2> HIDE DEF g, G
  <2> QED
    BY <1>1, <2>1
<1>6. ASSUME NEW k \in 1..N, k - 1 \in T PROVE k \in T
  <2>1. PICK g : G(k - 1, g)
    BY <1>6
  <2> DEFINE h == [s \in Z(k) |-> IF s = {} THEN 0 ELSE f[First(s)] + g[Rest(s)]]
  <2>2. \A s \in Z(k) : s # {} => First(s) \in S /\ Rest(s) \in Z(k - 1) /\ Rest(s) \in Z(k)
    BY <1>2, <1>3
  <2>3. \A s \in Z(k) : s # {} => f[First(s)] \in Int /\ g[Rest(s)] \in Int
    BY <2>1, <2>2
  <2>4. h \in [Z(k) -> Int] /\ h[{}] = 0
    <3>1. \A s \in Z(k) : h[s] \in Int
      BY <2>3
    <3>2. {} \in Z(k)
      BY <1>4
    <3> QED
      BY <3>1, <3>2
  <2>5. \A t \in Z(k - 1) : t \in Z(k) /\ h[t] = g[t]
    <3> SUFFICES ASSUME NEW t \in Z(k - 1) PROVE t \in Z(k) /\ h[t] = g[t]
      OBVIOUS
    <3>1. t \in Z(k)
      BY <1>2
    <3>2. g[t] = IF t = {} THEN 0 ELSE f[First(t)] + g[Rest(t)]
      BY <2>1
    <3> QED
      BY <3>1, <3>2
  <2>6. \A s \in Z(k) : s # {} => h[s] = f[First(s)] + h[Rest(s)]
    <3> SUFFICES ASSUME NEW s \in Z(k), s # {} PROVE h[s] = f[First(s)] + h[Rest(s)]
      OBVIOUS
    <3>1. Rest(s) \in Z(k - 1)
      BY <2>2
    <3>2. h[Rest(s)] = g[Rest(s)]
      BY <2>5, <3>1
    <3> QED
      BY <3>2
  <2> HIDE DEF h
  <2>7. G(k, h)
    BY <2>4, <2>6
  <2> HIDE DEF G
  <2> QED
    BY <2>7
<1> HIDE DEF T
<1>7. \A k \in 0..N : k \in T
  BY <1>1, <1>5, <1>6, UpToAll
<1>8. PICK g : G(N, g)
  <2>1. N \in T
    BY <1>1, <1>7
  <2> QED
    BY <2>1 DEF T
<1>9. Z(N) = SUBSET S
  BY <1>2
<1>10. \A s \in SUBSET S : s # {} => First(s) \in S
  BY <1>3
<1> QED
  BY <1>8, <1>9, <1>10 DEF Sums

\* The sum of a function is what any such summing up gives for all of S.
LEMMA SumIs ==
  ASSUME NEW S, IsFiniteSet(S), NEW f \in [S -> Int]
  PROVE  \E a : Sums(S, f, a) /\ SumFunction(f) = a[S]
<1> DEFINE F(a) == a = [s \in SUBSET S |-> IF s = {} THEN 0 ELSE f[CHOOSE x \in s : TRUE] + a[s \ {CHOOSE x \in s : TRUE}]]
           b == CHOOSE a : F(a)
<1>1. SumFunction(f) = b[S]
  <2>1. DOMAIN f = S
    OBVIOUS
  <2> QED
    BY <2>1 DEF SumFunction, SumFunctionOnSet, FoldFunctionOnSet, MapThenFoldSet
<1>2. PICK a : Sums(S, f, a)
  BY SumsExist
<1>3. F(a)
  <2>1. \A s \in SUBSET S : a[s] = IF s = {} THEN 0 ELSE f[First(s)] + a[Rest(s)]
    BY <1>2 DEF Sums
  <2>2. a = [s \in SUBSET S |-> a[s]]
    BY <1>2 DEF Sums
  <2> QED
    BY <2>1, <2>2 DEF First, Rest
<1>4. F(b)
  <2> HIDE DEF F
  <2> QED
    BY <1>3
<1> HIDE DEF b
<1>5. b[{}] = 0 /\ \A s \in SUBSET S : s # {} => b[s] = f[First(s)] + b[Rest(s)]
  BY <1>4 DEF First, Rest
<1>6. b[S] = a[S]
  <2> DEFINE T == {s \in SUBSET S : b[s] = a[s]}
  <2>1. {} \in T
    BY <1>2, <1>5 DEF Sums
  <2>2. ASSUME NEW s \in SUBSET S, s # {}, Rest(s) \in T PROVE s \in T
    BY <1>2, <1>5, <2>2 DEF Sums
  <2> HIDE DEF T
  <2>3. \A s \in SUBSET S : s \in T
    BY <2>1, <2>2, SubsetsAll
  <2> QED
    BY <2>3 DEF T
<1> QED
  BY <1>1, <1>2, <1>6

\* A sum of integers is one; of natural numbers, a natural number.
LEMMA SumTypes ==
  ASSUME NEW S, IsFiniteSet(S), NEW f \in [S -> Int]
  PROVE  SumFunction(f) \in Int
<1>1. PICK a : Sums(S, f, a) /\ SumFunction(f) = a[S]
  BY SumIs
<1> QED
  BY <1>1 DEF Sums

\* Sums are of the two parts of each number.
LEMMA SumPlus ==
  ASSUME NEW S, IsFiniteSet(S), NEW f \in [S -> Int], NEW g \in [S -> Int], NEW h \in [S -> Int],
         \A x \in S : h[x] = f[x] + g[x]
  PROVE  SumFunction(h) = SumFunction(f) + SumFunction(g)
<1>1. PICK a : Sums(S, f, a) /\ SumFunction(f) = a[S]
  BY SumIs
<1>2. PICK b : Sums(S, g, b) /\ SumFunction(g) = b[S]
  BY SumIs
<1>3. PICK d : Sums(S, h, d) /\ SumFunction(h) = d[S]
  BY SumIs
<1> DEFINE T == {s \in SUBSET S : d[s] = a[s] + b[s]}
<1>4. {} \in T
  BY <1>1, <1>2, <1>3 DEF Sums
<1>5. ASSUME NEW s \in SUBSET S, s # {}, Rest(s) \in T PROVE s \in T
  <2>1. First(s) \in S /\ Rest(s) \in SUBSET S
    BY <1>1, <1>5 DEF Sums, Rest
  <2>2. /\ d[s] = h[First(s)] + d[Rest(s)] /\ a[s] = f[First(s)] + a[Rest(s)] /\ b[s] = g[First(s)] + b[Rest(s)]
    BY <1>1, <1>2, <1>3, <1>5 DEF Sums
  <2>3. /\ a[Rest(s)] \in Int /\ b[Rest(s)] \in Int /\ f[First(s)] \in Int /\ g[First(s)] \in Int
    BY <1>1, <1>2, <2>1 DEF Sums
  <2> QED
    BY <1>5, <2>1, <2>2, <2>3
<1> HIDE DEF T
<1>6. \A s \in SUBSET S : s \in T
  BY <1>4, <1>5, SubsetsAll
<1> QED
  BY <1>1, <1>2, <1>3, <1>6 DEF T

\* Sums of no less are no less.
LEMMA SumOrder ==
  ASSUME NEW S, IsFiniteSet(S), NEW f \in [S -> Int], NEW g \in [S -> Int], \A x \in S : f[x] <= g[x]
  PROVE  SumFunction(f) <= SumFunction(g)
<1>1. PICK a : Sums(S, f, a) /\ SumFunction(f) = a[S]
  BY SumIs
<1>2. PICK b : Sums(S, g, b) /\ SumFunction(g) = b[S]
  BY SumIs
<1> DEFINE T == {s \in SUBSET S : a[s] <= b[s]}
<1>4. {} \in T
  BY <1>1, <1>2 DEF Sums
<1>5. ASSUME NEW s \in SUBSET S, s # {}, Rest(s) \in T PROVE s \in T
  <2>1. First(s) \in S /\ Rest(s) \in SUBSET S
    BY <1>1, <1>5 DEF Sums, Rest
  <2>2. /\ a[s] = f[First(s)] + a[Rest(s)] /\ b[s] = g[First(s)] + b[Rest(s)]
    BY <1>1, <1>2, <1>5 DEF Sums
  <2>3. /\ a[Rest(s)] \in Int /\ b[Rest(s)] \in Int /\ f[First(s)] \in Int /\ g[First(s)] \in Int
    BY <1>1, <1>2, <2>1 DEF Sums
  <2> QED
    BY <1>5, <2>1, <2>2, <2>3
<1> HIDE DEF T
<1>6. \A s \in SUBSET S : s \in T
  BY <1>4, <1>5, SubsetsAll
<1> QED
  BY <1>1, <1>2, <1>6 DEF T

\* A sum of nothing.
LEMMA SumZero ==
  ASSUME NEW S, IsFiniteSet(S), NEW f \in [S -> Int], \A x \in S : f[x] = 0
  PROVE  SumFunction(f) = 0
<1> DEFINE x == SumFunction(f)
<1>1. x = x + x
  BY SumPlus
<1>2. x \in Int
  BY SumTypes
<1> HIDE DEF x
<1>3. x = 0
  BY <1>1, <1>2
<1> QED
  BY <1>3 DEF x

\* A sum in which one summand counts.
LEMMA SumOne ==
  ASSUME NEW S, IsFiniteSet(S), NEW x \in S, NEW f \in [S -> Int], \A y \in S \ {x} : f[y] = 0
  PROVE  SumFunction(f) = f[x]
<1>1. PICK a : Sums(S, f, a) /\ SumFunction(f) = a[S]
  BY SumIs
<1> DEFINE T == {s \in SUBSET S : a[s] = IF x \in s THEN f[x] ELSE 0}
<1>4. {} \in T
  BY <1>1 DEF Sums
<1>5. ASSUME NEW s \in SUBSET S, s # {}, Rest(s) \in T PROVE s \in T
  <2>1. First(s) \in S /\ Rest(s) \in SUBSET S /\ First(s) \in s
    BY <1>1, <1>5 DEF Sums, Rest, First
  <2>2. /\ a[s] = f[First(s)] + a[Rest(s)]
    BY <1>1, <1>5 DEF Sums
  <2>3. a[Rest(s)] = IF x \in Rest(s) THEN f[x] ELSE 0
    BY <1>5
  <2>4. x \in Rest(s) <=> x \in s /\ x # First(s)
    BY DEF Rest
  <2>5. First(s) # x => f[First(s)] = 0
    BY <2>1
  <2>6. a[s] = IF x \in s THEN f[x] ELSE 0
    BY <2>1, <2>2, <2>3, <2>4, <2>5
  <2> QED
    BY <2>6
<1> HIDE DEF T
<1>6. \A s \in SUBSET S : s \in T
  BY <1>4, <1>5, SubsetsAll
<1> QED
  BY <1>1, <1>6 DEF T

\* A change of one number changes the sum by as much.
LEMMA SumChange ==
  ASSUME NEW S, IsFiniteSet(S), NEW x \in S, NEW f \in [S -> Int], NEW g \in [S -> Int],
         \A y \in S \ {x} : g[y] = f[y]
  PROVE  SumFunction(g) = SumFunction(f) + (g[x] - f[x])
<1> DEFINE d == [y \in S |-> IF y = x THEN g[x] - f[x] ELSE 0]
<1>1. d \in [S -> Int] /\ d[x] = g[x] - f[x] /\ (\A y \in S \ {x} : d[y] = 0) /\ \A y \in S : g[y] = f[y] + d[y]
  OBVIOUS
<1>4. \A y \in S : g[y] = f[y] + d[y]
  BY <1>1
<1> HIDE DEF d
<1>2. SumFunction(d) = d[x]
  BY <1>1, SumOne
<1>5. d \in [S -> Int]
  BY <1>1
<1>3. SumFunction(g) = SumFunction(f) + SumFunction(d)
  <2> DEFINE h == g
  <2>1. h \in [S -> Int] /\ \A y \in S : h[y] = f[y] + d[y]
    BY <1>4
  <2> HIDE DEF h
  <2>2. SumFunction(h) = SumFunction(f) + SumFunction(d)
    BY ONLY <2>1, <1>5, SumPlus, IsFiniteSet(S), f \in [S -> Int]
  <2> QED
    BY <2>2 DEF h
<1> QED
  BY <1>1, <1>2, <1>3

-------------------------------------------------------------------------------
(* Nim.                                                                         *)
Heaps == [heap: Int]

\* While tokens are left one may be taken, and an opponent finds a take.
LEMMA NimGoesOn ==
  ASSUME NEW g, HeapGiven(g.c), g.s \in Heaps, g.s.heap > 0
  PROVE  Takes(g) # {} /\ NimTells(g) # {} /\ NimTells(g) \subseteq Nat
<1> DEFINE lo == g.c.min
           hi == g.c.max
           heap == g.s.heap
           top == IF hi <= heap THEN hi ELSE heap
           low == lo
           all == Takes(g)
<1>1. lo \in Nat /\ hi \in Nat /\ heap \in Int /\ heap > 0 /\ hi > 0 /\ lo <= 1
  BY DEF HeapGiven, Heaps
<1>2. all = {n \in lo..hi : n <= heap}
  BY DEF Takes
<1> HIDE DEF lo, hi, heap, all
<1>3. all \subseteq Nat
  BY <1>1, <1>2
<1>4. top \in all /\ \A y \in all : top >= y
  BY <1>1, <1>2
<1>5. low \in all /\ \A y \in all : low <= y
  BY <1>1, <1>2
<1> HIDE DEF top, low
<1>6. Max(all) \in all
  BY <1>4 DEF Max
<1>7. Min(all) \in all
  BY <1>5 DEF Min
<1>8. \/ NimTells(g) = all
      \/ NimTells(g) = {n \in all : n = Max(all)}
      \/ NimTells(g) = {n \in all : n = Min(all)}
      \/ \E safe \in all : NimTells(g) = {safe}
      \/ NimTells(g) = {0}
  BY DEF NimTells, all
<1> QED
  BY <1>3, <1>4, <1>6, <1>7, <1>8 DEF all

\* A round that does not end the game leaves tokens.
LEMMA NimRoundKeeps ==
  ASSUME NEW g, HeapGiven(g.c), g.s \in Heaps, NEW take \in Takes(g), NEW reply \in Nat
  PROVE  /\ NimRound(g, take, reply).s \in Heaps
         /\ NimRound(g, take, reply).result \in {"win", "lose", "continue"}
         /\ NimRound(g, take, reply).result = "continue" => NimRound(g, take, reply).s.heap > 0
<1> DEFINE left == g.s.heap - take
           rest == left - reply
           heap(n) == [g.s EXCEPT !.heap = n]
           out == NimRound(g, take, reply)
<1>1. left \in Int /\ rest \in Int
  BY DEF HeapGiven, Heaps, Takes
<1>2. \A n \in Int : heap(n) \in Heaps /\ heap(n).heap = n
  BY DEF Heaps
<1>3. \/ out.s = heap(left) /\ out.result \in {"win", "lose"}
      \/ out.s = heap(rest) /\ out.result \in {"win", "lose"}
      \/ out.s = heap(rest) /\ out.result = "continue" /\ ~(left <= 0) /\ ~(left > 0 /\ rest <= 0)
  BY DEF NimRound, Outcome
<1> HIDE DEF left, rest, out, heap
<1>4. out.s \in Heaps /\ out.result \in {"win", "lose", "continue"}
  BY <1>1, <1>2, <1>3
<1>5. ASSUME out.result = "continue" PROVE out.s.heap > 0
  BY <1>1, <1>2, <1>3, <1>5
<1> QED
  BY <1>4, <1>5 DEF out

-------------------------------------------------------------------------------
(* The tray.                                                                    *)
Trays(c) ==
  [missing: c.tray, cues: Nat, inspected: SUBSET c.clues, revealed: SUBSET c.clues, decision: c.tray \cup {NoMove}]
PaidFor(c, s) == IsFiniteSet(s.inspected) /\ s.cues + Cardinality(s.inspected) = c.budget

\* A tray is set up with all cues left.
LEMMA KimOpens ==
  ASSUME NEW c, TrayGiven(c), NEW s \in KimOpenings(c)
  PROVE  s \in Trays(c) /\ PaidFor(c, s) /\ s.decision = NoMove
<1>1. PICK item \in c.tray :
        s = [missing |-> item, cues |-> c.budget, inspected |-> {}, revealed |-> {}, decision |-> NoMove]
  BY DEF KimOpenings
<1>2. s.inspected = {} /\ s.cues = c.budget /\ s.decision = NoMove
  BY <1>1
<1>3. c.budget \in Nat
  BY DEF TrayGiven
<1>4. IsFiniteSet({}) /\ Cardinality({}) = 0
  BY FS_EmptySet
<1>5. PaidFor(c, s)
  BY <1>2, <1>3, <1>4 DEF PaidFor
<1>6. s \in Trays(c)
  BY <1>1, <1>3 DEF Trays
<1> QED
  BY <1>2, <1>5, <1>6

\* A move pays for a cue that was not inspected, or decides.
LEMMA KimRoundKeeps ==
  ASSUME NEW g, TrayGiven(g.c), g.s \in Trays(g.c), PaidFor(g.c, g.s), g.s.decision = NoMove, NEW m \in KimMoves(g)
  PROVE  /\ KimRound(g, m).s \in Trays(g.c) /\ PaidFor(g.c, KimRound(g, m).s)
         /\ KimRound(g, m).result \in {"win", "lose", "continue"}
         /\ KimRound(g, m).result = "continue" <=> KimRound(g, m).s.decision = NoMove
<1> DEFINE out == KimRound(g, m)
<1>1. CASE \E cue \in g.c.clues \ g.s.inspected : m = <<"inspect", cue>> /\ ~(g.s.cues <= 0)
  <2>1. PICK cue \in g.c.clues \ g.s.inspected : m = <<"inspect", cue>> /\ ~(g.s.cues <= 0)
    BY <1>1
  <2> DEFINE n == g.s.cues - 1
             t == [g.s EXCEPT !.inspected = @ \cup {cue}, !.cues = n, !.revealed = @ \cup {cue}]
  <2>7. n \in Nat /\ n = g.s.cues - 1
    BY <2>1 DEF Trays
  <2>2. out.s = t /\ out.result = "continue"
    BY <2>1 DEF KimRound, Outcome
  <2> HIDE DEF n
  <2> DEFINE seen == g.s.inspected \cup {cue}
             shown == g.s.revealed \cup {cue}
  <2>8. seen \subseteq g.c.clues /\ shown \subseteq g.c.clues
    BY <2>1 DEF Trays
  <2>9. t = [g.s EXCEPT !.inspected = seen, !.cues = n, !.revealed = shown]
    BY Zenon
  <2> HIDE DEF seen, shown, t
  <2>10. t \in Trays(g.c) /\ t.decision = NoMove /\ t.inspected = seen /\ t.cues = n
    BY <2>7, <2>8, <2>9 DEF Trays
  <2>3. t \in Trays(g.c) /\ t.decision = NoMove /\ t.inspected = g.s.inspected \cup {cue} /\ t.cues = g.s.cues - 1
    BY <2>7, <2>10 DEF seen
  <2>11. IsFiniteSet(g.s.inspected) /\ cue \notin g.s.inspected
    BY <2>1 DEF PaidFor
  <2>12. IsFiniteSet(g.s.inspected \cup {cue}) /\ Cardinality(g.s.inspected \cup {cue}) = Cardinality(g.s.inspected) + 1
    BY <2>11, FS_AddElement
  <2>4. IsFiniteSet(t.inspected) /\ Cardinality(t.inspected) = Cardinality(g.s.inspected) + 1
    BY <2>3, <2>12
  <2>5. Cardinality(g.s.inspected) \in Nat /\ g.s.cues \in Nat /\ g.c.budget \in Nat
    BY FS_CardinalityType DEF PaidFor, Trays, TrayGiven
  <2>6. PaidFor(g.c, t)
    BY <2>3, <2>4, <2>5 DEF PaidFor
  <2> QED
    BY <2>2, <2>3, <2>6
<1>2. CASE \E item \in g.c.tray : m = <<"decide", item>>
  <2>1. PICK item \in g.c.tray : m = <<"decide", item>>
    BY <1>2
  <2> DEFINE t == [g.s EXCEPT !.decision = item]
  <2>2. out.s = t /\ out.result \in {"win", "lose"}
    BY <2>1 DEF KimRound, Outcome
  <2>3. t \in Trays(g.c) /\ t.decision = item /\ t.inspected = g.s.inspected /\ t.cues = g.s.cues
    BY <2>1 DEF Trays
  <2>4. item # NoMove
    BY DEF TrayGiven
  <2> HIDE DEF t
  <2> QED
    BY <2>2, <2>3, <2>4 DEF PaidFor
<1> QED
  BY <1>1, <1>2 DEF KimMoves

-------------------------------------------------------------------------------
(* Chosen outcomes, throws, corridor, call and response: what may be played     *)
(* depends on no state.                                                         *)
Plain == {"trivial", "throws", "corridor", "phrases"}

\* There is always something to play, and to tell.
LEMMA PlainGoesOn ==
  ASSUME ConfigsAssumption, NEW g, g.c \in Configs, g.c.kind \in Plain
  PROVE  Moves(g) # {} /\ Tells(g) # {}
<1>1. CASE g.c.kind = "trivial"
  <2>1. Moves(g) = TrivialMoves /\ Tells(g) = TrivialTells(g)
    BY <1>1 DEF Moves, Tells
  <2> QED
    BY <2>1 DEF TrivialMoves, TrivialTells
<1>2. CASE g.c.kind = "throws"
  <2>1. Moves(g) = DOMAIN g.c.beats /\ Tells(g) = ThrowTells(g)
    BY <1>2 DEF Moves, Tells
  <2>2. DOMAIN g.c.beats # {}
    BY <1>2 DEF ConfigsAssumption
  <2>3. ThrowTells(g) # {}
    BY <2>2 DEF ThrowTells
  <2> QED
    BY <2>1, <2>2, <2>3
<1>3. CASE g.c.kind = "corridor"
  BY <1>3 DEF Moves, Tells
<1>4. CASE g.c.kind = "phrases"
  <2>1. Moves(g) = PhraseMoves(g) /\ Tells(g) = PhraseTells(g)
    BY <1>4 DEF Moves, Tells
  <2>2. RoleOf(g.s.initiative) \in {"call", "response"}
    BY DEF RoleOf
  <2>3. PhraseMoves(g) # {}
    BY <1>4, <2>2 DEF ConfigsAssumption, PhrasesGiven, PhraseMoves
  <2>4. \E x : PhraseTells(g) = {x}
    BY Zenon DEF PhraseTells
  <2> QED
    BY <2>1, <2>3, <2>4
<1> QED
  BY <1>1, <1>2, <1>3, <1>4 DEF Plain

-------------------------------------------------------------------------------
(* The cards.                                                                   *)
Hands(c) ==
  {s \in [deck: SUBSET c.cards, player: SUBSET c.cards, dealer: SUBSET c.cards, stood: BOOLEAN] :
     /\ s.deck \cup s.player \cup s.dealer = c.cards
     /\ s.deck \cap s.player = {} /\ s.deck \cap s.dealer = {} /\ s.player \cap s.dealer = {}}

\* A deal leaves every card in one place.
LEMMA BlackjackOpens ==
  ASSUME NEW c, DeckGiven(c), NEW s \in BlackjackOpenings(c)
  PROVE  s \in Hands(c) /\ s.stood = FALSE
<1>1. PICK deal \in Deals(c) :
        s = [deck |-> c.cards \ (deal[1] \cup deal[2]), player |-> deal[1], dealer |-> deal[2], stood |-> FALSE]
  BY DEF BlackjackOpenings
<1>2. deal[1] \subseteq c.cards /\ deal[2] \subseteq c.cards /\ deal[1] \cap deal[2] = {}
  BY DEF DeckGiven
<1> DEFINE one == deal[1]
           two == deal[2]
<1> HIDE DEF one, two
<1>3. s = [deck |-> c.cards \ (one \cup two), player |-> one, dealer |-> two, stood |-> FALSE]
  BY <1>1 DEF one, two
<1>4. one \subseteq c.cards /\ two \subseteq c.cards /\ one \cap two = {}
  BY <1>2 DEF one, two
<1> QED
  BY <1>3, <1>4 DEF Hands

ToPlayer(s, card) == [s EXCEPT !.player = @ \cup {card}, !.deck = @ \ {card}]
ToDealer(s, card) == [s EXCEPT !.dealer = @ \cup {card}, !.deck = @ \ {card}]

\* A card that is drawn moves from the deck to a hand.
LEMMA DrawKeeps ==
  ASSUME NEW c, NEW s \in Hands(c), NEW card \in s.deck
  PROVE  /\ ToPlayer(s, card) \in Hands(c) /\ ToPlayer(s, card).stood = s.stood
         /\ ToDealer(s, card) \in Hands(c) /\ ToDealer(s, card).stood = s.stood /\ ToDealer(s, card).player = s.player
<1>1. PICK deck, player, dealer, stood : s = [deck |-> deck, player |-> player, dealer |-> dealer, stood |-> stood]
  BY DEF Hands
<1>6. s.deck = deck /\ s.player = player /\ s.dealer = dealer /\ s.stood = stood
  BY <1>1
<1>2. /\ deck \cup player \cup dealer = c.cards /\ stood \in BOOLEAN
      /\ deck \cap player = {} /\ deck \cap dealer = {} /\ player \cap dealer = {} /\ card \in deck
  BY <1>6 DEF Hands
<1> DEFINE less == deck \ {card}
           mine == player \cup {card}
           theirs == dealer \cup {card}
           one == [deck |-> less, player |-> mine, dealer |-> dealer, stood |-> stood]
           two == [deck |-> less, player |-> player, dealer |-> theirs, stood |-> stood]
<1>3. ToPlayer(s, card) = one
  <2>1. ToPlayer(s, card) = [s EXCEPT !.player = mine, !.deck = less]
    BY <1>6, Zenon DEF ToPlayer
  <2> HIDE DEF mine, less
  <2> QED
    BY <1>1, <2>1
<1>7. ToDealer(s, card) = two
  <2>1. ToDealer(s, card) = [s EXCEPT !.dealer = theirs, !.deck = less]
    BY <1>6, Zenon DEF ToDealer
  <2> HIDE DEF theirs, less
  <2> QED
    BY <1>1, <2>1
<1>4. /\ less \cup mine \cup dealer = c.cards /\ less \cap mine = {} /\ less \cap dealer = {} /\ mine \cap dealer = {}
      /\ less \cup player \cup theirs = c.cards /\ less \cap player = {} /\ less \cap theirs = {} /\ player \cap theirs = {}
  BY <1>2
<1> HIDE DEF less, mine, theirs
<1>5. one \in Hands(c) /\ two \in Hands(c) /\ one.stood = stood /\ two.stood = stood /\ two.player = player
  BY <1>2, <1>4 DEF Hands
<1> QED
  BY <1>3, <1>5, <1>6, <1>7

\* However many cards the dealer draws, every card stays in one place, and the
\* player's hand as it is.
LEMMA DealerKeeps ==
  ASSUME NEW c, DeckGiven(c), NEW s \in Hands(c), NEW end \in DealerStands(c, s)
  PROVE  end \in Hands(c) /\ end.player = s.player /\ end.stood = s.stood
<1> DEFINE N == Cardinality(s.deck)
           H == {t \in Hands(c) : t.player = s.player /\ t.stood = s.stood}
           S == SUBSET H
           F(f) == f = [n \in 0..N |-> IF n = 0 THEN {s}
                                       ELSE LET before == f[n - 1] IN UNION {DealerDraws(c, t) : t \in before}]
           h == [n \in 1..N |-> [X \in S |-> UNION {DealerDraws(c, t) : t \in X}]]
           a == CHOOSE f : F(f)
<1>1. N \in Nat
  <2>1. IsFiniteSet(c.cards) /\ s.deck \subseteq c.cards
    BY DEF DeckGiven, Hands
  <2> QED
    BY <2>1, FS_Subset, FS_CardinalityType
<1>2. \A t \in H : DealerDraws(c, t) \subseteq H
  <2> SUFFICES ASSUME NEW t \in H, NEW u \in DealerDraws(c, t) PROVE u \in H
    OBVIOUS
  <2>1. u = t \/ \E card \in t.deck : u = ToDealer(t, card)
    BY Zenon DEF DealerDraws, ToDealer
  <2> QED
    BY <2>1, DrawKeeps
<1>3. \A X \in S : UNION {DealerDraws(c, t) : t \in X} \in S
  BY <1>2
<1>4. h \in [1..N -> [S -> S]] /\ {s} \in S
  BY <1>3
<1>5. end \in a[N]
  BY DEF DealerStands
<1>11. s \in H
  OBVIOUS
<1> HIDE DEF N, h, a, H
<1>6. PICK f \in [0..N -> S] : f[0] = {s} /\ \A k \in 1..N : f[k] = h[k][f[k - 1]]
  <2> DEFINE b == {s}
  <2>1. b \in S
    BY <1>4
  <2> HIDE DEF S, b
  <2>2. \E f \in [0..N -> S] : Recurs(f, N, b, h)
    BY <1>1, <1>4, <2>1, Recursion, Zenon
  <2> QED
    BY <2>2 DEF Recurs, b
<1>7. F(f)
  <2>1. ASSUME NEW k \in 1..N PROVE f[k] = UNION {DealerDraws(c, t) : t \in f[k - 1]}
    <3>1. f[k - 1] \in S
      BY <1>1, <1>6
    <3> QED
      BY <1>6, <3>1 DEF h
  <2> QED
    BY <1>1, <1>6, <2>1
<1>8. F(a)
  <2> HIDE DEF F
  <2> QED
    BY <1>7 DEF a
<1>9. a[0] = {s} /\ \A n \in 1..N : a[n] = UNION {DealerDraws(c, t) : t \in a[n - 1]}
  BY <1>1, <1>8
<1>10. \A n \in 0..N : a[n] \subseteq H
  <2> DEFINE T == {n \in 0..N : a[n] \subseteq H}
  <2>1. 0 \in T
    BY <1>1, <1>9, <1>11
  <2>2. ASSUME NEW n \in 1..N, n - 1 \in T PROVE n \in T
    BY <1>1, <1>2, <1>9, <2>2
  <2> HIDE DEF T
  <2>3. \A n \in 0..N : n \in T
    BY <1>1, <2>1, <2>2, UpToAll
  <2> QED
    BY <2>3 DEF T
<1>12. end \in H
  BY <1>1, <1>5, <1>10
<1> QED
  BY <1>12 DEF H

\* A round moves cards, and goes on only before the player stands.
LEMMA BlackjackRoundKeeps ==
  ASSUME NEW g, DeckGiven(g.c), g.s \in Hands(g.c), g.s.stood = FALSE, NEW m, NEW out \in BlackjackRounds(g, m)
  PROVE  /\ out.s \in Hands(g.c) /\ out.result \in {"win", "lose", "draw", "continue"}
         /\ out.result = "continue" => out.s.stood = FALSE
<1> DEFINE played == IF m = "hit" THEN {ToPlayer(g.s, card) : card \in g.s.deck} ELSE {g.s}
<1>1. \A s \in played : s \in Hands(g.c) /\ s.stood = FALSE
  <2>1. \A s \in played : s = g.s \/ \E card \in g.s.deck : s = ToPlayer(g.s, card)
    OBVIOUS
  <2> QED
    BY <2>1, DrawKeeps
<1>2. PICK s \in played :
        \/ out = Outcome(g, s, 0, 1, "lose") \/ out = Outcome(g, s, 0, 0, "continue")
        \/ \E end \in DealerStands(g.c, [s EXCEPT !.stood = TRUE]) : out = Showdown(g, end)
  BY DEF BlackjackRounds, ToPlayer
<1> HIDE DEF played
<1>3. CASE out = Outcome(g, s, 0, 1, "lose") \/ out = Outcome(g, s, 0, 0, "continue")
  <2>1. out.s = s /\ out.result \in {"lose", "continue"}
    BY <1>3 DEF Outcome
  <2> QED
    BY <1>1, <2>1
<1>4. CASE \E end \in DealerStands(g.c, [s EXCEPT !.stood = TRUE]) : out = Showdown(g, end)
  <2> DEFINE t == [s EXCEPT !.stood = TRUE]
  <2>1. t \in Hands(g.c)
    <3>1. s \in [deck: SUBSET g.c.cards, player: SUBSET g.c.cards, dealer: SUBSET g.c.cards, stood: BOOLEAN]
      BY <1>1 DEF Hands
    <3>2. /\ t \in [deck: SUBSET g.c.cards, player: SUBSET g.c.cards, dealer: SUBSET g.c.cards, stood: BOOLEAN]
          /\ t.deck = s.deck /\ t.player = s.player /\ t.dealer = s.dealer
      BY <3>1
    <3> HIDE DEF t
    <3> QED
      BY <1>1, <3>2 DEF Hands
  <2>2. PICK end \in DealerStands(g.c, t) : out = Showdown(g, end)
    BY <1>4
  <2> HIDE DEF t
  <2>3. end \in Hands(g.c)
    BY <2>1, <2>2, DealerKeeps
  <2>4. out.s = end /\ out.result \in {"win", "lose", "draw"}
    BY <2>2 DEF Showdown, Outcome
  <2> QED
    BY <2>3, <2>4
<1> QED
  BY <1>2, <1>3, <1>4

\* No card is lost or doubled.
LEMMA HandsCount ==
  ASSUME NEW c, DeckGiven(c), NEW s \in Hands(c)
  PROVE  Cardinality(s.deck) + Cardinality(s.player) + Cardinality(s.dealer) = Cardinality(c.cards)
<1> DEFINE deck == s.deck
           player == s.player
           dealer == s.dealer
           held == deck \cup player
<1>1. /\ held \cup dealer = c.cards /\ deck \cap player = {} /\ held \cap dealer = {}
      /\ deck \subseteq c.cards /\ player \subseteq c.cards /\ dealer \subseteq c.cards
  BY DEF Hands
<1>2. held = deck \cup player /\ held \subseteq c.cards
  BY <1>1
<1> HIDE DEF deck, player, dealer, held
<1>3. IsFiniteSet(deck) /\ IsFiniteSet(player) /\ IsFiniteSet(dealer) /\ IsFiniteSet(held)
  BY <1>1, <1>2, FS_Subset DEF DeckGiven
<1>4. Cardinality(held) = Cardinality(deck) + Cardinality(player) - Cardinality(deck \cap player)
  BY <1>2, <1>3, FS_Union
<1>5. Cardinality(c.cards) = Cardinality(held) + Cardinality(dealer) - Cardinality(held \cap dealer)
  BY <1>1, <1>3, FS_Union
<1>6. Cardinality({}) = 0
  BY FS_EmptySet
<1>7. Cardinality(deck) \in Nat /\ Cardinality(player) \in Nat /\ Cardinality(dealer) \in Nat /\ Cardinality(held) \in Nat
  BY <1>3, FS_CardinalityType
<1>9. Cardinality(deck \cap player) = 0 /\ Cardinality(held \cap dealer) = 0
  BY <1>1, <1>6
<1>8. Cardinality(deck) + Cardinality(player) + Cardinality(dealer) = Cardinality(c.cards)
  BY <1>4, <1>5, <1>7, <1>9
<1> QED
  BY <1>8 DEF deck, player, dealer

-------------------------------------------------------------------------------
(* The incremental shell.                                                       *)
Bundles(c) == [Goods(c) -> Nat]
Purses(c, e) == {w \in Bundles(c) : w["elite"] = e}
Shells(c) ==
  [goods: Bundles(c), idle: Nat, assigned: [DOMAIN c.tasks -> Nat], works: [DOMAIN c.works -> Nat], cycle: Nat,
   tasks: SUBSET DOMAIN c.tasks, builds: SUBSET DOMAIN c.builds, promotions: SUBSET DOMAIN c.promotions]
Staffed(c, s) ==
  s.idle + SumFunction(s.assigned) = c.workers + c.perWork * SumFunction(s.works) - c.perElite * s.goods["elite"]

\* A sum of natural numbers is one.
LEMMA SumNat ==
  ASSUME NEW S, IsFiniteSet(S), NEW f \in [S -> Nat]
  PROVE  SumFunction(f) \in Nat
<1> DEFINE z == [x \in S |-> 0]
<1>1. z \in [S -> Int] /\ f \in [S -> Int] /\ (\A x \in S : z[x] = 0) /\ \A x \in S : z[x] <= f[x]
  OBVIOUS
<1> HIDE DEF z
<1>2. SumFunction(z) = 0
  BY <1>1, SumZero
<1>3. SumFunction(z) <= SumFunction(f)
  BY <1>1, SumOrder
<1>4. SumFunction(f) \in Int
  BY <1>1, SumTypes
<1> QED
  BY <1>2, <1>3, <1>4

\* What can be afforded is spent before anything is earned.
LEMMA TradeKeeps ==
  ASSUME NEW c, "elite" \in Goods(c), NEW w \in Bundles(c), NEW cost \in Bundles(c), NEW gain \in Bundles(c),
         Affords(w, cost)
  PROVE  /\ Spent(w, cost) \in Bundles(c) /\ Earned(Spent(w, cost), gain) \in Bundles(c)
         /\ Spent(w, cost)["elite"] = w["elite"] - cost["elite"]
         /\ Earned(Spent(w, cost), gain)["elite"] = w["elite"] - cost["elite"] + gain["elite"]
<1> DEFINE u == Spent(w, cost)
           v == Earned(u, gain)
<1>1. \A x \in Goods(c) : w[x] \in Nat /\ cost[x] \in Nat /\ gain[x] \in Nat /\ w[x] >= cost[x]
  BY DEF Bundles, Affords
<1>2. u = [x \in Goods(c) |-> w[x] - cost[x]]
  BY DEF Spent, Bundles
<1> HIDE DEF u
<1>3. u \in [Goods(c) -> Nat] /\ \A x \in Goods(c) : u[x] = w[x] - cost[x]
  BY <1>1, <1>2
<1>4. v = [x \in Goods(c) |-> u[x] + gain[x]]
  BY <1>3 DEF Earned
<1> HIDE DEF v
<1>5. v \in [Goods(c) -> Nat] /\ \A x \in Goods(c) : v[x] = u[x] + gain[x]
  BY <1>1, <1>3, <1>4
<1> QED
  BY <1>1, <1>3, <1>5 DEF u, v, Bundles

\* The workers of a task bring no specialists.
LEMMA WorkedKeeps ==
  ASSUME NEW c, ShellGiven(c), NEW e \in Nat, NEW goods \in Purses(c, e), NEW task \in DOMAIN c.tasks, NEW N \in Nat
  PROVE  Worked(goods, c.tasks[task], N) \in Purses(c, e)
<1> DEFINE job == c.tasks[task]
           S == Purses(c, e)
           Step(have) == IF Affords(have, job.consumes) THEN Earned(Spent(have, job.consumes), job.produces) ELSE have
           F(f) == f = [n \in 0..N |-> IF n = 0 THEN goods
                                       ELSE LET have == f[n - 1] IN
                                            IF Affords(have, job.consumes)
                                            THEN Earned(Spent(have, job.consumes), job.produces) ELSE have]
           h == [n \in 1..N |-> [w \in S |-> Step(w)]]
           a == CHOOSE f : F(f)
<1>1. job.consumes \in Bundles(c) /\ job.produces \in Bundles(c) /\ job.consumes["elite"] = job.produces["elite"]
  BY DEF ShellGiven, Bundles
<1>2. \A w \in S : Step(w) \in S
  <2> SUFFICES ASSUME NEW w \in S PROVE Step(w) \in S
    OBVIOUS
  <2>1. CASE Affords(w, job.consumes)
    <3> DEFINE cost == job.consumes
               gain == job.produces
    <3> HIDE DEF cost, gain
    <3>1. w \in Bundles(c) /\ w["elite"] = e /\ "elite" \in Goods(c)
      BY DEF Purses, ShellGiven
    <3>2. cost \in Bundles(c) /\ gain \in Bundles(c) /\ cost["elite"] = gain["elite"] /\ Affords(w, cost)
      BY <1>1, <2>1 DEF cost, gain
    <3>3. cost["elite"] \in Nat
      BY <3>1, <3>2 DEF Bundles
    <3>4. /\ Earned(Spent(w, cost), gain) \in Bundles(c)
          /\ Earned(Spent(w, cost), gain)["elite"] = w["elite"] - cost["elite"] + gain["elite"]
      BY <3>1, <3>2, TradeKeeps
    <3>5. Earned(Spent(w, cost), gain) \in Purses(c, e)
      BY <3>1, <3>2, <3>3, <3>4 DEF Purses
    <3> QED
      BY <2>1, <3>5 DEF cost, gain
  <2>2. CASE ~Affords(w, job.consumes)
    BY <2>2
  <2> QED
    BY <2>1, <2>2
<1>3. h \in [1..N -> [S -> S]] /\ goods \in S
  BY <1>2
<1>4. Worked(goods, job, N) = a[N]
  BY DEF Worked
<1> HIDE DEF h, a, S, Step, job
<1>5. PICK f \in [0..N -> S] : f[0] = goods /\ \A k \in 1..N : f[k] = h[k][f[k - 1]]
  <2>1. \E f \in [0..N -> S] : Recurs(f, N, goods, h)
    BY <1>3, Recursion, Zenon
  <2> QED
    BY <2>1 DEF Recurs
<1>6. \A k \in 1..N : f[k] = Step(f[k - 1])
  <2> SUFFICES ASSUME NEW k \in 1..N PROVE f[k] = Step(f[k - 1])
    OBVIOUS
  <2>1. f[k - 1] \in S
    BY <1>5
  <2> QED
    BY <1>5, <2>1 DEF h
<1>7. F(f)
  BY <1>5, <1>6 DEF Step
<1>8. F(a)
  <2> HIDE DEF F
  <2> QED
    BY <1>7 DEF a
<1>9. a[0] = goods /\ \A n \in 1..N : a[n] = Step(a[n - 1])
  BY <1>8 DEF Step
<1>10. \A n \in 0..N : a[n] \in S
  <2> DEFINE T == {n \in 0..N : a[n] \in S}
  <2>1. 0 \in T
    BY <1>3, <1>9
  <2>2. ASSUME NEW n \in 1..N, n - 1 \in T PROVE n \in T
    BY <1>2, <1>9, <2>2
  <2> HIDE DEF T
  <2>3. \A n \in 0..N : n \in T
    BY <2>1, <2>2, UpToAll
  <2> QED
    BY <2>3 DEF T
<1> QED
  BY <1>4, <1>10 DEF S, job

\* Nor do all tasks of a cycle.
LEMMA ProducedKeeps ==
  ASSUME NEW g, ShellGiven(g.c), g.s \in Shells(g.c), NEW e \in Nat, NEW goods \in Purses(g.c, e)
  PROVE  Produced(g, goods) \in Purses(g.c, e)
<1> DEFINE order == g.c.order
           N == Len(order)
           S == Purses(g.c, e)
           Step(n, w) == Worked(w, g.c.tasks[order[n]], g.s.assigned[order[n]])
           F(f) == f = [n \in 0..N |-> IF n = 0 THEN goods
                                       ELSE Worked(f[n - 1], g.c.tasks[order[n]], g.s.assigned[order[n]])]
           h == [n \in 1..N |-> [w \in S |-> Step(n, w)]]
           a == CHOOSE f : F(f)
<1>1. order \in Seq(DOMAIN g.c.tasks)
  BY DEF ShellGiven
<1>0. N \in Nat /\ \A n \in 1..N : order[n] \in DOMAIN g.c.tasks
  <2> HIDE DEF order
  <2> QED
    BY <1>1
<1>2. \A n \in 1..N, w \in S : Step(n, w) \in S
  <2> SUFFICES ASSUME NEW n \in 1..N, NEW w \in S PROVE Step(n, w) \in S
    OBVIOUS
  <2>1. order[n] \in DOMAIN g.c.tasks /\ g.s.assigned[order[n]] \in Nat
    BY <1>0 DEF Shells
  <2> QED
    BY <2>1, WorkedKeeps
<1>3. h \in [1..N -> [S -> S]] /\ goods \in S
  BY <1>2
<1>4. Produced(g, goods) = a[N]
  BY DEF Produced
<1> HIDE DEF h, a, S, N, order, Step
<1>5. PICK f \in [0..N -> S] : f[0] = goods /\ \A k \in 1..N : f[k] = h[k][f[k - 1]]
  <2>1. \E f \in [0..N -> S] : Recurs(f, N, goods, h)
    BY <1>0, <1>3, Recursion, Zenon
  <2> QED
    BY <2>1 DEF Recurs
<1>6. \A k \in 1..N : f[k] = Step(k, f[k - 1])
  <2> SUFFICES ASSUME NEW k \in 1..N PROVE f[k] = Step(k, f[k - 1])
    OBVIOUS
  <2>1. f[k - 1] \in S
    BY <1>0, <1>5
  <2> QED
    BY <1>5, <2>1 DEF h
<1>7. F(f)
  BY <1>0, <1>5, <1>6 DEF Step
<1>8. F(a)
  <2> HIDE DEF F
  <2> QED
    BY <1>7 DEF a
<1>9. a[0] = goods /\ \A n \in 1..N : a[n] = Step(n, a[n - 1])
  BY <1>0, <1>8 DEF Step
<1>10. \A n \in 0..N : a[n] \in S
  <2> DEFINE T == {n \in 0..N : a[n] \in S}
  <2>1. 0 \in T
    BY <1>0, <1>3, <1>9
  <2>2. ASSUME NEW n \in 1..N, n - 1 \in T PROVE n \in T
    BY <1>0, <1>2, <1>9, <2>2
  <2> HIDE DEF T
  <2>3. \A n \in 0..N : n \in T
    BY <1>0, <2>1, <2>2, UpToAll
  <2> QED
    BY <2>3 DEF T
<1> QED
  BY <1>0, <1>4, <1>10 DEF S

\* The shell opens with its workers idle and nothing built.
LEMMA ShellOpens ==
  ASSUME NEW c, ShellGiven(c)
  PROVE  IncrementalOpening(c) \in Shells(c) /\ Staffed(c, IncrementalOpening(c))
<1> DEFINE none == [t \in DOMAIN c.tasks |-> 0]
           empty == [x \in DOMAIN c.works |-> 0]
           s == IncrementalOpening(c)
<1>1. /\ s.goods = c.goods /\ s.idle = c.workers /\ s.assigned = none /\ s.works = empty
      /\ s = [goods |-> c.goods, idle |-> c.workers, assigned |-> none, works |-> empty, cycle |-> 0,
              tasks |-> c.openTasks, builds |-> c.openBuilds, promotions |-> c.openPromotions]
  BY DEF IncrementalOpening
<1>2. /\ none \in [DOMAIN c.tasks -> Nat] /\ none \in [DOMAIN c.tasks -> Int] /\ \A t \in DOMAIN c.tasks : none[t] = 0
      /\ empty \in [DOMAIN c.works -> Nat] /\ empty \in [DOMAIN c.works -> Int] /\ \A x \in DOMAIN c.works : empty[x] = 0
  OBVIOUS
<1>3. /\ c.goods \in Bundles(c) /\ c.goods["elite"] = 0 /\ c.workers \in Nat /\ c.perWork \in Nat /\ c.perElite \in Nat
      /\ IsFiniteSet(DOMAIN c.tasks) /\ IsFiniteSet(DOMAIN c.works) /\ c.openTasks \subseteq DOMAIN c.tasks
      /\ c.openBuilds \subseteq DOMAIN c.builds /\ c.openPromotions \subseteq DOMAIN c.promotions
  BY DEF ShellGiven, Bundles
<1> HIDE DEF none, empty, s
<1>4. SumFunction(none) = 0
  BY <1>2, <1>3, SumZero
<1>5. SumFunction(empty) = 0
  BY <1>2, <1>3, SumZero
<1>6. Staffed(c, s)
  BY <1>1, <1>3, <1>4, <1>5 DEF Staffed
<1>7. s \in Shells(c)
  BY <1>1, <1>2, <1>3 DEF Shells
<1> QED
  BY <1>6, <1>7 DEF s

\* Multiplication distributes.
LEMMA Distribute ==
  ASSUME NEW a \in Int, NEW b \in Int, NEW d \in Int
  PROVE  a * (b + d) = a * b + a * d /\ a * (b - d) = a * b - a * d /\ a * b \in Int
  OBVIOUS

Restaffed(s, t, idle, n) == [s EXCEPT !.idle = idle, !.assigned[t] = n]
Paid(s, goods, idle) == [s EXCEPT !.goods = goods, !.idle = idle]

\* A worker is assigned, or comes back.
LEMMA AssignKeeps ==
  ASSUME NEW c, ShellGiven(c), NEW s \in Shells(c), Staffed(c, s), NEW t \in DOMAIN c.tasks, NEW d \in {-1, 1},
         NEW idle \in Nat, NEW n \in Nat, idle = s.idle - d, n = s.assigned[t] + d
  PROVE  Restaffed(s, t, idle, n) \in Shells(c) /\ Staffed(c, Restaffed(s, t, idle, n))
<1> DEFINE D == DOMAIN c.tasks
           old == s.assigned
           new == [s.assigned EXCEPT ![t] = n]
           u == Restaffed(s, t, idle, n)
<1>1. old \in [D -> Nat] /\ new \in [D -> Nat] /\ new[t] = old[t] + d /\ \A x \in D \ {t} : new[x] = old[x]
  BY DEF Shells
<1>2. IsFiniteSet(D) /\ idle \in Nat /\ t \in D /\ d \in Int
  BY DEF ShellGiven
<1>3. u.idle = idle /\ u.assigned = new /\ u.works = s.works /\ u.goods = s.goods
  BY DEF Shells, Restaffed
<1>4. u = [s EXCEPT !.idle = idle, !.assigned = new]
  BY DEF Shells, Restaffed
<1> HIDE DEF D, old, new, u
<1>5. u \in Shells(c)
  BY <1>1, <1>2, <1>4 DEF Shells, D
<1>6. SumFunction(new) = SumFunction(old) + d
  <2>1. old \in [D -> Int] /\ new \in [D -> Int] /\ old[t] \in Int
    BY <1>1, <1>2
  <2>2. SumFunction(new) = SumFunction(old) + (new[t] - old[t])
    BY <1>1, <1>2, <2>1, SumChange
  <2> QED
    BY <1>1, <1>2, <2>1, <2>2
<1>7. SumFunction(old) \in Int /\ s.idle \in Nat
  BY <1>1, <1>2, SumNat DEF Shells
<1>8. idle + SumFunction(new) = s.idle + SumFunction(old)
  BY <1>2, <1>6, <1>7
<1>9. Staffed(c, u)
  BY <1>3, <1>8 DEF Staffed, old
<1> QED
  BY <1>5, <1>9 DEF u

\* A building brings its works and the workers for them.
LEMMA BuildKeeps ==
  ASSUME NEW c, ShellGiven(c), NEW s \in Shells(c), Staffed(c, s), NEW b \in DOMAIN c.builds,
         Affords(s.goods, c.builds[b].cost)
  PROVE  Built(s, c.builds[b]) \in Shells(c) /\ Staffed(c, Built(s, c.builds[b]))
<1> DEFINE new == c.builds[b]
           cost == new.cost
           gain == new.gain
           D == DOMAIN c.works
           goods == Earned(Spent(s.goods, cost), gain)
           works == Earned(s.works, new.works)
           idle == s.idle + new.workers
           tasks == s.tasks \cup new.tasks
           builds == s.builds \cup new.builds
           promotions == s.promotions \cup new.promotions
           u == [s EXCEPT !.goods = goods, !.works = works, !.idle = idle,
                          !.tasks = tasks, !.builds = builds, !.promotions = promotions]
<1>1. /\ cost \in Bundles(c) /\ gain \in Bundles(c) /\ cost["elite"] = gain["elite"] /\ "elite" \in Goods(c)
      /\ new.works \in [D -> Nat] /\ new.workers = c.perWork * SumFunction(new.works)
      /\ new.tasks \subseteq DOMAIN c.tasks /\ new.builds \subseteq DOMAIN c.builds
      /\ new.promotions \subseteq DOMAIN c.promotions /\ IsFiniteSet(D) /\ c.perWork \in Nat /\ c.perElite \in Nat
      /\ c.workers \in Nat /\ IsFiniteSet(DOMAIN c.tasks)
  BY DEF ShellGiven, Bundles
<1>2. /\ s.goods \in Bundles(c) /\ s.works \in [D -> Nat] /\ s.idle \in Nat /\ s.assigned \in [DOMAIN c.tasks -> Nat]
      /\ s.tasks \subseteq DOMAIN c.tasks /\ s.builds \subseteq DOMAIN c.builds /\ s.promotions \subseteq DOMAIN c.promotions
  BY DEF Shells
<1>3. Built(s, new) = u
  BY Zenon DEF Built
<1>4. idle = s.idle + new.workers /\ works = Earned(s.works, new.works) /\ Affords(s.goods, cost)
  OBVIOUS
<1>5. tasks \subseteq DOMAIN c.tasks /\ builds \subseteq DOMAIN c.builds /\ promotions \subseteq DOMAIN c.promotions
  BY <1>1, <1>2
<1> HIDE DEF cost, gain, new, D, works, idle, tasks, builds, promotions
<1>6. goods \in Bundles(c) /\ goods["elite"] = s.goods["elite"]
  <2>1. goods \in Bundles(c) /\ goods["elite"] = s.goods["elite"] - cost["elite"] + gain["elite"]
    BY <1>1, <1>2, <1>4, TradeKeeps
  <2>2. s.goods["elite"] \in Nat /\ cost["elite"] \in Nat
    BY <1>1, <1>2 DEF Bundles
  <2> HIDE DEF goods
  <2> QED
    BY <1>1, <2>1, <2>2
<1>7. SumFunction(new.works) \in Nat /\ SumFunction(s.works) \in Nat /\ SumFunction(s.assigned) \in Nat
  BY <1>1, <1>2, SumNat
<1>8. works \in [D -> Nat] /\ SumFunction(works) = SumFunction(s.works) + SumFunction(new.works)
  <2> DEFINE f == s.works
             g == new.works
  <2>1. f \in [D -> Nat] /\ g \in [D -> Nat] /\ works = Earned(f, g)
    BY <1>1, <1>2, <1>4
  <2> HIDE DEF f, g
  <2>2. works = [x \in D |-> f[x] + g[x]]
    BY <2>1 DEF Earned
  <2>3. works \in [D -> Nat] /\ \A x \in D : works[x] = f[x] + g[x]
    BY <2>1, <2>2
  <2>4. f \in [D -> Int] /\ g \in [D -> Int] /\ works \in [D -> Int]
    BY <2>1, <2>3
  <2>5. SumFunction(works) = SumFunction(f) + SumFunction(g)
    BY <1>1, <2>3, <2>4, SumPlus
  <2> QED
    BY <2>3, <2>5 DEF f, g
<1> HIDE DEF goods
<1>9. new.workers \in Nat /\ idle \in Nat /\ c.perWork * SumFunction(works) = c.perWork * SumFunction(s.works) + new.workers
      /\ c.perWork * SumFunction(s.works) \in Int
  <2> DEFINE x == SumFunction(s.works)
             y == SumFunction(new.works)
             k == c.perWork
  <2>1. x \in Nat /\ y \in Nat /\ k \in Nat /\ new.workers = k * y /\ SumFunction(works) = x + y
    BY <1>1, <1>7, <1>8
  <2> HIDE DEF x, y, k
  <2>2. k * y \in Nat /\ k * (x + y) = k * x + k * y /\ k * x \in Int
    BY <2>1, Distribute
  <2> QED
    BY <1>2, <1>4, <2>1, <2>2 DEF k, x
<1>10. u.idle = idle /\ u.assigned = s.assigned /\ u.works = works /\ u.goods = goods
  BY DEF Shells
<1>11. u \in Shells(c)
  BY <1>5, <1>6, <1>8, <1>9 DEF Shells, D
<1> HIDE DEF u
<1>12. Staffed(c, u)
  <2> DEFINE a == SumFunction(s.assigned)
             x == c.perWork * SumFunction(s.works)
             y == c.perWork * SumFunction(works)
             z == c.perElite * s.goods["elite"]
  <2>1. s.idle + a = c.workers + x - z
    BY DEF Staffed
  <2>2. a \in Int /\ x \in Int /\ y = x + new.workers /\ z \in Int /\ s.idle \in Int /\ new.workers \in Int /\ c.workers \in Int
    <3>1. s.goods["elite"] \in Nat
      BY <1>1, <1>2 DEF Bundles
    <3> QED
      BY <1>1, <1>2, <1>7, <1>9, <3>1, Distribute
  <2> HIDE DEF a, x, y, z
  <2>3. idle + a = c.workers + y - z
    BY <1>4, <2>1, <2>2
  <2> QED
    BY <1>6, <1>10, <2>3 DEF Staffed, a, y, z
<1> QED
  BY <1>3, <1>11, <1>12 DEF new

\* A promotion takes the workers that its specialists stand for.
LEMMA PromoteKeeps ==
  ASSUME NEW c, ShellGiven(c), NEW s \in Shells(c), Staffed(c, s), NEW p \in DOMAIN c.promotions,
         Affords(s.goods, c.promotions[p].cost), s.idle >= c.promotions[p].workers,
         NEW goods, goods = Earned(Spent(s.goods, c.promotions[p].cost), c.promotions[p].output),
         NEW idle, idle = s.idle - c.promotions[p].workers
  PROVE  Paid(s, goods, idle) \in Shells(c) /\ Staffed(c, Paid(s, goods, idle))
<1> DEFINE up == c.promotions[p]
           cost == up.cost
           out == up.output
           u == Paid(s, goods, idle)
<1>1. /\ cost \in Bundles(c) /\ out \in Bundles(c) /\ "elite" \in Goods(c) /\ up.workers \in Nat
      /\ up.workers = c.perElite * (out["elite"] - cost["elite"]) /\ c.perElite \in Nat /\ c.workers \in Nat
      /\ c.perWork \in Nat /\ IsFiniteSet(DOMAIN c.works) /\ IsFiniteSet(DOMAIN c.tasks)
  BY DEF ShellGiven, Bundles
<1>2. /\ s.goods \in Bundles(c) /\ s.works \in [DOMAIN c.works -> Nat] /\ s.idle \in Nat
      /\ s.assigned \in [DOMAIN c.tasks -> Nat]
  BY DEF Shells
<1>3. goods = Earned(Spent(s.goods, cost), out) /\ Affords(s.goods, cost) /\ idle = s.idle - up.workers /\ s.idle >= up.workers
  OBVIOUS
<1> HIDE DEF cost, out, up
<1>4. goods \in Bundles(c) /\ goods["elite"] = s.goods["elite"] - cost["elite"] + out["elite"]
  BY <1>1, <1>2, <1>3, TradeKeeps
<1>5. idle \in Nat
  BY <1>1, <1>2, <1>3
<1>6. u.idle = idle /\ u.assigned = s.assigned /\ u.works = s.works /\ u.goods = goods
  BY DEF Shells, Paid
<1>7. u \in Shells(c)
  BY <1>4, <1>5 DEF Shells, Paid
<1> HIDE DEF u
<1>8. Staffed(c, u)
  <2> DEFINE a == SumFunction(s.assigned)
             x == c.perWork * SumFunction(s.works)
             k == c.perElite
             e == s.goods["elite"]
             eo == out["elite"]
             ec == cost["elite"]
             eg == goods["elite"]
  <2>1. s.idle + a = c.workers + x - k * e
    BY DEF Staffed
  <2>2. e \in Nat /\ eo \in Nat /\ ec \in Nat /\ eg = e - ec + eo
    BY <1>1, <1>2, <1>4 DEF Bundles
  <2>3. a \in Int /\ x \in Int /\ k \in Int
    <3>1. a \in Nat /\ SumFunction(s.works) \in Nat
      BY <1>1, <1>2, SumNat
    <3> QED
      BY <1>1, <3>1, Distribute
  <2>4. up.workers = k * (eo - ec)
    BY <1>1
  <2> HIDE DEF a, x, k, e, eo, ec, eg
  <2>5. k * eg = k * e + k * (eo - ec) /\ k * e \in Int /\ k * (eo - ec) \in Int
    <3>1. eg = e + (eo - ec) /\ eo - ec \in Int
      BY <2>2
    <3> DEFINE y == eo - ec
    <3> HIDE DEF y
    <3>2. eg = e + y /\ y \in Int
      BY <3>1 DEF y
    <3>3. k * eg = k * e + k * y /\ k * e \in Int /\ k * y \in Int
      BY <2>2, <2>3, <3>2, Distribute
    <3> QED
      BY <3>3 DEF y
  <2>6. idle + a = c.workers + x - k * eg
    <3> DEFINE y == k * (eo - ec)
               z == k * e
    <3>1. k * eg = z + y /\ z \in Int /\ y \in Int /\ up.workers = y /\ s.idle + a = c.workers + x - z
      BY <2>1, <2>4, <2>5
    <3> HIDE DEF y, z
    <3> QED
      BY <1>1, <1>2, <1>3, <2>3, <3>1
  <2> QED
    BY <1>6, <2>6 DEF Staffed, a, x, k, eg
<1> QED
  BY <1>7, <1>8 DEF u

\* A cycle changes the goods alone.
LEMMA EndCycleKeeps ==
  ASSUME NEW g, ShellGiven(g.c), g.s \in Shells(g.c), Staffed(g.c, g.s)
  PROVE  EndCycle(g).s \in Shells(g.c) /\ Staffed(g.c, EndCycle(g).s)
<1> DEFINE e == g.s.goods["elite"]
           paid == Affords(g.s.goods, g.c.upkeep)
           left == IF paid THEN Spent(g.s.goods, g.c.upkeep) ELSE g.s.goods
           goods == Produced(g, left)
           cycle == g.s.cycle + 1
           u == [g.s EXCEPT !.goods = goods, !.cycle = cycle]
<1>1. g.s.goods \in Bundles(g.c) /\ g.c.upkeep \in Bundles(g.c) /\ g.c.upkeep["elite"] = 0 /\ "elite" \in Goods(g.c)
  BY DEF Shells, ShellGiven, Bundles
<1>2. e \in Nat
  BY <1>1 DEF Bundles
<1>3. left \in Purses(g.c, e)
  <2>1. CASE paid
    <3>1. Spent(g.s.goods, g.c.upkeep) \in Bundles(g.c)
          /\ Spent(g.s.goods, g.c.upkeep)["elite"] = g.s.goods["elite"] - g.c.upkeep["elite"]
      BY <1>1, <2>1, TradeKeeps
    <3> QED
      BY <1>1, <1>2, <2>1, <3>1 DEF Purses
  <2>2. CASE ~paid
    BY <1>1, <2>2 DEF Purses
  <2> QED
    BY <2>1, <2>2
<1> HIDE DEF left, e
<1>4. goods \in Purses(g.c, e)
  BY <1>2, <1>3, ProducedKeeps
<1>5. EndCycle(g).s = g.s \/ EndCycle(g).s = u
  BY DEF EndCycle, Outcome, left
<1>8. cycle \in Nat
  BY DEF Shells
<1> HIDE DEF goods, cycle
<1>6. u \in Shells(g.c)
  BY <1>4, <1>8 DEF Purses, Shells
<1>7. u.idle = g.s.idle /\ u.assigned = g.s.assigned /\ u.works = g.s.works /\ u.goods["elite"] = g.s.goods["elite"]
  BY <1>4 DEF Shells, Purses, e
<1> HIDE DEF u
<1>9. Staffed(g.c, u)
  BY <1>7 DEF Staffed
<1> QED
  BY <1>5, <1>6, <1>9

\* No move overdraws the shell.
LEMMA ShellRoundKeeps ==
  ASSUME NEW g, ShellGiven(g.c), g.s \in Shells(g.c), Staffed(g.c, g.s), NEW m \in IncrementalMoves(g)
  PROVE  IncrementalRound(g, m).s \in Shells(g.c) /\ Staffed(g.c, IncrementalRound(g, m).s)
<1> DEFINE out == IncrementalRound(g, m)
<1>1. CASE \E t \in g.s.tasks : m = <<"assign", t>> /\ g.s.idle > 0
  <2>1. PICK t \in g.s.tasks : m = <<"assign", t>> /\ g.s.idle > 0
    BY <1>1
  <2> DEFINE idle == g.s.idle - 1
             n == g.s.assigned[t] + 1
  <2>2. t \in DOMAIN g.c.tasks /\ g.s.idle \in Nat /\ g.s.assigned[t] \in Nat
    BY DEF Shells
  <2>3. out.s = Restaffed(g.s, t, idle, n)
    BY <2>1 DEF IncrementalRound, Outcome, Restaffed
  <2>4. idle = g.s.idle - 1 /\ n = g.s.assigned[t] + 1 /\ idle \in Nat /\ n \in Nat
    BY <2>1, <2>2
  <2> HIDE DEF idle, n, out
  <2>5. idle = g.s.idle - 1 /\ n = g.s.assigned[t] + 1 /\ 1 \in {-1, 1}
    BY <2>4
  <2>6. Restaffed(g.s, t, idle, n) \in Shells(g.c) /\ Staffed(g.c, Restaffed(g.s, t, idle, n))
    BY <2>2, <2>4, <2>5, AssignKeeps
  <2> QED
    BY <2>3, <2>6 DEF out
<1>2. CASE \E t \in DOMAIN g.s.assigned : m = <<"unassign", t>> /\ g.s.assigned[t] > 0
  <2>1. PICK t \in DOMAIN g.s.assigned : m = <<"unassign", t>> /\ g.s.assigned[t] > 0
    BY <1>2
  <2> DEFINE idle == g.s.idle + 1
             n == g.s.assigned[t] - 1
             x == Max({g.s.assigned[t] - 1, 0})
  <2>2. t \in DOMAIN g.c.tasks /\ g.s.idle \in Nat /\ g.s.assigned[t] \in Nat
    BY DEF Shells
  <2>3. out.s = Restaffed(g.s, t, idle, x)
    BY <2>1 DEF IncrementalRound, Outcome, Restaffed
  <2>4. idle = g.s.idle + 1 /\ n = g.s.assigned[t] - 1 /\ n \in Nat /\ idle \in Nat
    BY <2>1, <2>2
  <2>5. x = n
    <3>1. x = Max({n, 0})
      OBVIOUS
    <3> HIDE DEF n, x
    <3>2. n \in {n, 0} /\ \A y \in {n, 0} : n >= y
      BY <2>4
    <3> QED
      BY <2>4, <3>1, <3>2 DEF Max
  <2> HIDE DEF idle, n, x, out
  <2>6. g.s.idle - (-1) = idle /\ g.s.assigned[t] + (-1) = n
    BY <2>2, <2>4
  <2> DEFINE d == -1
  <2>7. d \in {-1, 1} /\ idle = g.s.idle - d /\ n = g.s.assigned[t] + d
    BY <2>6
  <2> HIDE DEF d
  <2>8. Restaffed(g.s, t, idle, n) \in Shells(g.c) /\ Staffed(g.c, Restaffed(g.s, t, idle, n))
    BY <2>2, <2>4, <2>7, AssignKeeps
  <2> QED
    BY <2>3, <2>5, <2>8 DEF out
<1>3. CASE \E b \in Buildable(g) : m = <<"build", b>>
  <2>1. PICK b \in Buildable(g) : m = <<"build", b>>
    BY <1>3
  <2>2. b \in DOMAIN g.c.builds /\ Affords(g.s.goods, g.c.builds[b].cost)
    BY DEF Buildable, Shells
  <2>3. out.s = Built(g.s, g.c.builds[b])
    BY <2>1 DEF IncrementalRound, Outcome
  <2> QED
    BY <2>2, <2>3, BuildKeeps
<1>4. CASE \E p \in Promotable(g) : m = <<"promote", p>>
  <2>1. PICK p \in Promotable(g) : m = <<"promote", p>>
    BY <1>4
  <2> DEFINE goods == Earned(Spent(g.s.goods, g.c.promotions[p].cost), g.c.promotions[p].output)
             idle == g.s.idle - g.c.promotions[p].workers
  <2>2. p \in DOMAIN g.c.promotions /\ Affords(g.s.goods, g.c.promotions[p].cost) /\ g.s.idle >= g.c.promotions[p].workers
    BY DEF Promotable, Shells
  <2>3. out.s = Paid(g.s, goods, idle)
    BY <2>1 DEF IncrementalRound, Outcome, Paid
  <2>4. Paid(g.s, goods, idle) \in Shells(g.c) /\ Staffed(g.c, Paid(g.s, goods, idle))
    BY <2>2, PromoteKeeps
  <2> HIDE DEF out
  <2> QED
    BY <2>3, <2>4 DEF out
<1>5. CASE m = <<"end_cycle", NoMove>>
  <2>1. out = EndCycle(g)
    BY <1>5 DEF IncrementalRound
  <2> QED
    BY <2>1, EndCycleKeeps
<1>6. m \in {<<"assign", t>> : t \in IF g.s.idle > 0 THEN g.s.tasks ELSE {}} =>
        \E t \in g.s.tasks : m = <<"assign", t>> /\ g.s.idle > 0
  OBVIOUS
<1>7. m \in {<<"unassign", t>> : t \in {t \in DOMAIN g.s.assigned : g.s.assigned[t] > 0}} =>
        \E t \in DOMAIN g.s.assigned : m = <<"unassign", t>> /\ g.s.assigned[t] > 0
  OBVIOUS
<1> QED
  BY <1>1, <1>2, <1>3, <1>4, <1>5, <1>6, <1>7 DEF IncrementalMoves

-------------------------------------------------------------------------------
(* Attrition and siege.                                                         *)
Reserves(c) == [Types(c) -> Nat]
Within(c, p, reserve) == p \in Reserves(c) /\ \A t \in Types(c) : p[t] <= reserve[t]

\* A product of natural numbers is one.
LEMMA TimesNat ==
  ASSUME NEW a \in Nat, NEW b \in Nat
  PROVE  a * b \in Nat
  OBVIOUS

\* What the configuration gives.
LEMMA ForceTypes ==
  ASSUME NEW c, ForcesGiven(c)
  PROVE  /\ IsFiniteSet(Types(c)) /\ c.weight \in Reserves(c) /\ c.player \in Reserves(c) /\ c.opponentReserve \in Reserves(c)
         /\ c.maxCommit \in Nat /\ c.maxCommit > 0 /\ c.maxMix \in Nat /\ c.maxMix > 0 /\ c.ratio \in Nat /\ c.ratio > 0
  BY DEF ForcesGiven, Reserves

\* Forces, units and powers are natural numbers.
LEMMA ForceNat ==
  ASSUME NEW c, ForcesGiven(c), NEW units \in Reserves(c)
  PROVE  TotalForce(c, units) \in Nat /\ Units(c, units) \in Nat /\ \A types : Power(c, units, types) \in Nat
<1>1. \A t \in Types(c) : units[t] * c.weight[t] \in Nat
  <2> SUFFICES ASSUME NEW t \in Types(c) PROVE units[t] * c.weight[t] \in Nat
    OBVIOUS
  <2>1. units[t] \in Nat /\ c.weight[t] \in Nat
    BY ForceTypes DEF Reserves
  <2> QED
    BY <2>1, TimesNat
<1>2. IsFiniteSet(Types(c))
  BY ForceTypes
<1>3. TotalForce(c, units) \in Nat
  <2> DEFINE f == [t \in Types(c) |-> units[t] * c.weight[t]]
  <2>1. f \in [Types(c) -> Nat]
    BY <1>1
  <2> HIDE DEF f
  <2>2. SumFunction(f) \in Nat
    BY <1>2, <2>1, SumNat
  <2> QED
    BY <2>2 DEF TotalForce, f
<1>4. Units(c, units) \in Nat
  <2> DEFINE f == [t \in Types(c) |-> units[t]]
  <2>1. f \in [Types(c) -> Nat]
    BY DEF Reserves
  <2> HIDE DEF f
  <2>2. SumFunction(f) \in Nat
    BY <1>2, <2>1, SumNat
  <2> QED
    BY <2>2 DEF Units, f
<1>5. ASSUME NEW types PROVE Power(c, units, types) \in Nat
  <2> DEFINE S == Present(c, units) \cap types
             f == [t \in S |-> units[t] * c.weight[t]]
  <2>1. IsFiniteSet(S) /\ S \subseteq Types(c)
    <3>1. S \subseteq Types(c)
      BY DEF Present
    <3> QED
      BY <1>2, <3>1, FS_Subset
  <2> HIDE DEF S
  <2>2. f \in [S -> Nat]
    BY <1>1, <2>1
  <2> HIDE DEF f
  <2>3. SumFunction(f) \in Nat
    BY <2>1, <2>2, SumNat
  <2> QED
    BY <2>3 DEF Power, f, S
<1> QED
  BY <1>3, <1>4, <1>5

\* Casualties are among those who were committed.
LEMMA CasualtiesWithin ==
  ASSUME NEW c, ForcesGiven(c), NEW attacker \in Reserves(c), NEW defender \in Reserves(c)
  PROVE  Within(c, Casualties(c, attacker, defender), defender)
<1> DEFINE budget == CasualtyBudget(c, attacker, defender)
           exposed(t) == {u \in Present(c, defender) : Exposure(c, attacker, u) < Exposure(c, attacker, t)}
           before(t) == SumFunction([u \in exposed(t) |-> defender[u]])
           Hit(t) == Max({0, Min({defender[t], budget - before(t)})})
           k == Casualties(c, attacker, defender)
<1>1. budget \in Int
  <2> DEFINE met == Present(c, defender)
             strong == Favorable(c, met) \cup Neutral(c, met)
             a == Power(c, attacker, strong)
             b == Power(c, attacker, Types(c) \ strong)
             n == Units(c, defender)
             sum == a + b \div c.ratio
  <2>1. a \in Nat /\ b \in Nat /\ n \in Nat
    BY ForceNat
  <2>2. budget = IF Present(c, attacker) = {} \/ met = {} THEN 0 ELSE IF sum < n THEN sum ELSE n
    BY DEF CasualtyBudget
  <2> HIDE DEF a, b, n, budget, met
  <2>3. sum \in Int
    BY <2>1, ForceTypes
  <2> HIDE DEF sum
  <2> QED
    BY <2>1, <2>2, <2>3
<1>2. k = [t \in Types(c) |-> Hit(t)]
  BY DEF Casualties
<1> HIDE DEF budget, k
<1>3. ASSUME NEW t \in Types(c) PROVE Hit(t) \in Nat /\ Hit(t) <= defender[t]
  <2>1. before(t) \in Int
    <3> DEFINE S == exposed(t)
               f == [u \in S |-> defender[u]]
    <3>1. S \subseteq Types(c)
      BY DEF Present
    <3> HIDE DEF S
    <3>2. IsFiniteSet(S) /\ f \in [S -> Nat]
      BY <3>1, ForceTypes, FS_Subset DEF Reserves
    <3> HIDE DEF f
    <3>3. SumFunction(f) \in Nat
      BY <3>2, SumNat
    <3> QED
      BY <3>3 DEF f, S
  <2> DEFINE d == defender[t]
             x == budget - before(t)
             low == Min({d, x})
             least == IF d <= x THEN d ELSE x
             most == IF 0 >= least THEN 0 ELSE least
  <2>2. d \in Nat /\ x \in Int
    BY <1>1, <2>1 DEF Reserves
  <2>6. Hit(t) = Max({0, low})
    OBVIOUS
  <2> HIDE DEF d, x, Hit
  <2>3. least \in {d, x} /\ least <= d /\ \A y \in {d, x} : least <= y
    BY <2>2
  <2>4. low = least
    <3> HIDE DEF least
    <3>1. least \in Int
      BY <2>2, <2>3
    <3> QED
      BY <2>2, <2>3, <3>1 DEF Min
  <2>7. least \in Int
    BY <2>2
  <2> HIDE DEF low, least
  <2>5. most \in {0, low} /\ most \in Nat /\ most <= d /\ \A y \in {0, low} : most >= y
    BY <2>2, <2>3, <2>4, <2>7
  <2>8. Max({0, low}) = most
    <3> HIDE DEF most
    <3> QED
      BY <2>4, <2>5, <2>7 DEF Max
  <2> QED
    BY <2>5, <2>6, <2>8 DEF d
<1> HIDE DEF Hit
<1> QED
  BY <1>2, <1>3 DEF Within, Reserves, k

\* What is lost is subtracted, in units and in force.
LEMMA MinusLosses ==
  ASSUME NEW c, ForcesGiven(c), NEW units \in Reserves(c), NEW losses, Within(c, losses, units)
  PROVE  /\ Minus(units, losses) \in Reserves(c)
         /\ TotalForce(c, Minus(units, losses)) = TotalForce(c, units) - TotalForce(c, losses)
<1> DEFINE u == Minus(units, losses)
<1>1. \A t \in Types(c) : units[t] \in Nat /\ losses[t] \in Nat /\ losses[t] <= units[t] /\ c.weight[t] \in Nat
  BY ForceTypes DEF Within, Reserves
<1>2. u = [t \in Types(c) |-> Max({units[t] - losses[t], 0})]
  BY DEF Minus, Reserves
<1> HIDE DEF u
<1>3. ASSUME NEW t \in Types(c) PROVE u[t] = units[t] - losses[t] /\ u[t] \in Nat
  <2> DEFINE n == units[t] - losses[t]
  <2>1. n \in Nat
    BY <1>1
  <2>2. u[t] = Max({n, 0})
    BY <1>2
  <2>4. n = units[t] - losses[t]
    OBVIOUS
  <2> HIDE DEF n
  <2>3. n \in {n, 0} /\ \A y \in {n, 0} : n >= y
    BY <2>1
  <2> QED
    BY <2>1, <2>2, <2>3, <2>4 DEF Max
<1>4. u \in Reserves(c)
  BY <1>2, <1>3 DEF Reserves
<1>5. TotalForce(c, units) = TotalForce(c, u) + TotalForce(c, losses)
  <2> DEFINE S == Types(c)
             f == [t \in S |-> u[t] * c.weight[t]]
             g == [t \in S |-> losses[t] * c.weight[t]]
             h == [t \in S |-> units[t] * c.weight[t]]
  <2>1. \A t \in S : f[t] \in Int /\ g[t] \in Int /\ h[t] \in Int /\ h[t] = f[t] + g[t]
    <3> SUFFICES ASSUME NEW t \in S
                 PROVE  f[t] \in Int /\ g[t] \in Int /\ h[t] \in Int /\ h[t] = f[t] + g[t]
      OBVIOUS
    <3> DEFINE w == c.weight[t]
               a == u[t]
               b == losses[t]
               n == units[t]
    <3>1. w \in Nat /\ a \in Nat /\ b \in Nat /\ n = a + b
      BY <1>1, <1>3
    <3>2. f[t] = a * w /\ g[t] = b * w /\ h[t] = n * w
      OBVIOUS
    <3> HIDE DEF f, g, h, w, a, b, n
    <3> QED
      BY <3>1, <3>2
  <2>2. f \in [S -> Int] /\ g \in [S -> Int] /\ h \in [S -> Int]
    BY <2>1
  <2>3. IsFiniteSet(S)
    BY ForceTypes
  <2>4. \A t \in S : h[t] = f[t] + g[t]
    BY <2>1
  <2> HIDE DEF f, g, h, S
  <2>5. SumFunction(h) = SumFunction(f) + SumFunction(g)
    BY <2>2, <2>3, <2>4, SumPlus
  <2> QED
    BY <2>5 DEF TotalForce, f, g, h, S
<1>6. TotalForce(c, u) \in Nat /\ TotalForce(c, losses) \in Nat
  BY <1>4, ForceNat DEF Within
<1> QED
  BY <1>4, <1>5, <1>6 DEF u

\* A side that is there can commit one of its units.
LEMMA ProfilesExist ==
  ASSUME NEW c, ForcesGiven(c), NEW reserve \in Reserves(c), Present(c, reserve) # {}
  PROVE  Profiles(c, reserve) # {}
<1> DEFINE S == Types(c)
<1>1. PICK t \in S : reserve[t] > 0
  BY DEF Present
<1> DEFINE p == [u \in S |-> IF u = t THEN 1 ELSE 0]
           f == [u \in S |-> p[u]]
<1>2. f \in [S -> Int] /\ f[t] = 1 /\ \A u \in S \ {t} : f[u] = 0
  BY <1>1
<1>3. p \in [S -> 0..c.maxCommit] /\ \A u \in S : p[u] <= reserve[u]
  <2>1. \A u \in S : p[u] \in 0..c.maxCommit
    BY ForceTypes
  <2>2. \A u \in S : p[u] <= reserve[u]
    BY <1>1 DEF Reserves
  <2> QED
    BY <2>1, <2>2
<1>4. Present(c, p) = {t}
  BY <1>1 DEF Present
<1>7. Units(c, p) = SumFunction(f)
  BY DEF Units
<1> HIDE DEF p, f
<1>5. Units(c, p) = 1
  <2>1. IsFiniteSet(S)
    BY ForceTypes
  <2>2. SumFunction(f) = f[t]
    BY <1>1, <1>2, <2>1, SumOne
  <2> QED
    BY <1>2, <1>7, <2>2
<1>6. Cardinality({t}) = 1
  BY FS_Singleton
<1>8. p \in Profiles(c, reserve)
  BY <1>3, <1>4, <1>5, <1>6, ForceTypes DEF Profiles
<1> QED
  BY <1>8

\* No commitment exceeds the reserve.
LEMMA ProfilesWithin ==
  ASSUME NEW c, ForcesGiven(c), NEW reserve \in Reserves(c), NEW p \in Profiles(c, reserve) \cup {Nothing(c)}
  PROVE  Within(c, p, reserve)
<1>1. CASE p \in Profiles(c, reserve)
  <2>1. p \in [Types(c) -> 0..c.maxCommit] /\ \A t \in Types(c) : p[t] <= reserve[t]
    BY <1>1 DEF Profiles
  <2>2. p \in [Types(c) -> Nat]
    BY <2>1, ForceTypes
  <2> QED
    BY <2>1, <2>2 DEF Within, Reserves
<1>2. CASE p = Nothing(c)
  BY <1>2 DEF Nothing, Within, Reserves
<1> QED
  BY <1>1, <1>2

\* There is a largest commitment.
LEMMA LargestExist ==
  ASSUME NEW c, ForcesGiven(c), NEW reserve \in Reserves(c), NEW all, all = Profiles(c, reserve), all # {}
  PROVE  Largest(c, all) # {} /\ Largest(c, all) \subseteq all
<1> DEFINE N(p) == Units(c, p)
           K(p) == Cardinality(Present(c, p))
<1>1. \A p \in all : N(p) \in Nat /\ N(p) <= c.maxCommit
  BY ForceTypes DEF Profiles
<1>2. \A p \in all : K(p) \in Nat /\ K(p) <= c.maxMix
  <2> SUFFICES ASSUME NEW p \in all PROVE K(p) \in Nat /\ K(p) <= c.maxMix
    OBVIOUS
  <2>1. Present(c, p) \subseteq Types(c)
    BY DEF Present
  <2>2. K(p) \in Nat
    BY <2>1, ForceTypes, FS_Subset, FS_CardinalityType
  <2> QED
    BY <2>2 DEF Profiles
<1>3. c.maxCommit \in Nat /\ c.maxMix \in Nat
  BY ForceTypes
<1>8. Largest(c, all) = {p \in all : \A o \in all : N(o) < N(p) \/ (N(o) = N(p) /\ K(o) <= K(p))}
  BY DEF Largest
<1> HIDE DEF N, K
<1>4. PICK p \in all : \A o \in all : N(o) <= N(p)
  <2> DEFINE U == {c.maxCommit - N(o) : o \in all}
  <2>1. U \in SUBSET Nat /\ U # {}
    BY <1>1, <1>3
  <2>2. PICK x \in U : \A y \in U : x <= y
    BY <2>1, NatMin
  <2>3. PICK p \in all : x = c.maxCommit - N(p)
    BY <2>2
  <2>4. \A o \in all : x <= c.maxCommit - N(o)
    BY <2>2
  <2> QED
    BY <1>1, <1>3, <2>3, <2>4
<1> DEFINE tops == {o \in all : N(o) = N(p)}
<1>5. PICK q \in tops : \A o \in tops : K(o) <= K(q)
  <2> DEFINE U == {c.maxMix - K(o) : o \in tops}
  <2>1. U \in SUBSET Nat /\ U # {}
    BY <1>2, <1>3
  <2>2. PICK x \in U : \A y \in U : x <= y
    BY <2>1, NatMin
  <2>3. PICK q \in tops : x = c.maxMix - K(q)
    BY <2>2
  <2>4. \A o \in tops : x <= c.maxMix - K(o)
    BY <2>2
  <2> QED
    BY <1>2, <1>3, <2>3, <2>4
<1>6. \A o \in all : N(o) < N(q) \/ (N(o) = N(q) /\ K(o) <= K(q))
  <2> SUFFICES ASSUME NEW o \in all, ~(N(o) < N(q)) PROVE N(o) = N(q) /\ K(o) <= K(q)
    OBVIOUS
  <2>1. N(o) = N(q)
    BY <1>1, <1>4
  <2> QED
    BY <1>5, <2>1
<1> QED
  BY <1>5, <1>6, <1>8

\* The sides of a contest, and what each has scored of the other's losses.
Sides(c, s) ==
  {"player", "opponent"} \subseteq DOMAIN s /\ s.player \in Reserves(c) /\ s.opponent \in Reserves(c)
Scored(c, s, score) ==
  /\ score.player = TotalForce(c, c.opponentReserve) - TotalForce(c, s.opponent)
  /\ score.opponent = TotalForce(c, c.player) - TotalForce(c, s.player)

\* What an opponent tells is within its reserve.
LEMMA ForceTells ==
  ASSUME NEW g, ForcesGiven(g.c), Sides(g.c, g.s)
  PROVE  /\ BagTells(g) # {} /\ \A t \in BagTells(g) : Within(g.c, t, g.s.opponent)
         /\ SiegeTells(g) # {} /\ \A t \in SiegeTells(g) : Within(g.c, t, g.s.opponent)
<1> DEFINE all == Profiles(g.c, g.s.opponent)
<1>1. g.s.opponent \in Reserves(g.c)
  BY DEF Sides
<1>2. all # {} => Largest(g.c, all) # {} /\ Largest(g.c, all) \subseteq all
  BY <1>1, LargestExist
<1>3. BagTells(g) # {} /\ BagTells(g) \subseteq all \cup {Nothing(g.c)}
  BY <1>2 DEF BagTells
<1>4. SiegeTells(g) # {} /\ SiegeTells(g) \subseteq all \cup {Nothing(g.c)}
  BY <1>2 DEF SiegeTells
<1>5. \A p \in all \cup {Nothing(g.c)} : Within(g.c, p, g.s.opponent)
  BY <1>1, ProfilesWithin
<1> QED
  BY <1>3, <1>4, <1>5

\* So is what it replies.
LEMMA ForceReplies ==
  ASSUME NEW g, ForcesGiven(g.c), Sides(g.c, g.s), NEW m, NEW tell, Within(g.c, tell, g.s.opponent)
  PROVE  /\ \A o \in BagCommits(g, tell) : Within(g.c, o, g.s.opponent)
         /\ \A o \in Answers(g, m) : Within(g.c, o, g.s.opponent)
<1> DEFINE all == Profiles(g.c, g.s.opponent)
<1>1. g.s.opponent \in Reserves(g.c)
  BY DEF Sides
<1>2. \A p \in all \cup {Nothing(g.c)} : Within(g.c, p, g.s.opponent)
  BY <1>1, ProfilesWithin
<1>3. BagCommits(g, tell) \subseteq all \cup {Nothing(g.c), tell}
  BY DEF BagCommits
<1>4. Answers(g, m) \subseteq all \cup {Nothing(g.c)}
  BY DEF Answers
<1> QED
  BY <1>2, <1>3, <1>4

\* Both sides lose what the other scores.
LEMMA ClashKeeps ==
  ASSUME NEW g, ForcesGiven(g.c), Sides(g.c, g.s), Scored(g.c, g.s, g.score),
         NEW mine, Within(g.c, mine, g.s.player), NEW theirs, Within(g.c, theirs, g.s.opponent), NEW result, NEW v
  PROVE  LET one == Outcome(g, Clashed(g, mine, theirs), Dealt(g, mine, theirs), Dealt(g, theirs, mine), result)
             two == Outcome(g, [Clashed(g, mine, theirs) EXCEPT !.initiative = v],
                            Dealt(g, mine, theirs), Dealt(g, theirs, mine), result)
         IN /\ Sides(g.c, one.s) /\ Scored(g.c, one.s, one.score)
            /\ Sides(g.c, two.s) /\ Scored(g.c, two.s, two.score)
<1> DEFINE c == g.c
           hurt == Casualties(c, theirs, mine)
           dead == Casualties(c, mine, theirs)
           a == Minus(g.s.player, hurt)
           b == Minus(g.s.opponent, dead)
           s == Clashed(g, mine, theirs)
           t == [s EXCEPT !.initiative = v]
           score == [player |-> g.score.player + TotalForce(c, dead), opponent |-> g.score.opponent + TotalForce(c, hurt)]
           one == Outcome(g, s, Dealt(g, mine, theirs), Dealt(g, theirs, mine), result)
           two == Outcome(g, t, Dealt(g, mine, theirs), Dealt(g, theirs, mine), result)
<1>1. g.s.player \in Reserves(c) /\ g.s.opponent \in Reserves(c) /\ {"player", "opponent"} \subseteq DOMAIN g.s
  BY DEF Sides
<1>2. mine \in Reserves(c) /\ theirs \in Reserves(c)
  BY DEF Within
<1>3. Within(c, hurt, mine) /\ Within(c, dead, theirs)
  BY <1>2, CasualtiesWithin
<1>4. one.s = s /\ one.score = score /\ two.s = t /\ two.score = score
  BY DEF Outcome, Dealt
<1>13. s = [g.s EXCEPT !.player = a, !.opponent = b]
  BY Zenon DEF Clashed
<1> HIDE DEF hurt, dead, s, score, one, two
<1>5. Within(c, hurt, g.s.player)
  <2>1. \A x \in Types(c) : hurt[x] \in Nat /\ mine[x] \in Nat /\ g.s.player[x] \in Nat /\ hurt[x] <= mine[x] /\ mine[x] <= g.s.player[x]
    BY <1>1, <1>3 DEF Within, Reserves
  <2>2. \A x \in Types(c) : hurt[x] <= g.s.player[x]
    BY <2>1
  <2> QED
    BY <1>3, <2>2 DEF Within
<1>6. Within(c, dead, g.s.opponent)
  <2>1. \A x \in Types(c) : dead[x] \in Nat /\ theirs[x] \in Nat /\ g.s.opponent[x] \in Nat /\ dead[x] <= theirs[x] /\ theirs[x] <= g.s.opponent[x]
    BY <1>1, <1>3 DEF Within, Reserves
  <2>2. \A x \in Types(c) : dead[x] <= g.s.opponent[x]
    BY <2>1
  <2> QED
    BY <1>3, <2>2 DEF Within
<1>7. a \in Reserves(c) /\ TotalForce(c, a) = TotalForce(c, g.s.player) - TotalForce(c, hurt)
  BY <1>1, <1>5, MinusLosses
<1>8. b \in Reserves(c) /\ TotalForce(c, b) = TotalForce(c, g.s.opponent) - TotalForce(c, dead)
  BY <1>1, <1>6, MinusLosses
<1>9. /\ TotalForce(c, g.s.player) \in Nat /\ TotalForce(c, hurt) \in Nat
      /\ TotalForce(c, g.s.opponent) \in Nat /\ TotalForce(c, dead) \in Nat
      /\ TotalForce(c, c.player) \in Nat /\ TotalForce(c, c.opponentReserve) \in Nat
  BY <1>1, <1>3, ForceNat, ForceTypes DEF Within
<1> HIDE DEF a, b
<1>10. /\ s.player = a /\ s.opponent = b /\ {"player", "opponent"} \subseteq DOMAIN s
       /\ t.player = a /\ t.opponent = b /\ {"player", "opponent"} \subseteq DOMAIN t
  <2>1. s.player = a /\ s.opponent = b /\ DOMAIN s = DOMAIN g.s
    BY <1>1, <1>13
  <2>2. t.player = s.player /\ t.opponent = s.opponent /\ DOMAIN t = DOMAIN s
    BY <1>1, <2>1
  <2> QED
    BY <1>1, <2>1, <2>2
<1>11. /\ score.player = g.score.player + TotalForce(c, dead)
       /\ score.opponent = g.score.opponent + TotalForce(c, hurt)
  BY DEF score
<1>12. /\ score.player = TotalForce(c, c.opponentReserve) - TotalForce(c, b)
       /\ score.opponent = TotalForce(c, c.player) - TotalForce(c, a)
  BY <1>7, <1>8, <1>9, <1>11 DEF Scored
<1> HIDE DEF t
<1>14. Sides(c, s) /\ Scored(c, s, score) /\ Sides(c, t) /\ Scored(c, t, score)
  BY <1>7, <1>8, <1>10, <1>12 DEF Sides, Scored
<1>15. Sides(c, one.s) /\ Scored(c, one.s, one.score) /\ Sides(c, two.s) /\ Scored(c, two.s, two.score)
  BY <1>4, <1>14
<1> QED
  BY <1>15 DEF one, two, s, t, c

\* Two sides that have lost nothing have scored nothing.
LEMMA ForceOpens ==
  ASSUME NEW c, ForcesGiven(c), NEW s, {"player", "opponent"} \subseteq DOMAIN s,
         s.player = c.player, s.opponent = c.opponentReserve,
         NEW score, score = [player |-> 0, opponent |-> 0]
  PROVE  Sides(c, s) /\ Scored(c, s, score)
<1>1. c.player \in Reserves(c) /\ c.opponentReserve \in Reserves(c)
  BY ForceTypes
<1>2. TotalForce(c, c.player) \in Nat /\ TotalForce(c, c.opponentReserve) \in Nat
  BY <1>1, ForceNat
<1>3. score.player = 0 /\ score.opponent = 0
  OBVIOUS
<1> QED
  BY <1>1, <1>2, <1>3 DEF Sides, Scored

\* A round of attrition or siege keeps the sides and their scores.
LEMMA ForceRoundKeeps ==
  ASSUME NEW g, ForcesGiven(g.c), Sides(g.c, g.s), Scored(g.c, g.s, g.score),
         NEW m \in Profiles(g.c, g.s.player), NEW o, Within(g.c, o, g.s.opponent)
  PROVE  /\ Sides(g.c, BagRound(g, m, o).s) /\ Scored(g.c, BagRound(g, m, o).s, BagRound(g, m, o).score)
         /\ Sides(g.c, SiegeRound(g, m, o).s) /\ Scored(g.c, SiegeRound(g, m, o).s, SiegeRound(g, m, o).score)
<1>1. Within(g.c, m, g.s.player)
  BY ProfilesWithin DEF Sides
<1> DEFINE one(result) == Outcome(g, Clashed(g, m, o), Dealt(g, m, o), Dealt(g, o, m), result)
           two(v, result) ==
             Outcome(g, [Clashed(g, m, o) EXCEPT !.initiative = v], Dealt(g, m, o), Dealt(g, o, m), result)
<1>2. ASSUME NEW result, NEW v
      PROVE  /\ Sides(g.c, one(result).s) /\ Scored(g.c, one(result).s, one(result).score)
             /\ Sides(g.c, two(v, result).s) /\ Scored(g.c, two(v, result).s, two(v, result).score)
  BY <1>1, ClashKeeps
<1>3. \E result : BagRound(g, m, o) = one(result)
  BY Zenon DEF BagRound
<1>4. \E v, result : SiegeRound(g, m, o) = two(v, result)
  BY Zenon DEF SiegeRound
<1> HIDE DEF one, two
<1> QED
  BY <1>2, <1>3, <1>4

\* A side that has force left has somebody present.
LEMMA ForceGoesOn ==
  ASSUME NEW g, ForcesGiven(g.c), Sides(g.c, g.s), ForceLeft(g) = "in_process"
  PROVE  Present(g.c, g.s.player) # {}
<1> DEFINE S == Types(g.c)
           f == [t \in S |-> g.s.player[t] * g.c.weight[t]]
<1>1. g.s.player \in Reserves(g.c) /\ g.s.opponent \in Reserves(g.c) /\ g.c.weight \in Reserves(g.c) /\ IsFiniteSet(S)
  BY ForceTypes DEF Sides
<1>2. TotalForce(g.c, g.s.player) \in Nat /\ TotalForce(g.c, g.s.opponent) \in Nat
  BY <1>1, ForceNat
<1>3. TotalForce(g.c, g.s.player) > 0
  <2> DEFINE mine == TotalForce(g.c, g.s.player)
             theirs == TotalForce(g.c, g.s.opponent)
  <2>1. mine \in Nat /\ theirs \in Nat
    BY <1>2
  <2>2. ~(mine <= 0 /\ theirs <= 0) /\ ~(mine <= 0 /\ theirs > 0)
    BY <2>1 DEF ForceLeft
  <2> HIDE DEF mine, theirs
  <2>3. mine > 0
    BY <2>1, <2>2
  <2> QED
    BY <2>3 DEF mine
<1>4. ASSUME Present(g.c, g.s.player) = {} PROVE FALSE
  <2>1. \A t \in S : g.s.player[t] = 0 /\ g.c.weight[t] \in Nat
    BY <1>1, <1>4 DEF Present, Reserves
  <2>2. \A t \in S : f[t] = 0
    BY <2>1
  <2>3. f \in [S -> Int]
    BY <2>2
  <2> HIDE DEF f
  <2>4. SumFunction(f) = 0
    BY <1>1, <2>2, <2>3, SumZero
  <2>5. TotalForce(g.c, g.s.player) = 0
    BY <2>4 DEF TotalForce, f
  <2> QED
    BY <1>3, <2>5
<1> QED
  BY <1>4

-------------------------------------------------------------------------------
(* What the state of a game keeps, by its kind: that what is scarce is          *)
(* accounted for; that a game which goes on is not over; what may be told.      *)
Fits(c, s, score) ==
  /\ c.kind = "nim" => s \in Heaps
  /\ c.kind \in {"bag", "siege"} => Sides(c, s) /\ Scored(c, s, score)
  /\ c.kind = "blackjack" => s \in Hands(c)
  /\ c.kind = "kim" => s \in Trays(c) /\ PaidFor(c, s)
  /\ c.kind = "incremental" => s \in Shells(c) /\ Staffed(c, s)
  /\ c.kind = "credentials" => ShiftFits(c, s)

GoesOn(c, s) ==
  /\ c.kind = "nim" => s.heap > 0
  /\ c.kind \in {"bag", "siege"} => Present(c, s.player) # {}
  /\ c.kind = "blackjack" => s.stood = FALSE
  /\ c.kind = "kim" => s.decision = NoMove
  /\ c.kind = "queue" => s = NoState \/ ~s.metrics

MayTell(c, s, tell) ==
  /\ c.kind = "nim" => tell \in Nat
  /\ c.kind \in {"bag", "siege"} => Within(c, tell, s.opponent)

\* The result of a round that goes on says so.
Tallied(c, s, result) ==
  /\ c.kind = "nim" => result \in {"win", "lose", "continue"} /\ (result = "continue" => s.heap > 0)
  /\ c.kind = "blackjack" =>
       result \in {"win", "lose", "draw", "continue"} /\ (result = "continue" => s.stood = FALSE)
  /\ c.kind = "kim" => result \in {"win", "lose", "continue"} /\ (result = "continue" <=> s.decision = NoMove)

\* What the configuration of a game gives, by its kind.
LEMMA ConfigGives ==
  ASSUME ConfigsAssumption, NEW c \in Configs
  PROVE  /\ c.kind \in GameKinds
         /\ c.kind = "nim" => HeapGiven(c)
         /\ c.kind \in {"bag", "siege"} => ForcesGiven(c)
         /\ c.kind = "blackjack" => DeckGiven(c)
         /\ c.kind = "kim" => TrayGiven(c)
         /\ c.kind = "incremental" => ShellGiven(c)
         /\ c.kind = "credentials" => RosterGiven(c)
  BY DEF ConfigsAssumption

\* A state that the rules may start in accounts for everything, and goes on.
LEMMA OpeningsFit ==
  ASSUME ConfigsAssumption, NEW c \in Configs
  PROVE  /\ c.kind # "queue" => Openings(c) # {}
         /\ \A s \in Openings(c) : Fits(c, s, [player |-> 0, opponent |-> 0]) /\ GoesOn(c, s)
<1> DEFINE score == [player |-> 0, opponent |-> 0]
<1>0. c.kind \in GameKinds
  BY ConfigGives
<1>1. CASE c.kind = "nim"
  <2>1. Openings(c) = {[heap |-> c.heap]} /\ HeapGiven(c)
    BY <1>1, ConfigGives DEF Openings
  <2>2. [heap |-> c.heap] \in Heaps /\ [heap |-> c.heap].heap > 0
    BY <2>1 DEF HeapGiven, Heaps
  <2> QED
    BY <1>1, <2>1, <2>2 DEF Fits, GoesOn
<1>2. CASE c.kind \in {"bag", "siege"}
  <2>1. ForcesGiven(c)
    BY <1>2, ConfigGives
  <2>2. /\ Openings(c) # {}
        /\ \A s \in Openings(c) : {"player", "opponent"} \subseteq DOMAIN s
                                  /\ s.player = c.player /\ s.opponent = c.opponentReserve
    <3> DEFINE one == [player |-> c.player, opponent |-> c.opponentReserve]
               two == [player |-> c.player, opponent |-> c.opponentReserve, initiative |-> c.initiative]
    <3>1. Openings(c) = {one} \/ Openings(c) = {two}
      BY <1>2 DEF Openings
    <3>2. /\ {"player", "opponent"} \subseteq DOMAIN one /\ one.player = c.player /\ one.opponent = c.opponentReserve
          /\ {"player", "opponent"} \subseteq DOMAIN two /\ two.player = c.player /\ two.opponent = c.opponentReserve
      OBVIOUS
    <3> HIDE DEF one, two
    <3> QED
      BY <3>1, <3>2
  <2>3. \A s \in Openings(c) : Sides(c, s) /\ Scored(c, s, score)
    BY <2>1, <2>2, ForceOpens
  <2>4. \A s \in Openings(c) : Present(c, s.player) # {}
    BY <2>1, <2>2 DEF ForcesGiven
  <2> QED
    BY <1>2, <2>2, <2>3, <2>4 DEF Fits, GoesOn
<1>3. CASE c.kind = "blackjack"
  <2>1. Openings(c) = BlackjackOpenings(c) /\ DeckGiven(c)
    BY <1>3, ConfigGives DEF Openings
  <2>2. Openings(c) # {}
    BY <2>1 DEF BlackjackOpenings, DeckGiven
  <2>3. \A s \in Openings(c) : s \in Hands(c) /\ s.stood = FALSE
    BY <2>1, BlackjackOpens
  <2> QED
    BY <1>3, <2>2, <2>3 DEF Fits, GoesOn
<1>4. CASE c.kind = "kim"
  <2>1. Openings(c) = KimOpenings(c) /\ TrayGiven(c)
    BY <1>4, ConfigGives DEF Openings
  <2>2. Openings(c) # {}
    BY <2>1 DEF KimOpenings, TrayGiven
  <2>3. \A s \in Openings(c) : s \in Trays(c) /\ PaidFor(c, s) /\ s.decision = NoMove
    BY <2>1, KimOpens
  <2> QED
    BY <1>4, <2>2, <2>3 DEF Fits, GoesOn
<1>5. CASE c.kind = "incremental"
  <2>1. Openings(c) = {IncrementalOpening(c)} /\ ShellGiven(c)
    BY <1>5, ConfigGives DEF Openings
  <2>2. IncrementalOpening(c) \in Shells(c) /\ Staffed(c, IncrementalOpening(c))
    BY <2>1, ShellOpens
  <2> QED
    BY <1>5, <2>1, <2>2 DEF Fits, GoesOn
<1>6. CASE c.kind = "credentials"
  <2>1. Openings(c) = {ShiftOpening(c)} /\ RosterGiven(c)
    BY <1>6, ConfigGives DEF Openings
  <2>2. ShiftFits(c, ShiftOpening(c))
    BY <2>1, ShiftOpens
  <2> QED
    BY <1>6, <2>1, <2>2 DEF Fits, GoesOn
<1>7. CASE c.kind = "queue"
  <2>1. \A s \in Openings(c) : s = OpenQueue(c)
    BY <1>7 DEF Openings
  <2>2. ~OpenQueue(c).metrics
    BY DEF OpenQueue
  <2> QED
    BY <1>7, <2>1, <2>2 DEF Fits, GoesOn
<1>8. CASE c.kind \in Plain
  <2>1. Openings(c) # {}
    BY <1>8 DEF Openings, Plain
  <2> QED
    BY <1>8, <2>1 DEF Fits, GoesOn, Plain
<1> QED
  BY <1>0, <1>1, <1>2, <1>3, <1>4, <1>5, <1>6, <1>7, <1>8 DEF GameKinds, Plain

\* While a game goes on the opponent has a choice, and what it may tell is fit.
LEMMA TellsFit ==
  ASSUME ConfigsAssumption, NEW h, h.c \in Configs, NEW score, Fits(h.c, h.s, score), GoesOn(h.c, h.s)
  PROVE  Tells(h) # {} /\ \A t \in Tells(h) : MayTell(h.c, h.s, t)
<1>0. h.c.kind \in GameKinds
  BY ConfigGives
<1>1. CASE h.c.kind = "nim"
  <2>1. NimTells(h) # {} /\ NimTells(h) \subseteq Nat
    BY <1>1, ConfigGives, NimGoesOn DEF Fits, GoesOn
  <2>2. Tells(h) = NimTells(h)
    BY <1>1 DEF Tells
  <2> QED
    BY <1>1, <2>1, <2>2 DEF MayTell
<1>2. CASE h.c.kind \in {"bag", "siege"}
  <2>1. ForcesGiven(h.c) /\ Sides(h.c, h.s)
    BY <1>2, ConfigGives DEF Fits
  <2>2. Tells(h) = BagTells(h) \/ Tells(h) = SiegeTells(h)
    BY <1>2 DEF Tells
  <2>3. /\ BagTells(h) # {} /\ \A t \in BagTells(h) : Within(h.c, t, h.s.opponent)
        /\ SiegeTells(h) # {} /\ \A t \in SiegeTells(h) : Within(h.c, t, h.s.opponent)
    BY <2>1, ForceTells
  <2> QED
    BY <1>2, <2>2, <2>3 DEF MayTell
<1>3. CASE h.c.kind \in Plain
  BY <1>3, PlainGoesOn DEF MayTell, Plain
<1>4. CASE h.c.kind \in {"blackjack", "kim", "incremental", "queue", "credentials"}
  BY <1>4 DEF Tells, MayTell
<1> QED
  BY <1>0, <1>1, <1>2, <1>3, <1>4 DEF GameKinds, Plain

\* A move that the rules allow, and the opponent's reply to it, account for
\* everything again.
LEMMA RoundFits ==
  ASSUME ConfigsAssumption, NEW g, g.c \in Configs, Fits(g.c, g.s, g.score), GoesOn(g.c, g.s), MayTell(g.c, g.s, g.tell),
         NEW m \in Moves(g), NEW o \in Replies(g, m), NEW out \in Rounds(g, m, o)
  PROVE  Fits(g.c, out.s, out.score) /\ Tallied(g.c, out.s, out.result)
<1>0. g.c.kind \in GameKinds
  BY ConfigGives
<1>1. CASE g.c.kind = "nim"
  <2>1. HeapGiven(g.c) /\ g.s \in Heaps /\ m \in Takes(g) /\ o \in Nat /\ out = NimRound(g, m, o)
    BY <1>1, ConfigGives DEF Fits, MayTell, Moves, Replies, Rounds
  <2>2. out.s \in Heaps /\ out.result \in {"win", "lose", "continue"} /\ (out.result = "continue" => out.s.heap > 0)
    BY <2>1, NimRoundKeeps
  <2> QED
    BY <1>1, <2>2 DEF Fits, Tallied
<1>2. CASE g.c.kind \in {"bag", "siege"}
  <2>1. ForcesGiven(g.c) /\ Sides(g.c, g.s) /\ Scored(g.c, g.s, g.score) /\ Within(g.c, g.tell, g.s.opponent)
    BY <1>2, ConfigGives DEF Fits, MayTell
  <2>2. m \in Profiles(g.c, g.s.player) /\ (out = BagRound(g, m, o) \/ out = SiegeRound(g, m, o))
    BY <1>2 DEF Moves, Rounds
  <2>3. o \in BagCommits(g, g.tell) \/ o \in Answers(g, m) \/ o = g.tell
    BY <1>2 DEF Replies
  <2>4. Within(g.c, o, g.s.opponent)
    BY <2>1, <2>3, ForceReplies
  <2>5. Sides(g.c, out.s) /\ Scored(g.c, out.s, out.score)
    BY <2>1, <2>2, <2>4, ForceRoundKeeps
  <2> QED
    BY <1>2, <2>5 DEF Fits, Tallied
<1>3. CASE g.c.kind = "blackjack"
  <2>1. DeckGiven(g.c) /\ g.s \in Hands(g.c) /\ g.s.stood = FALSE /\ out \in BlackjackRounds(g, m)
    BY <1>3, ConfigGives DEF Fits, GoesOn, Rounds
  <2>2. /\ out.s \in Hands(g.c) /\ out.result \in {"win", "lose", "draw", "continue"}
        /\ out.result = "continue" => out.s.stood = FALSE
    BY <2>1, BlackjackRoundKeeps
  <2> QED
    BY <1>3, <2>2 DEF Fits, Tallied
<1>4. CASE g.c.kind = "kim"
  <2>1. /\ TrayGiven(g.c) /\ g.s \in Trays(g.c) /\ PaidFor(g.c, g.s) /\ g.s.decision = NoMove
        /\ m \in KimMoves(g) /\ out = KimRound(g, m)
    BY <1>4, ConfigGives DEF Fits, GoesOn, Moves, Rounds
  <2>2. /\ out.s \in Trays(g.c) /\ PaidFor(g.c, out.s) /\ out.result \in {"win", "lose", "continue"}
        /\ (out.result = "continue" <=> out.s.decision = NoMove)
    BY <2>1, KimRoundKeeps
  <2> QED
    BY <1>4, <2>2 DEF Fits, Tallied
<1>5. CASE g.c.kind = "incremental"
  <2>1. ShellGiven(g.c) /\ g.s \in Shells(g.c) /\ Staffed(g.c, g.s) /\ m \in IncrementalMoves(g) /\ out = IncrementalRound(g, m)
    BY <1>5, ConfigGives DEF Fits, Moves, Rounds
  <2>2. out.s \in Shells(g.c) /\ Staffed(g.c, out.s)
    BY <2>1, ShellRoundKeeps
  <2> QED
    BY <1>5, <2>2 DEF Fits, Tallied
<1>6. CASE g.c.kind = "credentials"
  <2>1. RosterGiven(g.c) /\ ShiftFits(g.c, g.s) /\ m \in CheckpointMoves(g) /\ out = CheckpointRound(g, m)
    BY <1>6, ConfigGives DEF Fits, Moves, Rounds
  <2>2. ShiftFits(g.c, out.s)
    BY <2>1, ShiftRoundKeeps
  <2> QED
    BY <1>6, <2>2 DEF Fits, Tallied
<1>7. CASE g.c.kind \in Plain \cup {"queue"}
  BY <1>7 DEF Fits, Tallied, Plain
<1> QED
  BY <1>0, <1>1, <1>2, <1>3, <1>4, <1>5, <1>6, <1>7 DEF GameKinds, Plain

\* A game that the scoring leaves open goes on.
LEMMA OpenGoesOn ==
  ASSUME ConfigsAssumption, NEW h, h.c \in Configs, Fits(h.c, h.s, h.score), h.history.count # 0,
         Tallied(h.c, h.s, h.history.result)
  PROVE  /\ Evaluate(h) = "in_process" => GoesOn(h.c, h.s)
         /\ h.c.kind = "kim" => (Evaluate(h) = "in_process" <=> h.s.decision = NoMove)
<1>0. h.c.kind \in GameKinds
  BY ConfigGives
<1>1. CASE h.c.kind \in {"nim", "blackjack", "kim"}
  <2>1. Evaluate(h) = SingleRound(h)
    BY <1>1 DEF Evaluate
  <2>2. SingleRound(h) = IF h.history.result = "continue" THEN "in_process" ELSE h.history.result
    BY DEF SingleRound
  <2>3. h.history.result \in {"win", "lose", "draw", "continue"}
    BY <1>1 DEF Tallied
  <2>4. Evaluate(h) = "in_process" <=> h.history.result = "continue"
    BY <2>1, <2>2, <2>3
  <2> QED
    BY <1>1, <2>4 DEF Tallied, GoesOn
<1>2. CASE h.c.kind \in {"bag", "siege"}
  <2>1. Evaluate(h) = ForceLeft(h)
    BY <1>2 DEF Evaluate
  <2>2. ForcesGiven(h.c) /\ Sides(h.c, h.s)
    BY <1>2, ConfigGives DEF Fits
  <2>3. Evaluate(h) = "in_process" => Present(h.c, h.s.player) # {}
    BY <2>1, <2>2, ForceGoesOn
  <2> QED
    BY <1>2, <2>3 DEF GoesOn
<1>3. CASE h.c.kind = "queue"
  BY <1>3 DEF Evaluate, GoesOn
<1>4. CASE h.c.kind \in Plain \cup {"incremental", "credentials"}
  BY <1>4 DEF GoesOn, Plain
<1> QED
  BY <1>0, <1>1, <1>2, <1>3, <1>4 DEF GameKinds, Plain

\* What may be played does not depend on the round that has begun.
LEMMA BegunMoves ==
  ASSUME NEW g, g.c.kind \in GameKinds, NEW b, b.c = g.c, b.s = g.s, b.result = g.result
  PROVE  Moves(b) = Moves(g)
<1>1. CASE g.c.kind = "trivial"
  BY <1>1 DEF Moves
<1>2. CASE g.c.kind = "throws"
  BY <1>2 DEF Moves
<1>3. CASE g.c.kind = "nim"
  BY <1>3 DEF Moves, Takes
<1>4. CASE g.c.kind \in {"bag", "siege"}
  BY <1>4 DEF Moves
<1>5. CASE g.c.kind = "corridor"
  BY <1>5 DEF Moves
<1>6. CASE g.c.kind = "phrases"
  BY <1>6 DEF Moves, PhraseMoves
<1>7. CASE g.c.kind = "blackjack"
  BY <1>7 DEF Moves, BlackjackMoves
<1>8. CASE g.c.kind = "kim"
  BY <1>8 DEF Moves, KimMoves
<1>9. CASE g.c.kind = "incremental"
  <2>1. Buildable(b) = Buildable(g) /\ Promotable(b) = Promotable(g)
    BY DEF Buildable, Promotable
  <2>2. IncrementalMoves(b) = IncrementalMoves(g)
    BY <2>1 DEF IncrementalMoves
  <2> QED
    BY <1>9, <2>2 DEF Moves
<1>10. CASE g.c.kind = "queue"
  BY <1>10 DEF Moves, QueueMoves
<1>11. CASE g.c.kind = "credentials"
  <2>1. Current(b) = Current(g) /\ \A key : Asked(b, key) = Asked(g, key)
    BY DEF Current, Asked
  <2>2. LacksId(b) = LacksId(g) /\ SomethingDeclared(b) = SomethingDeclared(g)
    BY <2>1 DEF LacksId, SomethingDeclared
  <2>3. Inspections(b) = Inspections(g) /\ Reviews(b) = Reviews(g) /\ Decisions(b) = Decisions(g)
    BY <2>1 DEF Inspections, Reviews, Decisions
  <2>4. Requests(b) = Requests(g)
    BY <2>1, <2>2 DEF Requests
  <2>5. CheckpointMoves(b) = CheckpointMoves(g)
    BY <2>3, <2>4 DEF CheckpointMoves
  <2> QED
    BY <1>11, <2>5 DEF Moves
<1> QED
  BY <1>1, <1>2, <1>3, <1>4, <1>5, <1>6, <1>7, <1>8, <1>9, <1>10, <1>11 DEF GameKinds

\* A game that goes on offers something.
LEMMA OffersExist ==
  ASSUME ConfigsAssumption, NEW g, g.c \in Configs, Fits(g.c, g.s, g.score), GoesOn(g.c, g.s), g.result = "in_process"
  PROVE  Provisioned(g) # {}
<1>0. g.c.kind \in GameKinds
  BY ConfigGives
<1>1. CASE g.c.kind = "nim"
  <2>1. Takes(g) # {}
    BY <1>1, ConfigGives, NimGoesOn DEF Fits, GoesOn
  <2> QED
    BY <1>1, <2>1 DEF Provisioned
<1>2. CASE g.c.kind \in {"bag", "siege"}
  <2>1. Profiles(g.c, g.s.player) # {}
    BY <1>2, ConfigGives, ProfilesExist DEF Fits, GoesOn, Sides
  <2> QED
    BY <1>2, <2>1 DEF Provisioned, Moves
<1>3. CASE g.c.kind = "blackjack"
  <2>1. BlackjackMoves(g) # {}
    BY <1>3 DEF BlackjackMoves, GoesOn
  <2> QED
    BY <1>3, <2>1 DEF Provisioned, Moves
<1>4. CASE g.c.kind = "kim"
  <2>1. g.c.tray # {}
    BY <1>4, ConfigGives DEF TrayGiven
  <2>3. PICK item \in g.c.tray : TRUE
    BY <2>1
  <2>2. <<"decide", item>> \in KimMoves(g)
    BY <2>3 DEF KimMoves
  <2> QED
    BY <1>4, <2>2 DEF Provisioned, Moves
<1>5. CASE g.c.kind = "incremental"
  <2>1. IncrementalMoves(g) # {}
    BY DEF IncrementalMoves
  <2> QED
    BY <1>5, <2>1 DEF Provisioned, Moves
<1>6. CASE g.c.kind = "queue"
  <2>1. QueueMoves(g) # {}
    BY <1>6 DEF QueueMoves, GoesOn
  <2> QED
    BY <1>6, <2>1 DEF Provisioned, Moves
<1>7. CASE g.c.kind = "credentials"
  <2>1. CheckpointActions(g) # {}
    BY <1>7, ConfigGives, ShiftGoesOn DEF Fits
  <2> QED
    BY <1>7, <2>1 DEF Provisioned
<1>8. CASE g.c.kind \in Plain
  <2>1. Moves(g) # {}
    BY <1>8, PlainGoesOn
  <2> QED
    BY <1>8, <2>1 DEF Provisioned, Plain
<1> QED
  BY <1>0, <1>1, <1>2, <1>3, <1>4, <1>5, <1>6, <1>7, <1>8 DEF GameKinds, Plain

\* What is offered and not refused may be played.
LEMMA SubmittedLegal ==
  ASSUME NEW g, NEW a \in Provisioned(g), NEW m \in Submitted(g, a), ~Refused(g, m)
  PROVE  m \in Moves(g)
<1>1. CASE g.c.kind \in {"nim", "credentials"}
  BY <1>1 DEF Refused
<1>2. CASE g.c.kind \notin {"nim", "credentials"}
  <2>1. m = a /\ Provisioned(g) = Moves(g)
    BY <1>2 DEF Submitted, Provisioned
  <2> QED
    BY <2>1
<1> QED
  BY <1>1, <1>2

-------------------------------------------------------------------------------
(* A game of which a frame that raised has left nothing half done: the books    *)
(* agree with the state, and what is ready goes on.                             *)
Held(g) ==
  /\ g.phase \in {"pending", "ready", "terminal"} /\ g.history.count = g.round
  /\ IF g.phase = "pending" THEN g.s = NoState ELSE Fits(g.c, g.s, g.score)
  /\ g.c.kind = "kim" /\ g.phase # "pending" => (g.result = "in_process" <=> g.s.decision = NoMove)
  /\ g.phase = "ready" => g.result = "in_process" /\ GoesOn(g.c, g.s) /\ MayTell(g.c, g.s, g.tell)

\* What was announced in a state that goes on is fit, and nothing raised.
LEMMA AnnouncedFit ==
  ASSUME ConfigsAssumption, NEW g, g.c \in Configs, Fits(g.c, g.s, g.score), GoesOn(g.c, g.s),
         NEW raised \in BOOLEAN, Announced(g, raised)
  PROVE  ~raised /\ MayTell(g.c, g.s, g.tell)
<1>1. PICK h : h.c = g.c /\ h.s = g.s /\ IF raised THEN Tells(h) = {} ELSE g.tell \in Tells(h)
  BY DEF Announced
<1>2. Tells(h) # {} /\ \A t \in Tells(h) : MayTell(h.c, h.s, t)
  BY <1>1, TellsFit
<1> QED
  BY <1>1, <1>2

\* A setup that does not raise holds; only that of a simulation may raise.
LEMMA SetupHeld ==
  ASSUME ConfigsAssumption, NEW g, g.c \in Configs, NEW end \in Setup(g), g.c.kind # "queue" \/ ~end.raised
  PROVE  Held(end.g) /\ ~end.raised
<1>1. SetUp(g, end)
  BY SetupGives
<1>2. /\ end.g.c = g.c /\ end.g.phase = "ready" /\ end.g.result = "in_process" /\ end.g.round = 0
      /\ end.g.history = Fresh(g.c).history /\ end.raised \in BOOLEAN /\ end.g.score = [player |-> 0, opponent |-> 0]
      /\ (end.raised /\ Openings(g.c) = {}) \/ (end.g.s \in Openings(g.c) /\ Announced(end.g, end.raised))
  BY <1>1 DEF SetUp
<1>3. end.g.s \in Openings(g.c) /\ Announced(end.g, end.raised)
  BY <1>2, OpeningsFit
<1>4. Fits(end.g.c, end.g.s, end.g.score) /\ GoesOn(end.g.c, end.g.s)
  BY <1>2, <1>3, OpeningsFit
<1>5. ~end.raised /\ MayTell(end.g.c, end.g.s, end.g.tell)
  BY <1>2, <1>3, <1>4, AnnouncedFit
<1>6. end.g.history.count = 0
  BY <1>2 DEF Fresh
<1>7. end.g.c.kind = "kim" => end.g.s.decision = NoMove
  BY <1>4 DEF GoesOn
<1> QED
  BY <1>2, <1>4, <1>5, <1>6, <1>7 DEF Held

\* So does the play of a legal move.
LEMMA ReceiveHeld ==
  ASSUME ConfigsAssumption, NEW g, Shaped(g), Held(g), g.phase = "ready", NEW m \in Moves(g),
         NEW end \in ReceiveMove(g, m), g.c.kind # "queue" \/ ~end.raised
  PROVE  Held(end.g) /\ ~end.raised
<1> DEFINE b == Begun(g)
<1>1. IsGame(g) /\ g.c \in Configs /\ Told(g.history) /\ g.round \in Nat
  BY DEF Shaped
<1>2. PICK o \in Replies(b, m) : \E out \in Rounds(b, m, o) : Played(g, m, o, out, end)
  BY <1>1, ReceiveGives
<1>3. PICK out \in Rounds(b, m, o) : Played(g, m, o, out, end)
  BY <1>2
<1>4. b.c = g.c /\ b.s = g.s /\ b.result = g.result /\ b.score = g.score /\ b.tell = g.tell
  BY <1>1, BegunGives
<1> HIDE DEF b
<1>5. g.c.kind \in GameKinds
  BY <1>1, ConfigGives
<1>6. m \in Moves(b)
  BY <1>4, <1>5, BegunMoves
<1>7. Fits(g.c, out.s, out.score) /\ Tallied(g.c, out.s, out.result)
  BY <1>1, <1>3, <1>4, <1>6, RoundFits DEF Held
<1>8. out.result # "raise"
  <2>1. CASE g.c.kind = "queue"
    BY <1>3, <2>1 DEF Played
  <2>2. CASE g.c.kind # "queue"
    <3>1. g.c.kind = "trivial" => m \in TrivialMoves
      BY DEF Moves
    <3> QED
      BY <1>3, <1>4, <1>5, <2>2, <3>1, RoundResults
  <2> QED
    BY <2>1, <2>2
<1>9. /\ end.g.c = g.c /\ end.g.s = out.s /\ end.g.score = out.score /\ end.g.round = g.round + 1
      /\ end.raised \in BOOLEAN /\ end.g.history = Recorded(g.history, m, o, out.result)
      /\ IF end.g.result # "in_process" THEN end.g.phase = "terminal" /\ ~end.raised
         ELSE end.g.phase = "ready" /\ Announced(end.g, end.raised)
  BY <1>3, <1>8 DEF Played
<1>10. PICK h : Judged(g, m, o, out, h) /\ end.g.result = Evaluate(h)
  BY <1>3, <1>8 DEF Played
<1>11. end.g.history.count = g.history.count + 1 /\ end.g.history.result = out.result
  BY <1>9 DEF Recorded
<1>12. h.c = g.c /\ h.s = out.s /\ h.score = out.score /\ h.history = end.g.history
  BY <1>9, <1>10 DEF Judged
<1>13. end.g.history.count = end.g.round /\ end.g.history.count # 0
  BY <1>1, <1>9, <1>11 DEF Held, Told
<1>14. /\ end.g.result = "in_process" => GoesOn(end.g.c, end.g.s)
       /\ end.g.c.kind = "kim" => (end.g.result = "in_process" <=> end.g.s.decision = NoMove)
  BY <1>1, <1>7, <1>9, <1>10, <1>11, <1>12, <1>13, OpenGoesOn
<1>15. ASSUME end.g.result = "in_process" PROVE ~end.raised /\ MayTell(end.g.c, end.g.s, end.g.tell)
  BY <1>1, <1>7, <1>9, <1>14, <1>15, AnnouncedFit
<1>16. ~end.raised
  BY <1>9, <1>15
<1>17. Fits(end.g.c, end.g.s, end.g.score)
  BY <1>7, <1>9
<1> QED
  BY <1>9, <1>13, <1>14, <1>15, <1>16, <1>17 DEF Held

-------------------------------------------------------------------------------
(* The stronger invariant. A simulation that raised may be left half done, and  *)
(* is, in a session that keeps what a failed frame did.                         *)
Whole == game.c.kind # "queue" \/ ~keeps
PlayInv == GamesInv /\ (Whole => Held(game) /\ actions = Projected(game))

\* A game starts held.
LEMMA PlayInit == ASSUME ConfigsAssumption, Init PROVE PlayInv
<1>1. PICK c \in Configs : game = Fresh(c)
  BY DEF Init
<1>2. /\ game.phase = "pending" /\ game.result = "in_process" /\ game.s = NoState /\ game.round = 0
      /\ game.history.count = 0
  BY <1>1 DEF Fresh
<1>3. actions = {} /\ Projected(game) = {}
  BY <1>2 DEF Init, Projected
<1>4. Held(game)
  BY <1>2 DEF Held
<1> QED
  BY <1>3, <1>4, GamesInit DEF PlayInv

\* A frame that ends leaves the actions of the game that it leaves.
LEMMA EndsHeld ==
  ASSUME NEW g, Held(g), Ends(g)
  PROVE  Held(game') /\ actions' = Projected(game') /\ game' = g /\ keeps' = keeps
  BY DEF Ends

\* Every frame keeps the stronger invariant.
LEMMA PlayStep ==
  ASSUME ConfigsAssumption, PlayInv, [Next]_vars
  PROVE  PlayInv'
<1>1. GamesInv'
  BY GamesStep DEF PlayInv
<1>2. Shaped(game) /\ game.c \in Configs
  BY DEF PlayInv, GamesInv, Shaped
<1> SUFFICES Whole' => Held(game') /\ actions' = Projected(game')
  BY <1>1 DEF PlayInv
<1>3. CASE Arrive
  <2>1. PICK end \in IF game.phase = "pending" THEN Setup(game) ELSE {Done(game)} :
          IF end.raised THEN Fails(end.g, Projected(game)) ELSE Ends(end.g)
    BY <1>3 DEF Arrive
  <2>2. CASE game.phase = "pending"
    <3>1. end \in Setup(game) /\ end.g.c = game.c
      BY <1>2, <2>1, <2>2, SetupShaped
    <3>2. CASE game.c.kind # "queue" \/ ~end.raised
      <4>1. Held(end.g) /\ ~end.raised
        BY <1>2, <3>1, <3>2, SetupHeld
      <4> QED
        BY <2>1, <4>1, EndsHeld
    <3>3. CASE game.c.kind = "queue" /\ end.raised
      <4>1. ~keeps => UNCHANGED <<game, actions, keeps>>
        BY <2>1, <3>3 DEF Fails
      <4>2. keeps => ~Whole'
        BY <2>1, <3>1, <3>3 DEF Fails, Whole
      <4> QED
        BY <4>1, <4>2 DEF Whole, PlayInv
    <3> QED
      BY <3>2, <3>3
  <2>3. CASE game.phase # "pending"
    <3>1. end.g = game /\ ~end.raised
      BY <2>1, <2>3 DEF Done
    <3>2. Ends(game)
      BY <2>1, <3>1
    <3>3. CASE Whole
      BY <3>2, <3>3, EndsHeld DEF PlayInv
    <3>4. CASE ~Whole
      BY <3>2, <3>4 DEF Ends, Whole
    <3> QED
      BY <3>3, <3>4
  <2> QED
    BY <2>2, <2>3
<1>4. CASE Choose
  <2>1. PICK a \in actions : \E m \in Submitted(game, a) :
          IF Refused(game, m) THEN Fails(game, Projected(game))
          ELSE \E end \in ReceiveMove(game, m) :
                 IF end.raised THEN Fails(end.g, Projected(game)) ELSE Ends(end.g)
    BY <1>4 DEF Choose
  <2>2. PICK m \in Submitted(game, a) :
          IF Refused(game, m) THEN Fails(game, Projected(game))
          ELSE \E end \in ReceiveMove(game, m) :
                 IF end.raised THEN Fails(end.g, Projected(game)) ELSE Ends(end.g)
    BY <2>1
  <2>3. CASE Refused(game, m)
    <3>1. game' = game /\ keeps' = keeps /\ (actions' = Projected(game) \/ actions' = actions)
      BY <2>2, <2>3 DEF Fails
    <3> QED
      BY <3>1 DEF Whole, PlayInv
  <2>4. CASE ~Refused(game, m)
    <3>1. PICK end \in ReceiveMove(game, m) :
            IF end.raised THEN Fails(end.g, Projected(game)) ELSE Ends(end.g)
      BY <2>2, <2>4
    <3>2. game.phase = "ready"
      BY <1>4 DEF Choose
    <3>3. end.g.c = game.c
      <4>1. game.c.kind \in {"trivial", "queue"} => m = a
        BY <2>2 DEF Submitted
      <4>2. game.c.kind = "trivial" => m \in TrivialMoves
        BY <2>1, <4>1 DEF PlayInv, GamesInv, Apt
      <4>3. Simulates(game.c) /\ m = "run_next" => game.s.calendar # {}
        BY <2>1, <3>2, <4>1 DEF PlayInv, GamesInv, Apt, Simulates
      <4> QED
        BY <1>2, <3>1, <3>2, <4>2, <4>3, ReceiveShaped
    <3>4. CASE Whole
      <4>1. Held(game) /\ actions = Projected(game)
        BY <3>4 DEF PlayInv
      <4>2. a \in Provisioned(game)
        BY <2>1, <3>2, <4>1 DEF Projected, Held
      <4>3. m \in Moves(game)
        BY <2>2, <2>4, <4>2, SubmittedLegal
      <4>4. CASE game.c.kind # "queue" \/ ~end.raised
        <5>1. Held(end.g) /\ ~end.raised
          BY <1>2, <3>1, <3>2, <4>1, <4>3, <4>4, ReceiveHeld
        <5> QED
          BY <3>1, <5>1, EndsHeld
      <4>5. CASE game.c.kind = "queue" /\ end.raised
        <5>1. UNCHANGED <<game, actions, keeps>>
          BY <3>1, <3>4, <4>5 DEF Fails, Whole
        <5> QED
          BY <4>1, <5>1
      <4> QED
        BY <4>4, <4>5
    <3>5. CASE ~Whole
      <4>1. game.c.kind = "queue" /\ keeps
        BY <3>5 DEF Whole
      <4>2. game' = end.g /\ keeps' = keeps
        BY <3>1, <4>1 DEF Fails, Ends
      <4>3. ~Whole'
        BY <3>3, <4>1, <4>2 DEF Whole
      <4> QED
        BY <4>3
    <3> QED
      BY <3>4, <3>5
  <2> QED
    BY <2>3, <2>4
<1>5. CASE ChooseStale
  <2>1. Ends(game)
    BY <1>5 DEF ChooseStale
  <2>2. CASE Whole
    BY <2>1, <2>2, EndsHeld DEF PlayInv
  <2>3. CASE ~Whole
    BY <2>1, <2>3 DEF Ends, Whole
  <2> QED
    BY <2>2, <2>3
<1>6. CASE UNCHANGED vars
  BY <1>6 DEF vars, Whole, PlayInv
<1> QED
  BY <1>3, <1>4, <1>5, <1>6 DEF Next

\* In a game that is held what is scarce is accounted for.
LEMMA HeldAccounts ==
  ASSUME ConfigsAssumption, game.c \in Configs, game.c.kind # "queue" => Held(game)
  PROVE  NothingOverdrawn
<1>0. ASSUME game.c.kind # "queue", game.s # NoState PROVE game.phase # "pending" /\ Fits(game.c, game.s, game.score)
  BY <1>0 DEF Held
<1>1. ASSUME game.c.kind = "incremental", game.s # NoState
      PROVE  /\ \A x \in DOMAIN game.s.goods : game.s.goods[x] >= 0
             /\ game.s.idle >= 0
             /\ game.s.idle + SumFunction(game.s.assigned)
                  = game.c.workers + game.c.perWork * SumFunction(game.s.works) - game.c.perElite * game.s.goods["elite"]
  <2>1. game.s \in Shells(game.c) /\ Staffed(game.c, game.s)
    BY <1>0, <1>1 DEF Fits
  <2> QED
    BY <2>1 DEF Shells, Staffed, Bundles
<1>2. ASSUME game.c.kind = "blackjack", game.s # NoState
      PROVE  /\ game.s.deck \cup game.s.player \cup game.s.dealer = game.c.cards
             /\ Cardinality(game.s.deck) + Cardinality(game.s.player) + Cardinality(game.s.dealer)
                  = Cardinality(game.c.cards)
  <2>1. game.s \in Hands(game.c) /\ DeckGiven(game.c)
    BY <1>0, <1>2, ConfigGives DEF Fits
  <2> QED
    BY <2>1, HandsCount DEF Hands
<1>3. ASSUME game.c.kind = "kim", game.s # NoState
      PROVE  /\ game.s.cues >= 0 /\ game.s.cues + Cardinality(game.s.inspected) = game.c.budget
             /\ game.result # "in_process" <=> game.s.decision # NoMove
  <2>1. game.s \in Trays(game.c) /\ PaidFor(game.c, game.s)
    BY <1>0, <1>3 DEF Fits
  <2>2. game.result = "in_process" <=> game.s.decision = NoMove
    BY <1>0, <1>3 DEF Held
  <2> QED
    BY <2>1, <2>2 DEF Trays, PaidFor
<1>4. ASSUME game.c.kind \in {"bag", "siege"}, game.s # NoState
      PROVE  /\ game.score.player = TotalForce(game.c, game.c.opponentReserve) - TotalForce(game.c, game.s.opponent)
             /\ game.score.opponent = TotalForce(game.c, game.c.player) - TotalForce(game.c, game.s.player)
             /\ \A t \in Types(game.c) : game.s.player[t] >= 0 /\ game.s.opponent[t] >= 0
  <2>1. Sides(game.c, game.s) /\ Scored(game.c, game.s, game.score)
    BY <1>0, <1>4 DEF Fits
  <2> QED
    BY <2>1 DEF Sides, Scored, Reserves
<1>5. ASSUME game.c.kind = "credentials", game.s # NoState
      PROVE  IdKept(game)
  <2>1. ShiftFits(game.c, game.s)
    BY <1>0, <1>5 DEF Fits
  <2> QED
    BY <2>1 DEF ShiftFits, IdOf, IdKept
<1> QED
  BY <1>1, <1>2, <1>3, <1>4, <1>5 DEF NothingOverdrawn

(* Whatever game a block holds, with whatever heap, reserves, deck, tray, shell *)
(* or roster: while it waits for a move it offers one, the offers are those of  *)
(* the state it is in, and it has recorded every round it counts                *)
(* (game_handler.py, has_game.py). A simulation holds to it in sessions that    *)
(* drop what a failed frame did.                                                *)
THEOREM GamesGoOn == Spec => []ReadyOffers
<1>1. Init => PlayInv
  BY PlayInit, ConfigsAssumption
<1>2. PlayInv /\ [Next]_vars => PlayInv'
  BY PlayStep, ConfigsAssumption
<1>3. PlayInv => ReadyOffers
  <2> SUFFICES ASSUME PlayInv, Waiting, ~keeps
               PROVE  /\ actions # {} /\ actions = Provisioned(game)
                      /\ game.history.count = game.round /\ game.result = "in_process"
    BY DEF ReadyOffers
  <2>1. Held(game) /\ actions = Projected(game) /\ game.phase = "ready" /\ game.c \in Configs
    BY DEF PlayInv, Whole, Waiting, GamesInv, Shaped
  <2>2. /\ game.result = "in_process" /\ game.history.count = game.round
        /\ Fits(game.c, game.s, game.score) /\ GoesOn(game.c, game.s)
    BY <2>1 DEF Held
  <2>3. actions = Provisioned(game)
    BY <2>1, <2>2 DEF Projected
  <2>4. Provisioned(game) # {}
    BY <2>1, <2>2, ConfigsAssumption, OffersExist
  <2> QED
    BY <2>2, <2>3, <2>4
<1> QED
  BY <1>1, <1>2, <1>3, PTL DEF Spec

(* In a game of any size nothing scarce is lost, copied or overdrawn: the       *)
(* workers and goods of a shell, the cards of a deck, the cues of a tray, the   *)
(* units of two sides and what they score, the ids of the candidates at a       *)
(* checkpoint (incremental_game.py, blackjack_game.py, kim_game.py,             *)
(* aggregate_force_game.py, credentials_game.py).                               *)
THEOREM NothingIsOverdrawn == Spec => []NothingOverdrawn
<1>1. Init => PlayInv
  BY PlayInit, ConfigsAssumption
<1>2. PlayInv /\ [Next]_vars => PlayInv'
  BY PlayStep, ConfigsAssumption
<1>3. PlayInv => NothingOverdrawn
  BY HeldAccounts, ConfigsAssumption DEF PlayInv, Whole, GamesInv, Shaped
<1> QED
  BY <1>1, <1>2, <1>3, PTL DEF Spec

-------------------------------------------------------------------------------
(* The games that are bound to end: what runs out, by kind.                     *)

\* A sum of natural numbers is no less than any of them.
LEMMA SumAtLeast ==
  ASSUME NEW S, IsFiniteSet(S), NEW f \in [S -> Nat], NEW x \in S
  PROVE  f[x] <= SumFunction(f)
<1> DEFINE g == [y \in S |-> IF y = x THEN f[x] ELSE 0]
<1>1. g \in [S -> Int] /\ f \in [S -> Int] /\ g[x] = f[x]
  OBVIOUS
<1>2. \A y \in S : g[y] <= f[y]
  OBVIOUS
<1>3. \A y \in S \ {x} : g[y] = 0
  OBVIOUS
<1> HIDE DEF g
<1>4. SumFunction(g) = g[x]
  BY <1>1, <1>3, SumOne
<1>5. SumFunction(g) <= SumFunction(f)
  BY <1>1, <1>2, SumOrder
<1> QED
  BY <1>1, <1>4, <1>5

\* A round of Nim that goes on has taken tokens.
LEMMA NimShrinks ==
  ASSUME NEW g, HeapGiven(g.c), g.c.min = 1, g.s \in Heaps, NEW take \in Takes(g), NEW reply \in Nat,
         NimRound(g, take, reply).result = "continue"
  PROVE  NimRound(g, take, reply).s.heap < g.s.heap
<1> DEFINE left == g.s.heap - take
           rest == left - reply
           heap(n) == [g.s EXCEPT !.heap = n]
           out == NimRound(g, take, reply)
<1>1. left \in Int /\ rest \in Int /\ rest < g.s.heap
  BY DEF HeapGiven, Heaps, Takes
<1>2. \A n \in Int : heap(n).heap = n
  BY DEF Heaps
<1>3. \/ out.s = heap(left) /\ out.result \in {"win", "lose"}
      \/ out.s = heap(rest)
  BY DEF NimRound, Outcome
<1> HIDE DEF left, rest, out, heap
<1> QED
  BY <1>1, <1>2, <1>3 DEF out

\* A round at the tray that goes on has inspected a clue.
LEMMA KimSpends ==
  ASSUME NEW g, TrayGiven(g.c), g.s \in Trays(g.c), PaidFor(g.c, g.s), g.s.decision = NoMove, NEW m \in KimMoves(g),
         KimRound(g, m).result = "continue"
  PROVE  Cardinality(KimRound(g, m).s.inspected) = Cardinality(g.s.inspected) + 1
<1> DEFINE t == KimRound(g, m).s
<1>1. CASE \E cue \in g.c.clues \ g.s.inspected : m = <<"inspect", cue>>
  <2>1. PICK cue \in g.c.clues \ g.s.inspected : m = <<"inspect", cue>>
    BY <1>1
  <2>2. t = [g.s EXCEPT !.inspected = @ \cup {cue}, !.cues = @ - 1, !.revealed = @ \cup {cue}]
    BY <2>1 DEF KimRound, Outcome
  <2> HIDE DEF t
  <2>3. t.inspected = g.s.inspected \cup {cue}
    BY <2>2, SMT DEF Trays
  <2> QED
    BY <2>1, <2>3, FS_AddElement DEF PaidFor, t
<1>2. CASE \E item \in g.c.tray : m = <<"decide", item>>
  BY <1>2 DEF KimRound, Outcome
<1> QED
  BY <1>1, <1>2 DEF KimMoves

\* A round of blackjack that goes on has drawn a card.
LEMMA BlackjackDraws ==
  ASSUME NEW g, DeckGiven(g.c), g.s \in Hands(g.c), NEW m, NEW out \in BlackjackRounds(g, m), out.result = "continue"
  PROVE  /\ Cardinality(g.s.deck) \in Nat
         /\ Cardinality(out.s.deck) \in Nat /\ Cardinality(out.s.deck) = Cardinality(g.s.deck) - 1
<1>1. \E card \in g.s.deck : out.s = ToPlayer(g.s, card)
  <2> DEFINE played == IF m = "hit" THEN {ToPlayer(g.s, card) : card \in g.s.deck} ELSE {g.s}
  <2>1. PICK s \in played :
        \/ out = Outcome(g, s, 0, 1, "lose") \/ (m = "hit" /\ out = Outcome(g, s, 0, 0, "continue"))
        \/ \E end \in DealerStands(g.c, [s EXCEPT !.stood = TRUE]) : out = Showdown(g, end)
    BY DEF BlackjackRounds, ToPlayer
  <2>2. ASSUME NEW end, out = Showdown(g, end) PROVE FALSE
    BY <2>2 DEF Showdown, Outcome
  <2>3. out # Outcome(g, s, 0, 1, "lose")
    BY DEF Outcome
  <2>4. m = "hit" /\ out.s = s
    BY <2>1, <2>2, <2>3 DEF Outcome
  <2> QED
    BY <2>1, <2>4
<1>2. PICK card \in g.s.deck : out.s = ToPlayer(g.s, card)
  BY <1>1
<1>3. out.s.deck = g.s.deck \ {card}
  BY <1>2 DEF ToPlayer, Hands
<1>4. IsFiniteSet(g.s.deck)
  <2>1. IsFiniteSet(g.c.cards) /\ g.s.deck \subseteq g.c.cards
    BY DEF DeckGiven, Hands
  <2> QED
    BY <2>1, FS_Subset
<1>5. IsFiniteSet(out.s.deck) /\ Cardinality(out.s.deck) = Cardinality(g.s.deck) - 1
  BY ZenonT(30), <1>3, <1>4, FS_RemoveElement
<1> QED
  BY <1>4, <1>5, FS_CardinalityType

-------------------------------------------------------------------------------
(* Attrition and siege run out of units.                                        *)

\* A unit that is present is among the units.
LEMMA PresentCount ==
  ASSUME NEW c, ForcesGiven(c), NEW units \in Reserves(c), NEW t \in Present(c, units)
  PROVE  t \in Types(c) /\ units[t] \in Nat /\ units[t] > 0 /\ Units(c, units) \in Nat /\ units[t] <= Units(c, units)
<1> DEFINE f == [u \in Types(c) |-> units[u]]
<1>1. t \in Types(c) /\ units[t] > 0 /\ f \in [Types(c) -> Nat] /\ f[t] = units[t]
  BY DEF Present, Reserves
<1> HIDE DEF f
<1>2. f[t] <= SumFunction(f)
  BY <1>1, ForceTypes, SumAtLeast
<1>3. Units(c, units) = SumFunction(f)
  BY DEF Units, f
<1> QED
  BY <1>1, <1>2, <1>3, ForceNat DEF Reserves

\* Those who count are present.
LEMMA CountPresent ==
  ASSUME NEW c, ForcesGiven(c), NEW units \in Reserves(c), Units(c, units) # 0
  PROVE  Present(c, units) # {}
<1> DEFINE f == [u \in Types(c) |-> units[u]]
<1>1. ASSUME Present(c, units) = {} PROVE FALSE
  <2>1. f \in [Types(c) -> Int] /\ \A u \in Types(c) : f[u] = 0
    BY <1>1 DEF Present, Reserves
  <2> HIDE DEF f
  <2>2. SumFunction(f) = 0
    BY <2>1, ForceTypes, SumZero
  <2> QED
    BY <2>2 DEF Units, f
<1> QED
  BY <1>1

\* The units that are left and those that are lost are those that there were.
LEMMA UnitsLost ==
  ASSUME NEW c, ForcesGiven(c), NEW units \in Reserves(c), NEW losses, Within(c, losses, units)
  PROVE  /\ Units(c, Minus(units, losses)) \in Nat /\ Units(c, losses) \in Nat /\ Units(c, units) \in Nat
         /\ Units(c, units) = Units(c, Minus(units, losses)) + Units(c, losses)
         /\ Present(c, Minus(units, losses)) \subseteq Present(c, units)
<1> DEFINE left == Minus(units, losses)
           f == [t \in Types(c) |-> left[t]]
           g == [t \in Types(c) |-> losses[t]]
           h == [t \in Types(c) |-> units[t]]
<1>1. \A t \in Types(c) : units[t] \in Nat /\ losses[t] \in Nat /\ losses[t] <= units[t]
  BY DEF Within, Reserves
<1>2. left = [t \in Types(c) |-> Max({units[t] - losses[t], 0})]
  BY DEF Minus, Reserves
<1> HIDE DEF left
<1>3. ASSUME NEW t \in Types(c) PROVE left[t] = units[t] - losses[t] /\ left[t] \in Nat
  <2> DEFINE n == units[t] - losses[t]
  <2>1. n \in Nat
    BY <1>1
  <2>2. left[t] = Max({n, 0})
    BY <1>2
  <2>4. n = units[t] - losses[t]
    OBVIOUS
  <2> HIDE DEF n
  <2>3. n \in {n, 0} /\ \A y \in {n, 0} : n >= y
    BY <2>1
  <2> QED
    BY <2>1, <2>2, <2>3, <2>4 DEF Max
<1>4. f \in [Types(c) -> Int] /\ g \in [Types(c) -> Int] /\ h \in [Types(c) -> Int]
  BY <1>1, <1>3
<1>5. \A t \in Types(c) : h[t] = f[t] + g[t]
  BY <1>1, <1>3
<1>6. Present(c, left) \subseteq Present(c, units)
  BY <1>1, <1>3 DEF Present
<1>7. left \in Reserves(c) /\ losses \in Reserves(c)
  BY MinusLosses DEF Within, left
<1> HIDE DEF f, g, h
<1>8. SumFunction(h) = SumFunction(f) + SumFunction(g)
  BY <1>4, <1>5, ForceTypes, SumPlus
<1>9. Units(c, units) = Units(c, left) + Units(c, losses)
  BY <1>8 DEF Units, f, g, h
<1> QED
  BY <1>6, <1>7, <1>9, ForceNat DEF left

\* Exposures are natural numbers.
LEMMA ExposureNat ==
  ASSUME NEW c, ForcesGiven(c), NEW attacker, NEW t \in Types(c)
  PROVE  Exposure(c, attacker, t) \in Nat
<1> DEFINE N == Len(c.types)
           class == IF \E a \in Present(c, attacker) : c.beaten[a] = t THEN 0
                    ELSE IF t \in Present(c, attacker) THEN 1 ELSE 2
           r == Rank(c, t)
<1>1. N \in Nat /\ \E i \in 1..N : c.types[i] = t
  BY DEF ForcesGiven, Types, ToSet
<1>2. r \in 1..N
  BY <1>1 DEF Rank
<1>3. Exposure(c, attacker, t) = class * (N + 1) + r
  BY DEF Exposure
<1>4. class \in {0, 1, 2}
  OBVIOUS
<1> HIDE DEF N, class, r
<1> QED
  BY <1>1, <1>2, <1>3, <1>4

\* A budget that is not spent costs somebody.
LEMMA SomebodyHit ==
  ASSUME NEW c, ForcesGiven(c), NEW attacker \in Reserves(c), NEW defender \in Reserves(c),
         Present(c, defender) # {}, CasualtyBudget(c, attacker, defender) \in Nat \ {0}
  PROVE  Units(c, Casualties(c, attacker, defender)) # 0
<1> DEFINE E(u) == Exposure(c, attacker, u)
           D == Present(c, defender)
           budget == CasualtyBudget(c, attacker, defender)
           exposed(t) == {u \in D : E(u) < E(t)}
           before(t) == SumFunction([u \in exposed(t) |-> defender[u]])
           k == Casualties(c, attacker, defender)
<1>1. D # {} /\ D \subseteq Types(c) /\ \A u \in D : E(u) \in Nat
  BY ExposureNat DEF Present
<1>2. PICK t \in D : \A u \in D : E(t) <= E(u)
  <2> DEFINE T == {E(u) : u \in D}
  <2>1. T \in SUBSET Nat /\ T # {}
    BY <1>1
  <2>2. PICK x \in T : \A y \in T : x <= y
    BY <2>1, NatMin
  <2>3. PICK u \in D : x = E(u)
    BY <2>2
  <2> QED
    BY <2>2, <2>3
<1>3. exposed(t) = {}
  BY <1>1, <1>2
<1>4. before(t) = 0
  <2> DEFINE f == [u \in exposed(t) |-> defender[u]]
  <2>1. f \in [{} -> Int] /\ f = [u \in {} |-> defender[u]]
    BY <1>3
  <2>2. \A u \in {} : f[u] = 0
    OBVIOUS
  <2> HIDE DEF f
  <2>3. SumFunction(f) = 0
    BY <2>1, <2>2, FS_EmptySet, SumZero
  <2> QED
    BY <2>3 DEF f
<1>5. k[t] = Max({0, Min({defender[t], budget - before(t)})})
  BY <1>1, <1>2 DEF Casualties
<1>6. defender[t] \in Nat /\ defender[t] > 0 /\ budget \in Nat /\ budget > 0
  BY <1>2, PresentCount
<1> DEFINE d == defender[t]
           least == IF d <= budget THEN d ELSE budget
<1>15. budget - before(t) = budget
  <2> HIDE DEF budget, before
  <2> QED
    BY <1>4, <1>6
<1>7. k[t] = Max({0, Min({d, budget})})
  BY <1>5, <1>15
<1> HIDE DEF budget, k, d
<1>8. least \in Nat /\ least > 0 /\ least \in {d, budget} /\ \A y \in {d, budget} : least <= y
  BY <1>6 DEF d
<1>9. Min({d, budget}) = least
  <2> HIDE DEF least
  <2>1. d \in Nat /\ budget \in Nat
    BY <1>6 DEF d
  <2> QED
    BY <1>8, <2>1 DEF Min
<1>10. k[t] = least
  <2> HIDE DEF least
  <2>1. k[t] = Max({0, least})
    BY <1>7, <1>9
  <2>2. least \in {0, least} /\ \A y \in {0, least} : least >= y
    BY <1>8
  <2> QED
    BY <1>8, <2>1, <2>2 DEF Max
<1>11. k \in Reserves(c)
  BY CasualtiesWithin DEF Within, k
<1>12. t \in Present(c, k)
  BY <1>1, <1>2, <1>8, <1>10 DEF Present
<1>13. k[t] \in Nat /\ k[t] > 0 /\ Units(c, k) \in Nat /\ k[t] <= Units(c, k)
  BY <1>11, <1>12, PresentCount
<1>14. Units(c, k) # 0
  BY <1>13
<1> QED
  BY <1>14 DEF k

\* Who meets his own kind, or whom he beats, has something to spend.
LEMMA BudgetThere ==
  ASSUME NEW c, ForcesGiven(c), NEW attacker \in Reserves(c), NEW defender \in Reserves(c),
         NEW t \in Present(c, attacker), NEW u \in Present(c, defender), c.weight[t] > 0, t = u \/ c.beaten[t] = u
  PROVE  CasualtyBudget(c, attacker, defender) \in Nat \ {0}
<1> DEFINE met == Present(c, defender)
           strong == Favorable(c, met) \cup Neutral(c, met)
           a == Power(c, attacker, strong)
           b == Power(c, attacker, Types(c) \ strong)
           n == Units(c, defender)
           sum == a + b \div c.ratio
           S == Present(c, attacker) \cap strong
           f == [x \in S |-> attacker[x] * c.weight[x]]
<1>1. a \in Nat /\ b \in Nat /\ n \in Nat
  BY ForceNat
<1>2. CasualtyBudget(c, attacker, defender)
        = IF Present(c, attacker) = {} \/ met = {} THEN 0 ELSE IF sum < n THEN sum ELSE n
  BY DEF CasualtyBudget
<1>3. n > 0
  BY <1>1, PresentCount
<1>4. t \in S
  BY DEF Favorable, Neutral, Present
<1>5. \A x \in S : f[x] \in Nat
  <2> SUFFICES ASSUME NEW x \in S PROVE attacker[x] * c.weight[x] \in Nat
    OBVIOUS
  <2>1. attacker[x] \in Nat /\ c.weight[x] \in Nat
    BY ForceTypes DEF Present, Reserves
  <2> QED
    BY <2>1, TimesNat
<1>6. f[t] > 0
  <2>1. attacker[t] \in Nat /\ attacker[t] > 0 /\ c.weight[t] \in Nat /\ c.weight[t] > 0
    BY PresentCount, ForceTypes DEF Reserves
  <2>2. f[t] = attacker[t] * c.weight[t]
    BY <1>4
  <2> DEFINE x == attacker[t]
             y == c.weight[t]
  <2>3. x \in Nat /\ x > 0 /\ y \in Nat /\ y > 0
    BY <2>1
  <2> HIDE DEF x, y
  <2>4. x * y > 0
    BY <2>3
  <2> QED
    BY <2>2, <2>4 DEF x, y
<1>7. IsFiniteSet(S) /\ f \in [S -> Nat] /\ a = SumFunction(f)
  <2>1. S \subseteq Types(c)
    BY DEF Present
  <2>2. IsFiniteSet(S)
    BY <2>1, ForceTypes, FS_Subset
  <2>3. f \in [S -> Nat]
    BY <1>5
  <2>4. a = SumFunction(f)
    BY DEF Power
  <2> QED
    BY <2>2, <2>3, <2>4
<1> HIDE DEF S, f, a, b, n, met
<1>8. f[t] <= a
  BY <1>4, <1>7, SumAtLeast
<1>9. a > 0
  BY <1>1, <1>4, <1>6, <1>7, <1>8
<1>10. sum \in Nat /\ sum > 0
  <2>1. c.ratio \in Nat /\ c.ratio > 0
    BY ForceTypes
  <2>2. b \div c.ratio \in Nat
    BY <1>1, <2>1
  <2> QED
    BY <1>1, <1>9, <2>2
<1>11. Present(c, attacker) # {} /\ met # {}
  BY DEF met
<1> HIDE DEF sum
<1> QED
  BY <1>1, <1>2, <1>3, <1>10, <1>11

\* A clash of two commitments costs somebody a unit.
LEMMA ClashCosts ==
  ASSUME NEW c, ForcesGiven(c), Decisive(c),
         NEW mine \in Reserves(c), NEW theirs \in Reserves(c), Present(c, mine) # {}, Present(c, theirs) # {}
  PROVE  Units(c, Casualties(c, theirs, mine)) # 0 \/ Units(c, Casualties(c, mine, theirs)) # 0
<1>1. PICK t \in Present(c, mine), u \in Present(c, theirs) : TRUE
  OBVIOUS
<1>2. t \in Types(c) /\ u \in Types(c)
  BY DEF Present
<1>3. c.weight[t] > 0 /\ c.weight[u] > 0 /\ (t = u \/ c.beaten[t] = u \/ c.beaten[u] = t)
  BY <1>2 DEF Decisive
<1>4. \/ CasualtyBudget(c, mine, theirs) \in Nat \ {0} \/ CasualtyBudget(c, theirs, mine) \in Nat \ {0}
  BY <1>1, <1>3, BudgetThere
<1> QED
  BY <1>4, SomebodyHit

\* After a clash there are no more units, and fewer if both sides have committed some.
LEMMA ClashShrinks ==
  ASSUME NEW g, ForcesGiven(g.c), Decisive(g.c), Sides(g.c, g.s),
         NEW mine, Within(g.c, mine, g.s.player), NEW theirs, Within(g.c, theirs, g.s.opponent),
         NEW t, t.player = Minus(g.s.player, Casualties(g.c, theirs, mine)),
         t.opponent = Minus(g.s.opponent, Casualties(g.c, mine, theirs))
  PROVE  LET before == Units(g.c, g.s.player) + Units(g.c, g.s.opponent)
             after == Units(g.c, t.player) + Units(g.c, t.opponent)
         IN /\ before \in Nat /\ after \in Nat
            /\ Present(g.c, mine) # {} /\ Present(g.c, theirs) # {} => after < before
            /\ Present(g.c, t.opponent) \subseteq Present(g.c, g.s.opponent)
<1> DEFINE one == Casualties(g.c, theirs, mine)
           two == Casualties(g.c, mine, theirs)
<1>1. mine \in Reserves(g.c) /\ theirs \in Reserves(g.c) /\ g.s.player \in Reserves(g.c) /\ g.s.opponent \in Reserves(g.c)
  BY DEF Within, Sides
<1>2. Within(g.c, one, mine) /\ Within(g.c, two, theirs)
  BY <1>1, CasualtiesWithin
<1>3. Within(g.c, one, g.s.player) /\ Within(g.c, two, g.s.opponent)
  <2>1. \A x \in Types(g.c) : /\ one[x] \in Nat /\ mine[x] \in Nat /\ g.s.player[x] \in Nat
                              /\ one[x] <= mine[x] /\ mine[x] <= g.s.player[x]
                              /\ two[x] \in Nat /\ theirs[x] \in Nat /\ g.s.opponent[x] \in Nat
                              /\ two[x] <= theirs[x] /\ theirs[x] <= g.s.opponent[x]
    <3> HIDE DEF one, two
    <3> QED
      BY <1>1, <1>2 DEF Within, Reserves
  <2> HIDE DEF one, two
  <2>2. \A x \in Types(g.c) : one[x] <= g.s.player[x] /\ two[x] <= g.s.opponent[x]
    BY <2>1
  <2> QED
    BY <1>2, <2>2 DEF Within
<1>4. t.player = Minus(g.s.player, one) /\ t.opponent = Minus(g.s.opponent, two)
  OBVIOUS
<1>7. Present(g.c, mine) # {} /\ Present(g.c, theirs) # {} => Units(g.c, one) # 0 \/ Units(g.c, two) # 0
  BY <1>1, ClashCosts
<1> HIDE DEF one, two
<1>5. /\ Units(g.c, t.player) \in Nat /\ Units(g.c, one) \in Nat /\ Units(g.c, g.s.player) \in Nat
      /\ Units(g.c, g.s.player) = Units(g.c, t.player) + Units(g.c, one)
  BY <1>1, <1>3, <1>4, UnitsLost
<1>6. /\ Units(g.c, t.opponent) \in Nat /\ Units(g.c, two) \in Nat /\ Units(g.c, g.s.opponent) \in Nat
      /\ Units(g.c, g.s.opponent) = Units(g.c, t.opponent) + Units(g.c, two)
      /\ Present(g.c, t.opponent) \subseteq Present(g.c, g.s.opponent)
  BY <1>1, <1>3, <1>4, UnitsLost
<1> QED
  BY <1>5, <1>6, <1>7

\* A profile has somebody in it, and so has what a side with units may tell or answer.
LEMMA ProfileThere ==
  ASSUME NEW c, ForcesGiven(c), NEW reserve \in Reserves(c), NEW p \in Profiles(c, reserve)
  PROVE  Present(c, p) # {}
<1>1. Within(c, p, reserve)
  BY ProfilesWithin
<1>2. p \in Reserves(c)
  BY <1>1 DEF Within
<1>3. Units(c, p) \in 1..c.maxCommit
  BY DEF Profiles
<1>4. Units(c, p) # 0
  BY <1>3, ForceTypes
<1> QED
  BY <1>2, <1>4, CountPresent

\* A besieger told of its attack before the player moves.
Commits(c, s, tell) ==
  c.kind = "siege" /\ ~s.initiative /\ Present(c, s.opponent) # {} => Present(c, tell) # {}

LEMMA TellsCommit ==
  ASSUME NEW h, h.c.kind = "siege", ForcesGiven(h.c), Sides(h.c, h.s), NEW t \in Tells(h)
  PROVE  Commits(h.c, h.s, t)
<1> SUFFICES ASSUME ~h.s.initiative, Present(h.c, h.s.opponent) # {} PROVE Present(h.c, t) # {}
  BY DEF Commits
<1> DEFINE all == Profiles(h.c, h.s.opponent)
<1>1. h.s.opponent \in Reserves(h.c)
  BY DEF Sides
<1>2. all # {}
  BY <1>1, ProfilesExist
<1>3. Tells(h) = SiegeTells(h)
  BY DEF Tells
<1>4. t \in Largest(h.c, all)
  BY <1>2, <1>3 DEF SiegeTells
<1>5. t \in all
  BY <1>4 DEF Largest
<1> QED
  BY <1>1, <1>5, ProfileThere

\* Against somebody who has units a reply commits some.
LEMMA RepliesCommit ==
  ASSUME NEW g, g.c.kind \in {"bag", "siege"}, ForcesGiven(g.c), Sides(g.c, g.s), Commits(g.c, g.s, g.tell),
         NEW m, NEW o \in Replies(g, m), Present(g.c, g.s.opponent) # {}
  PROVE  Present(g.c, o) # {}
<1> DEFINE all == Profiles(g.c, g.s.opponent)
<1>1. g.s.opponent \in Reserves(g.c)
  BY DEF Sides
<1>2. all # {}
  BY <1>1, ProfilesExist
<1>3. \A p \in all : Present(g.c, p) # {}
  BY <1>1, ProfileThere
<1>4. CASE g.c.kind = "bag"
  <2>1. o \in BagCommits(g, g.tell)
    BY <1>4 DEF Replies
  <2> QED
    BY <1>2, <1>3, <2>1 DEF BagCommits
<1>5. CASE g.c.kind = "siege" /\ g.s.initiative
  <2>1. o \in Answers(g, m)
    BY <1>5 DEF Replies
  <2>2. o \in all
    BY <1>2, <2>1 DEF Answers
  <2> QED
    BY <1>3, <2>2
<1>6. CASE g.c.kind = "siege" /\ ~g.s.initiative
  BY <1>6 DEF Replies, Commits
<1> QED
  BY <1>4, <1>5, <1>6

\* A round that costs somebody a unit while the opponent has somebody left.
Costly(c, s, t) ==
  LET before == Units(c, s.player) + Units(c, s.opponent)
      after == Units(c, t.player) + Units(c, t.opponent)
  IN before \in Nat /\ after \in Nat /\ (Present(c, t.opponent) # {} => after < before)

\* So is every round of attrition and siege.
LEMMA ForceShrinks ==
  ASSUME NEW g, g.c.kind \in {"bag", "siege"}, ForcesGiven(g.c), Decisive(g.c), Sides(g.c, g.s),
         Within(g.c, g.tell, g.s.opponent), Commits(g.c, g.s, g.tell),
         NEW m \in Profiles(g.c, g.s.player), NEW o \in Replies(g, m), NEW out \in Rounds(g, m, o)
  PROVE  Costly(g.c, g.s, out.s)
<1> DEFINE a == Minus(g.s.player, Casualties(g.c, o, m))
           b == Minus(g.s.opponent, Casualties(g.c, m, o))
<1>1. o \in BagCommits(g, g.tell) \/ o \in Answers(g, m) \/ o = g.tell
  BY DEF Replies
<1>2. Within(g.c, o, g.s.opponent)
  BY <1>1, ForceReplies
<1>3. Within(g.c, m, g.s.player)
  BY ProfilesWithin DEF Sides
<1>4. out = BagRound(g, m, o) \/ out = SiegeRound(g, m, o)
  BY DEF Rounds
<1>5. out.s.player = a /\ out.s.opponent = b
  <2> DEFINE s == Clashed(g, m, o)
  <2>1. s = [g.s EXCEPT !.player = a, !.opponent = b]
    BY Zenon DEF Clashed
  <2> HIDE DEF s, a, b
  <2>2. {"player", "opponent"} \subseteq DOMAIN g.s
    BY DEF Sides
  <2>3. s.player = a /\ s.opponent = b /\ DOMAIN s = DOMAIN g.s
    BY <2>1, <2>2
  <2>4. out.s = s \/ \E v : out.s = [s EXCEPT !.initiative = v]
    <3>1. BagRound(g, m, o).s = s
      BY DEF BagRound, Outcome, s
    <3>2. \E v : SiegeRound(g, m, o).s = [s EXCEPT !.initiative = v]
      <4>1. \E v, x, y, result : SiegeRound(g, m, o) = Outcome(g, [s EXCEPT !.initiative = v], x, y, result)
        BY Zenon DEF SiegeRound, s
      <4>2. \A t, x, y, result : Outcome(g, t, x, y, result).s = t
        BY DEF Outcome
      <4> HIDE DEF s
      <4>3. PICK v, x, y, result : SiegeRound(g, m, o) = Outcome(g, [s EXCEPT !.initiative = v], x, y, result)
        BY <4>1
      <4> DEFINE t == [s EXCEPT !.initiative = v]
      <4>4. SiegeRound(g, m, o) = Outcome(g, t, x, y, result)
        BY <4>3
      <4> HIDE DEF t
      <4>5. SiegeRound(g, m, o).s = t
        BY <4>2, <4>4
      <4> QED
        BY <4>5 DEF t
    <3> QED
      BY <1>4, <3>1, <3>2
  <2>5. \A v : [s EXCEPT !.initiative = v].player = s.player /\ [s EXCEPT !.initiative = v].opponent = s.opponent
    BY <2>2, <2>3
  <2> QED
    BY <2>3, <2>4, <2>5
<1>6. Present(g.c, m) # {}
  BY ProfileThere DEF Sides
<1>7. Present(g.c, g.s.opponent) # {} => Present(g.c, o) # {}
  BY RepliesCommit
<1>8. LET before == Units(g.c, g.s.player) + Units(g.c, g.s.opponent)
          after == Units(g.c, out.s.player) + Units(g.c, out.s.opponent)
      IN /\ before \in Nat /\ after \in Nat
         /\ Present(g.c, out.s.opponent) # {} => after < before
  BY <1>2, <1>3, <1>5, <1>6, <1>7, ClashShrinks
<1> QED
  BY <1>8 DEF Costly

-------------------------------------------------------------------------------
(* A simulation runs out of events.                                             *)

\* A round after which the simulation is not over, and which has not raised, has
\* run the next event.
LEMMA QueueAdvances ==
  ASSUME NEW g, Net(g.c), Kept(g.c, g.s), g.s.calendar # {}, NEW m \in {"run_next", "run_until_complete"},
         QueueRound(g, m).result # "raise", ~QueueRound(g, m).s.metrics
  PROVE  /\ QueueRound(g, m).s.calendar # {}
         /\ Cardinality(Steps(g.c, QueueRound(g, m).s)) < Cardinality(Steps(g.c, g.s))
<1> DEFINE c == g.c
           next == RunNext(c, g.s)
           all == RunAll(c, g.s, c.limit)
           ran == IF m = "run_next" THEN Finished(next) ELSE Finished(all)
           out == QueueRound(g, m)
<1>1. g.s # NoState
  BY KeptIsState
<1>2. /\ out.s = ran
      /\ m = "run_until_complete" /\ ran.calendar # {} => out.result = "raise"
  <2>1. out = IF m = "run_until_complete" /\ ran.calendar # {} THEN Outcome(g, ran, 0, 0, "raise")
              ELSE IF ran.metrics THEN Outcome(g, ran, 1, 0, "win") ELSE Outcome(g, ran, 0, 0, "continue")
    BY <1>1 DEF QueueRound
  <2> HIDE DEF ran, out
  <2> QED
    BY <2>1 DEF Outcome
<1>3. \A q \in Sound(c) : ~Finished(q).metrics => Finished(q) = q /\ q.calendar # {}
  <2> SUFFICES ASSUME NEW q \in Sound(c), ~Finished(q).metrics PROVE q.calendar # {}
    BY DEF Finished
  <2>1. [q EXCEPT !.metrics = TRUE].metrics = TRUE
    BY MetricsApart
  <2> QED
    BY <2>1 DEF Finished
<1>4. g.s \in Sound(c) /\ RunOK(c, g.s, {})
  BY DEF Kept, Sound
<1>5. next \in Sound(c) /\ all \in Sound(c)
  <2>1. RunOK(c, next, {})
    BY <1>4, RunNextKeeps
  <2>2. next \in Sound(c)
    BY <2>1 DEF Sound, RunOK
  <2>3. c.limit \in Nat
    BY DEF Net, Specified
  <2> QED
    BY <1>4, <2>2, <2>3, RunAllFacts
<1>6. ~ran.metrics /\ ~(m = "run_until_complete" /\ ran.calendar # {})
  BY <1>2
<1> HIDE DEF all, next, out
<1>7. m = "run_next"
  BY <1>3, <1>5, <1>6
<1>8. out.s = next /\ next.calendar # {}
  BY <1>2, <1>3, <1>5, <1>6, <1>7
<1>9. Cardinality(Steps(c, next)) < Cardinality(Steps(c, g.s))
  BY <1>4, RunNextSteps DEF next
<1> QED
  BY <1>8, <1>9 DEF out

-------------------------------------------------------------------------------
(* Contests over a number of rounds, or of points.                              *)
Contested == {"trivial", "throws", "phrases"}
Worth(c) == IF c.kind = "trivial" THEN 2 ELSE 1

\* A round decides, and gives out its points where points are counted.
LEMMA ContestScores ==
  ASSUME NEW g, g.c.kind \in Contested, NEW m \in Moves(g), NEW o \in Replies(g, m), NEW out \in Rounds(g, m, o)
  PROVE  /\ out.result \in {"win", "lose", "draw"}
         /\ (g.c.kind = "throws" => NeverTied(g.c)) =>
              \E x, y \in Nat : /\ x + y = Worth(g.c)
                                /\ out.score = [player |-> g.score.player + x, opponent |-> g.score.opponent + y]
<1>1. \A s, x, y, result : /\ Outcome(g, s, x, y, result).result = result
                           /\ Outcome(g, s, x, y, result).score
                                = [player |-> g.score.player + x, opponent |-> g.score.opponent + y]
  BY DEF Outcome
<1>2. CASE g.c.kind = "trivial"
  <2>1. m \in {"win", "lose", "draw"}
    BY <1>2 DEF Moves, TrivialMoves
  <2>2. \E s : \/ out = Outcome(g, s, 1, 1, "draw") \/ out = Outcome(g, s, 2, 0, "win")
               \/ out = Outcome(g, s, 0, 2, "lose")
    BY <1>2, <2>1 DEF Rounds, TrivialRound
  <2>3. 1 + 1 = Worth(g.c) /\ 2 + 0 = Worth(g.c) /\ 0 + 2 = Worth(g.c) /\ 0 \in Nat /\ 1 \in Nat /\ 2 \in Nat
    BY <1>2 DEF Worth
  <2> QED
    BY <1>1, <2>2, <2>3
<1>3. CASE g.c.kind = "throws"
  <2>1. \/ out = Outcome(g, g.s, 1, 0, "win") \/ out = Outcome(g, g.s, 0, 1, "lose")
        \/ out = Outcome(g, g.s, 0, 0, "draw") /\ o = m
    <3>1. out = ThrowRound(g, m, o)
      BY <1>3 DEF Rounds
    <3> QED
      BY <3>1 DEF ThrowRound
  <2>2. ASSUME NeverTied(g.c) PROVE o # m
    <3>1. o \in Revisions(g, m)
      BY <1>3, <2>2 DEF Replies, NeverTied, NoMove
    <3>2. o \in g.c.beats[m] \/ (m \in g.c.beats[o] /\ o \in DOMAIN g.c.beats)
      <4>1. CASE g.c.revision = "rps_counter"
        <5>1. Revisions(g, m) = {x \in DOMAIN g.c.beats : m \in g.c.beats[x]}
          BY <4>1 DEF Revisions
        <5> QED
          BY <3>1, <5>1
      <4>2. CASE g.c.revision = "rps_throw"
        <5>1. Revisions(g, m) = g.c.beats[m]
          BY <4>2 DEF Revisions
        <5> QED
          BY <3>1, <5>1
      <4> QED
        BY <2>2, <4>1, <4>2 DEF NeverTied
    <3>3. m \in DOMAIN g.c.beats
      BY <1>3 DEF Moves
    <3> QED
      BY <2>2, <3>2, <3>3 DEF NeverTied
  <2>3. 1 + 0 = Worth(g.c) /\ 0 + 1 = Worth(g.c) /\ 0 \in Nat /\ 1 \in Nat
    BY <1>3 DEF Worth
  <2> QED
    BY <1>1, <1>3, <2>1, <2>2, <2>3
<1>4. CASE g.c.kind = "phrases"
  <2>1. \E s : out = Outcome(g, s, 1, 0, "win") \/ out = Outcome(g, s, 0, 1, "lose")
    <3>1. out = PhraseRound(g, m, o)
      BY <1>4 DEF Rounds
    <3> QED
      BY <3>1, Zenon DEF PhraseRound
  <2>3. 1 + 0 = Worth(g.c) /\ 0 + 1 = Worth(g.c) /\ 0 \in Nat /\ 1 \in Nat
    BY <1>4 DEF Worth
  <2> QED
    BY <1>1, <2>1, <2>3
<1> QED
  BY <1>2, <1>3, <1>4 DEF Contested

\* The rounds that were won and lost, and where points are counted the points.
Tally(c, round, history, score) ==
  /\ history.win \in Nat /\ history.lose \in Nat
  /\ (c.kind = "throws" => NeverTied(c)) =>
       score.player \in Nat /\ score.opponent \in Nat /\ score.player + score.opponent = Worth(c) * round

\* A contest that the scoring leaves open has rounds to go.
LEMMA OpenContest ==
  ASSUME NEW h, h.c.kind \in Contested, BoundToEnd(h.c), h.round \in Nat, h.round # 0, h.history.count = h.round,
         h.history.result \in {"win", "lose", "draw"}, Tally(h.c, h.round, h.history, h.score), Evaluate(h) = "in_process"
  PROVE  h.round < LongestContest(h.c)
<1>1. h.c.scoring \in {"best_of_n", "first_to_n", "highest_after_n"} => h.c.n \in Nat \ {0}
  BY DEF BoundToEnd, Contested
<1>2. CASE h.c.scoring = "best_of_n"
  <2>1. Evaluate(h) = BestOf(h)
    BY <1>2 DEF Evaluate, Contested
  <2> DEFINE needed == h.c.n \div 2 + 1
  <2>2. needed \in Int /\ h.history.win \in Nat /\ h.history.lose \in Nat /\ h.history.count \in Nat /\ h.c.n \in Nat
    BY <1>1, <1>2 DEF Tally
  <2>3. BestOf(h) = CASE h.history.win >= needed -> "win"
                      [] h.history.win < needed /\ h.history.lose >= needed -> "lose"
                      [] h.history.win < needed /\ h.history.lose < needed /\ h.history.count >= h.c.n ->
                           IF h.history.win > h.history.lose THEN "win"
                           ELSE IF h.history.lose > h.history.win THEN "lose" ELSE "draw"
                      [] OTHER -> "in_process"
    BY DEF BestOf
  <2> HIDE DEF needed
  <2>4. h.history.count < h.c.n
    BY <2>1, <2>2, <2>3
  <2> QED
    BY <1>2, <2>4 DEF LongestContest
<1>3. CASE h.c.scoring = "first_to_n"
  <2>1. Evaluate(h) = FirstTo(h)
    BY <1>3 DEF Evaluate, Contested
  <2>2. /\ h.score.player \in Nat /\ h.score.opponent \in Nat /\ h.c.n \in Nat
        /\ h.score.player + h.score.opponent = Worth(h.c) * h.round
    BY <1>1, <1>3 DEF Tally, BoundToEnd, Contested
  <2>3. h.score.player < h.c.n /\ h.score.opponent < h.c.n
    BY <2>1, <2>2 DEF FirstTo
  <2>4. LongestContest(h.c) = IF h.c.kind = "trivial" THEN h.c.n ELSE 2 * h.c.n - 1
    BY <1>3 DEF LongestContest
  <2>5. CASE h.c.kind = "trivial"
    <3>1. Worth(h.c) = 2
      BY <2>5 DEF Worth
    <3> QED
      BY <2>2, <2>3, <2>4, <2>5, <3>1
  <2>6. CASE h.c.kind # "trivial"
    <3>1. Worth(h.c) = 1
      BY <2>6 DEF Worth
    <3> QED
      BY <2>2, <2>3, <2>4, <2>6, <3>1
  <2> QED
    BY <2>5, <2>6
<1>4. CASE h.c.scoring = "highest_after_n"
  <2>1. Evaluate(h) = HighestAfter(h)
    BY <1>4 DEF Evaluate, Contested
  <2>2. h.c.n \in Nat
    BY <1>1, <1>4
  <2>3. h.round < h.c.n
    BY <2>1, <2>2 DEF HighestAfter
  <2> QED
    BY <1>4, <2>3 DEF LongestContest
<1>5. CASE h.c.scoring \notin {"best_of_n", "first_to_n", "highest_after_n"}
  <2>1. Evaluate(h) = SingleRound(h)
    BY <1>5 DEF Evaluate, Contested
  <2> QED
    BY <2>1 DEF SingleRound
<1> QED
  BY <1>2, <1>3, <1>4, <1>5

-------------------------------------------------------------------------------
(* A shift runs out of candidates, each candidate of documents and requests.    *)

\* What the candidates before the i-th can take.
Before(c, i) == SumFunction([j \in DOMAIN c.roster |-> IF j < i THEN LongestCase(c.roster[j]) ELSE 0])

LEMMA BeforeSteps ==
  ASSUME NEW c, RosterGiven(c), NEW i \in DOMAIN c.roster
  PROVE  /\ i \in Nat /\ Len(c.roster) \in Nat /\ i <= Len(c.roster) /\ DOMAIN c.roster = 1..Len(c.roster)
         /\ LongestCase(c.roster[i]) \in Nat /\ Before(c, i) \in Nat /\ LongestShift(c) \in Nat
         /\ Before(c, i + 1) = Before(c, i) + LongestCase(c.roster[i])
         /\ Before(c, i) + LongestCase(c.roster[i]) <= LongestShift(c)
<1> DEFINE D == DOMAIN c.roster
           L(j) == LongestCase(c.roster[j])
           all == [j \in D |-> L(j)]
           f == [j \in D |-> IF j < i THEN L(j) ELSE 0]
           g == [j \in D |-> IF j < i + 1 THEN L(j) ELSE 0]
<1>1. D = 1..Len(c.roster) /\ Len(c.roster) \in Nat /\ i \in Nat /\ i <= Len(c.roster)
  BY DEF RosterGiven
<1>2. IsFiniteSet(D)
  BY <1>1, FS_Interval
<1>3. \A j \in D : L(j) \in Nat
  <2> SUFFICES ASSUME NEW j \in D PROVE LongestCase(c.roster[j]) \in Nat
    OBVIOUS
  <2> DEFINE r == c.roster[j]
  <2>1. IsFiniteSet(r.docs) /\ IsFiniteSet(DOMAIN r.papers) /\ IsFiniteSet(r.open)
    BY DEF RosterGiven
  <2>2. {} \in SUBSET Showable(r) /\ {} \in SUBSET Answerable(r)
    OBVIOUS
  <2> HIDE DEF r
  <2>3. LongestCase(r) \in Nat
    BY <2>1, <2>2, CaseBound
  <2> QED
    BY <2>3 DEF r
<1>4. \A j \in D : j \in Nat /\ f[j] \in Nat /\ g[j] \in Nat /\ all[j] \in Nat /\ g[j] <= all[j]
  BY <1>1, <1>3
<1>5. g[i] = L(i) /\ f[i] = 0 /\ \A j \in D \ {i} : g[j] = f[j]
  BY <1>1
<1>6. f \in [D -> Nat] /\ g \in [D -> Nat] /\ all \in [D -> Nat]
  BY <1>4
<1>7. Before(c, i) = SumFunction(f) /\ Before(c, i + 1) = SumFunction(g) /\ LongestShift(c) = SumFunction(all)
  BY DEF Before, LongestShift
<1> HIDE DEF f, g, all, D
<1>8. f \in [D -> Int] /\ g \in [D -> Int] /\ all \in [D -> Int] /\ i \in D
  BY <1>6 DEF D
<1>9. SumFunction(f) \in Nat /\ SumFunction(all) \in Nat
  BY <1>2, <1>6, SumNat
<1>10. SumFunction(g) = SumFunction(f) + (g[i] - f[i])
  BY <1>2, <1>5, <1>8, SumChange
<1>11. SumFunction(g) <= SumFunction(all)
  BY <1>2, <1>4, <1>8, SumOrder
<1>12. L(i) \in Nat
  BY <1>3, <1>8
<1> QED
  BY <1>1, <1>5, <1>7, <1>9, <1>10, <1>11, <1>12 DEF D

-------------------------------------------------------------------------------
(* How far a game that is bound to end has come: what it has spent so far is    *)
(* no less than its rounds.                                                     *)
Pace(c, s, tell, round, history, score) ==
  /\ c.kind = "nim" => round + s.heap <= c.heap
  /\ c.kind \in {"bag", "siege"} =>
       round + Units(c, s.player) + Units(c, s.opponent) <= Longest(c) /\ Commits(c, s, tell)
  /\ c.kind = "blackjack" => round + Cardinality(s.deck) <= Cardinality(c.cards)
  /\ c.kind = "kim" => round <= Cardinality(s.inspected)
  /\ c.kind = "queue" => ValidNet(c) /\ s.calendar # {} /\ round + Cardinality(Steps(c, s)) <= Longest(c)
  /\ c.kind \in Contested => round < LongestContest(c) /\ Tally(c, round, history, score)
  /\ c.kind = "credentials" =>
       s.index \in DOMAIN c.roster /\ AtCounter(c, s) /\ round <= Before(c, s.index) + Used(s)

\* What an opponent announces commits it.
LEMMA AnnouncedCommits ==
  ASSUME NEW c, NEW s, NEW tell, c.kind \in {"bag", "siege"}, ForcesGiven(c), Sides(c, s),
         \E h : h.c = c /\ h.s = s /\ tell \in Tells(h)
  PROVE  Commits(c, s, tell)
<1>1. PICK h : h.c = c /\ h.s = s /\ tell \in Tells(h)
  OBVIOUS
<1>2. CASE c.kind = "siege"
  <2>1. Commits(h.c, h.s, tell)
    BY <1>1, <1>2, TellsCommit
  <2> QED
    BY <1>1, <2>1
<1>3. CASE c.kind = "bag"
  BY <1>3 DEF Commits
<1> QED
  BY <1>2, <1>3

\* Those whose force the scoring leaves open have an opponent.
LEMMA OpponentLeft ==
  ASSUME NEW g, ForcesGiven(g.c), Sides(g.c, g.s), ForceLeft(g) = "in_process"
  PROVE  Present(g.c, g.s.opponent) # {}
<1> DEFINE S == Types(g.c)
           f == [t \in S |-> g.s.opponent[t] * g.c.weight[t]]
<1>1. g.s.player \in Reserves(g.c) /\ g.s.opponent \in Reserves(g.c) /\ g.c.weight \in Reserves(g.c) /\ IsFiniteSet(S)
  BY ForceTypes DEF Sides
<1>2. TotalForce(g.c, g.s.player) \in Nat /\ TotalForce(g.c, g.s.opponent) \in Nat
  BY <1>1, ForceNat
<1>3. TotalForce(g.c, g.s.opponent) > 0
  <2> DEFINE mine == TotalForce(g.c, g.s.player)
             theirs == TotalForce(g.c, g.s.opponent)
  <2>1. mine \in Nat /\ theirs \in Nat
    BY <1>2
  <2>2. ~(mine <= 0 /\ theirs <= 0) /\ ~(theirs <= 0 /\ mine > 0)
    BY <2>1 DEF ForceLeft
  <2> HIDE DEF mine, theirs
  <2>3. theirs > 0
    BY <2>1, <2>2
  <2> QED
    BY <2>3 DEF theirs
<1>4. ASSUME Present(g.c, g.s.opponent) = {} PROVE FALSE
  <2>1. \A t \in S : g.s.opponent[t] = 0 /\ g.c.weight[t] \in Nat
    BY <1>1, <1>4 DEF Present, Reserves
  <2>2. \A t \in S : f[t] = 0
    BY <2>1
  <2>3. f \in [S -> Int]
    BY <2>2
  <2> HIDE DEF f
  <2>4. SumFunction(f) = 0
    BY <1>1, <2>2, <2>3, SumZero
  <2>5. TotalForce(g.c, g.s.opponent) = 0
    BY <2>4 DEF TotalForce, f
  <2> QED
    BY <1>3, <2>5
<1> QED
  BY <1>4

\* A net that setup accepts, with patients, starts with their arrivals.
LEMMA ArrivalsWait ==
  ASSUME NEW c, Net(c), c.patients # <<>>
  PROVE  OpenQueue(c).calendar # {}
<1> DEFINE ps == c.patients
           E(i) == Event(c.arrival[ps[i]], i, ps[i], NoStation)
           calendar == {E(i) : i \in 1..Len(ps)}
<1>1. OpenQueue(c).calendar = calendar
  BY DEF OpenQueue
<1>2. ps \in Seq(Patients(c))
  BY DEF Net, Specified
<1> HIDE DEF ps
<1>3. Len(ps) \in Nat /\ Len(ps) # 0
  BY <1>2 DEF ps
<1>4. E(1) \in calendar
  BY <1>3
<1> QED
  BY <1>1, <1>4

\* A game of which the scoring takes the last round, and leaves it open, goes on.
LEMMA OneRoundOpen ==
  ASSUME NEW h, h.c.kind \in {"nim", "blackjack", "kim"}, h.history.count # 0, Evaluate(h) = "in_process",
         h.history.result \in {"win", "lose", "draw", "continue"}
  PROVE  h.history.result = "continue"
<1>1. Evaluate(h) = SingleRound(h)
  BY DEF Evaluate
<1> QED
  BY <1>1 DEF SingleRound

\* At the start nothing is spent.
LEMMA PaceOpens ==
  ASSUME ConfigsAssumption, NEW g, g.c \in Configs, BoundToEnd(g.c), g.s \in Openings(g.c), g.round = 0,
         g.history = Fresh(g.c).history, g.score = [player |-> 0, opponent |-> 0],
         \E h : h.c = g.c /\ h.s = g.s /\ g.tell \in Tells(h)
  PROVE  Pace(g.c, g.s, g.tell, 0, g.history, g.score)
<1> DEFINE c == g.c
           s == g.s
<1>0. c.kind \in GameKinds
  BY ConfigGives
<1>1. CASE c.kind = "nim"
  <2>1. s = [heap |-> c.heap] /\ c.heap \in Nat
    BY <1>1, ConfigGives DEF Openings, HeapGiven
  <2>2. 0 + s.heap <= c.heap
    BY <2>1
  <2> QED
    BY <1>1, <2>2 DEF Pace, Contested
<1>2. CASE c.kind \in {"bag", "siege"}
  <2>1. ForcesGiven(c)
    BY <1>2, ConfigGives
  <2>2. s.player = c.player /\ s.opponent = c.opponentReserve
    <3> DEFINE one == [player |-> c.player, opponent |-> c.opponentReserve]
               two == [player |-> c.player, opponent |-> c.opponentReserve, initiative |-> c.initiative]
    <3>1. s = one \/ s = two
      BY <1>2 DEF Openings
    <3>2. /\ one.player = c.player /\ one.opponent = c.opponentReserve
          /\ two.player = c.player /\ two.opponent = c.opponentReserve
      OBVIOUS
    <3> HIDE DEF one, two
    <3> QED
      BY <3>1, <3>2
  <2>3. Sides(c, s)
    BY <1>2, OpeningsFit DEF Fits
  <2>4. Units(c, c.player) \in Nat /\ Units(c, c.opponentReserve) \in Nat
    BY <2>1, <2>2, <2>3, ForceNat DEF Sides
  <2>5. Longest(c) = Units(c, c.player) + Units(c, c.opponentReserve)
    BY <1>2 DEF Longest
  <2>6. 0 + Units(c, s.player) + Units(c, s.opponent) <= Longest(c)
    BY <2>2, <2>4, <2>5
  <2>9. \E h : h.c = g.c /\ h.s = g.s /\ g.tell \in Tells(h)
    OBVIOUS
  <2>7. Commits(c, s, g.tell)
    BY <1>2, <2>1, <2>3, <2>9, AnnouncedCommits
  <2> HIDE DEF c, s
  <2>8. Pace(c, s, g.tell, 0, g.history, g.score)
    BY <1>2, <2>6, <2>7 DEF Pace, Contested
  <2> QED
    BY <2>8 DEF c, s
<1>3. CASE c.kind = "blackjack"
  <2>1. DeckGiven(c) /\ s \in BlackjackOpenings(c)
    BY <1>3, ConfigGives DEF Openings
  <2>2. s.deck \subseteq c.cards /\ IsFiniteSet(c.cards)
    BY <2>1, BlackjackOpens DEF Hands, DeckGiven
  <2>3. Cardinality(s.deck) \in Nat /\ Cardinality(c.cards) \in Nat /\ Cardinality(s.deck) <= Cardinality(c.cards)
    BY <2>2, FS_Subset, FS_CardinalityType
  <2> QED
    BY <1>3, <2>3 DEF Pace, Contested
<1>4. CASE c.kind = "kim"
  <2>1. TrayGiven(c) /\ s \in KimOpenings(c)
    BY <1>4, ConfigGives DEF Openings
  <2>2. PaidFor(c, s)
    BY <2>1, KimOpens
  <2>3. Cardinality(s.inspected) \in Nat
    BY <2>2, FS_CardinalityType DEF PaidFor
  <2> QED
    BY <1>4, <2>3 DEF Pace, Contested
<1>5. CASE c.kind = "queue"
  <2>1. ValidNet(c) /\ s = OpenQueue(c) /\ c.patients # <<>>
    BY <1>5 DEF Openings, BoundToEnd
  <2>2. Net(c)
    BY <1>5, <2>1 DEF Net, ConfigsAssumption
  <2>3. s.calendar # {}
    BY <2>1, <2>2, ArrivalsWait
  <2>4. Longest(c) = Len(c.patients) * (1 + Cardinality(Stations(c)))
    BY <1>5 DEF Longest
  <2> DEFINE n == Cardinality(Steps(c, s))
             most == Len(c.patients) * (1 + Cardinality(Stations(c)))
  <2>5. n \in Nat /\ most \in Nat /\ n <= most
    BY <2>2, StepsFinite
  <2> HIDE DEF n, most
  <2>6. 0 + n <= most
    BY <2>5
  <2> QED
    BY <1>5, <2>1, <2>3, <2>4, <2>6 DEF Pace, Contested, n, most
<1>6. CASE c.kind \in Contested
  <2>1. c.scoring \in {"best_of_n", "first_to_n", "highest_after_n"} => c.n \in Nat \ {0}
    BY <1>6 DEF BoundToEnd, Contested
  <2>2. 0 < LongestContest(c)
    <3>1. CASE c.scoring = "first_to_n"
      BY <2>1, <3>1 DEF LongestContest
    <3>2. CASE c.scoring \in {"best_of_n", "highest_after_n"}
      BY <2>1, <3>2 DEF LongestContest
    <3>3. CASE c.scoring \notin {"best_of_n", "first_to_n", "highest_after_n"}
      BY <3>3 DEF LongestContest
    <3> QED
      BY <3>1, <3>2, <3>3
  <2>3. g.history.win = 0 /\ g.history.lose = 0
    BY DEF Fresh
  <2>4. Worth(c) \in Nat
    BY DEF Worth
  <2>5. Tally(c, 0, g.history, g.score)
    BY <2>3, <2>4 DEF Tally
  <2> QED
    BY <1>6, <2>2, <2>5 DEF Pace, Contested
<1>7. CASE c.kind = "credentials"
  <2>1. s = ShiftOpening(c) /\ RosterGiven(c)
    BY <1>7, ConfigGives DEF Openings
  <2>2. s.index = 1 /\ 1 \in DOMAIN c.roster /\ AtCounter(c, s) /\ Used(s) = 0
    BY <2>1, CounterOpens
  <2>3. Before(c, s.index) \in Nat
    BY <2>1, <2>2, BeforeSteps
  <2>4. 0 <= Before(c, s.index) + Used(s)
    BY <2>2, <2>3
  <2> QED
    BY <1>7, <2>2, <2>4 DEF Pace, Contested
<1>8. CASE c.kind \in {"corridor", "incremental"}
  BY <1>8 DEF BoundToEnd
<1> QED
  BY <1>0, <1>1, <1>2, <1>3, <1>4, <1>5, <1>6, <1>7, <1>8 DEF GameKinds, Contested

\* A round after which the game goes on spends something.
LEMMA PaceRound ==
  ASSUME ConfigsAssumption, NEW b, b.c \in Configs, BoundToEnd(b.c), NEW n \in Nat, b.history.count = n,
         Pace(b.c, b.s, b.tell, n, b.history, b.score), Fits(b.c, b.s, b.score), GoesOn(b.c, b.s),
         MayTell(b.c, b.s, b.tell), Simulates(b.c) => Kept(b.c, b.s),
         NEW m \in Moves(b), NEW o \in Replies(b, m), NEW out \in Rounds(b, m, o), out.result # "raise",
         NEW h, h.c = b.c, h.s = out.s, h.score = out.score, h.history = Recorded(b.history, m, o, out.result),
         h.round = n + 1, Evaluate(h) = "in_process",
         NEW tell, \E x : x.c = b.c /\ x.s = out.s /\ tell \in Tells(x)
  PROVE  Pace(b.c, out.s, tell, n + 1, h.history, h.score)
<1> DEFINE c == b.c
           s == b.s
           t == out.s
<1>0. c.kind \in GameKinds
  BY ConfigGives
<1>1. Fits(c, t, out.score) /\ Tallied(c, t, out.result)
  BY RoundFits
<1>2. h.history.count = n + 1 /\ h.history.count # 0 /\ h.history.result = out.result
  BY DEF Recorded
<1>3. c.kind \in {"nim", "blackjack", "kim"} => out.result = "continue"
  <2> SUFFICES ASSUME c.kind \in {"nim", "blackjack", "kim"} PROVE out.result = "continue"
    OBVIOUS
  <2>1. h.history.result \in {"win", "lose", "draw", "continue"}
    BY <1>1, <1>2 DEF Tallied
  <2>2. h.history.result = "continue"
    BY <1>2, <2>1, OneRoundOpen
  <2> QED
    BY <1>2, <2>2
<1>4. CASE c.kind = "nim"
  <2>1. HeapGiven(c) /\ c.min = 1 /\ s \in Heaps /\ m \in Takes(b) /\ o \in Nat /\ out = NimRound(b, m, o)
    BY <1>4, ConfigGives DEF Fits, MayTell, Moves, Replies, Rounds, BoundToEnd
  <2>2. t.heap < s.heap
    BY <1>3, <1>4, <2>1, NimShrinks
  <2>3. t.heap \in Int /\ s.heap \in Int /\ c.heap \in Nat /\ n + s.heap <= c.heap
    BY <1>1, <1>4, <2>1 DEF Fits, Heaps, HeapGiven, Pace
  <2> HIDE DEF c, s, t
  <2>4. n + 1 + t.heap <= c.heap
    BY <2>2, <2>3
  <2>5. Pace(c, t, tell, n + 1, h.history, h.score)
    BY <1>4, <2>4 DEF Pace, Contested
  <2> QED
    BY <2>5 DEF c, t
<1>5. CASE c.kind \in {"bag", "siege"}
  <2>1. ForcesGiven(c) /\ Sides(c, s) /\ Within(c, b.tell, s.opponent) /\ Sides(c, t)
    BY <1>1, <1>5, ConfigGives DEF Fits, MayTell
  <2>2. Decisive(c) /\ m \in Profiles(c, s.player) /\ Commits(c, s, b.tell)
    BY <1>5 DEF BoundToEnd, Moves, Pace
  <2> DEFINE before == Units(c, s.player) + Units(c, s.opponent)
             after == Units(c, t.player) + Units(c, t.opponent)
  <2>3. before \in Nat /\ after \in Nat /\ (Present(c, t.opponent) # {} => after < before)
    <3>1. Costly(c, s, t)
      BY <1>5, <2>1, <2>2, ForceShrinks
    <3> QED
      BY <3>1 DEF Costly
  <2>4. ForceLeft(h) = "in_process"
    BY <1>5 DEF Evaluate
  <2>5. Present(h.c, h.s.opponent) # {}
    BY <2>1, <2>4, OpponentLeft
  <2>6. n + Units(c, s.player) + Units(c, s.opponent) <= Longest(c)
    BY <1>5 DEF Pace
  <2>7. Units(c, s.player) \in Nat /\ Units(c, s.opponent) \in Nat /\ Units(c, t.player) \in Nat /\ Units(c, t.opponent) \in Nat
    BY <2>1, ForceNat DEF Sides
  <2>8. Longest(c) \in Nat
    <3>1. c.player \in Reserves(c) /\ c.opponentReserve \in Reserves(c)
      BY <2>1 DEF ForcesGiven, Reserves
    <3>2. Longest(c) = Units(c, c.player) + Units(c, c.opponentReserve)
      BY <1>5 DEF Longest
    <3>3. Units(c, c.player) \in Nat /\ Units(c, c.opponentReserve) \in Nat
      BY <2>1, <3>1, ForceNat
    <3> QED
      BY <3>2, <3>3
  <2>9. Commits(c, t, tell)
    BY <1>5, <2>1, AnnouncedCommits
  <2>10. after < before
    BY <2>3, <2>5
  <2>11. n + 1 + Units(c, t.player) + Units(c, t.opponent) <= Longest(c)
    <3> DEFINE u == Units(c, s.player)
               v == Units(c, s.opponent)
               x == Units(c, t.player)
               y == Units(c, t.opponent)
               most == Longest(c)
    <3>1. u \in Nat /\ v \in Nat /\ x \in Nat /\ y \in Nat /\ most \in Nat /\ n + u + v <= most /\ x + y < u + v
      BY <2>6, <2>7, <2>8, <2>10
    <3> HIDE DEF u, v, x, y, most
    <3>2. n + 1 + x + y <= most
      BY <3>1
    <3> QED
      BY <3>2 DEF x, y, most
  <2> HIDE DEF c, s, t
  <2>12. Pace(c, t, tell, n + 1, h.history, h.score)
    BY <1>5, <2>9, <2>11 DEF Pace, Contested
  <2> QED
    BY <2>12 DEF c, t
<1>6. CASE c.kind = "blackjack"
  <2>1. DeckGiven(c) /\ s \in Hands(c) /\ out \in BlackjackRounds(b, m)
    BY <1>6, ConfigGives DEF Fits, Rounds
  <2>2. Cardinality(s.deck) \in Nat /\ Cardinality(t.deck) \in Nat /\ Cardinality(t.deck) = Cardinality(s.deck) - 1
    BY <1>3, <1>6, <2>1, BlackjackDraws
  <2>3. n + Cardinality(s.deck) <= Cardinality(c.cards) /\ Cardinality(c.cards) \in Nat
    BY <1>6, <2>1, FS_CardinalityType DEF Pace, DeckGiven
  <2> HIDE DEF c, s, t
  <2>4. n + 1 + Cardinality(t.deck) <= Cardinality(c.cards)
    BY <2>2, <2>3
  <2>5. Pace(c, t, tell, n + 1, h.history, h.score)
    BY <1>6, <2>4 DEF Pace, Contested
  <2> QED
    BY <2>5 DEF c, t
<1>7. CASE c.kind = "kim"
  <2>1. /\ TrayGiven(c) /\ s \in Trays(c) /\ PaidFor(c, s) /\ s.decision = NoMove
        /\ m \in KimMoves(b) /\ out = KimRound(b, m)
    BY <1>7, ConfigGives DEF Fits, GoesOn, Moves, Rounds
  <2>2. Cardinality(t.inspected) = Cardinality(s.inspected) + 1
    BY <1>3, <1>7, <2>1, KimSpends
  <2>3. n <= Cardinality(s.inspected) /\ Cardinality(s.inspected) \in Nat
    BY <1>7, <2>1, FS_CardinalityType DEF Pace, PaidFor
  <2> HIDE DEF c, s, t
  <2>4. n + 1 <= Cardinality(t.inspected)
    BY <2>2, <2>3
  <2>5. Pace(c, t, tell, n + 1, h.history, h.score)
    BY <1>7, <2>4 DEF Pace, Contested
  <2> QED
    BY <2>5 DEF c, t
<1>8. CASE c.kind = "queue"
  <2>1. ValidNet(c) /\ s.calendar # {} /\ n + Cardinality(Steps(c, s)) <= Longest(c)
    BY <1>8 DEF Pace
  <2>2. Net(c) /\ Kept(c, s)
    BY <1>8, <2>1 DEF Net, ConfigsAssumption, Simulates
  <2>3. m \in {"run_next", "run_until_complete"} /\ out = QueueRound(b, m)
    BY <1>8 DEF Moves, QueueMoves, Rounds
  <2>4. ~t.metrics
    BY <1>8 DEF Evaluate
  <2>5. t.calendar # {} /\ Cardinality(Steps(c, t)) < Cardinality(Steps(c, s))
    BY <2>1, <2>2, <2>3, <2>4, QueueAdvances
  <2>6. Cardinality(Steps(c, t)) \in Nat /\ Cardinality(Steps(c, s)) \in Nat /\ Longest(c) \in Nat
    BY <1>8, <2>2, StepsFinite DEF Longest
  <2> HIDE DEF c, s, t
  <2>7. n + 1 + Cardinality(Steps(c, t)) <= Longest(c)
    BY <2>1, <2>5, <2>6
  <2>8. Pace(c, t, tell, n + 1, h.history, h.score)
    BY <1>8, <2>1, <2>5, <2>7 DEF Pace, Contested
  <2> QED
    BY <2>8 DEF c, t
<1>9. CASE c.kind \in Contested
  <2>1. Tally(c, n, b.history, b.score)
    BY <1>9 DEF Pace
  <2>2. /\ out.result \in {"win", "lose", "draw"}
        /\ (c.kind = "throws" => NeverTied(c)) =>
              \E x, y \in Nat : /\ x + y = Worth(c)
                                /\ out.score = [player |-> b.score.player + x, opponent |-> b.score.opponent + y]
    BY <1>9, ContestScores
  <2>3. h.history.win \in Nat /\ h.history.lose \in Nat
    <3>1. /\ h.history.win = b.history.win + (IF out.result = "win" THEN 1 ELSE 0)
          /\ h.history.lose = b.history.lose + (IF out.result = "lose" THEN 1 ELSE 0)
      BY DEF Recorded
    <3>2. b.history.win \in Nat /\ b.history.lose \in Nat
      BY <2>1 DEF Tally
    <3> QED
      BY <3>1, <3>2
  <2>4. ASSUME c.kind = "throws" => NeverTied(c)
        PROVE  /\ h.score.player \in Nat /\ h.score.opponent \in Nat
               /\ h.score.player + h.score.opponent = Worth(c) * (n + 1)
    <3>1. PICK x, y \in Nat : /\ x + y = Worth(c)
                              /\ out.score = [player |-> b.score.player + x, opponent |-> b.score.opponent + y]
      BY <2>2, <2>4
    <3>2. h.score.player = b.score.player + x /\ h.score.opponent = b.score.opponent + y
      BY <3>1
    <3>3. /\ b.score.player \in Nat /\ b.score.opponent \in Nat
          /\ b.score.player + b.score.opponent = Worth(c) * n
      BY <2>1, <2>4 DEF Tally
    <3> DEFINE w == Worth(c)
               i == b.score.player
               j == b.score.opponent
    <3>4. w = 1 \/ w = 2
      BY DEF Worth
    <3>5. i \in Nat /\ j \in Nat /\ i + j = w * n /\ x + y = w /\ h.score.player = i + x /\ h.score.opponent = j + y
      BY <3>1, <3>2, <3>3
    <3> HIDE DEF w, i, j
    <3>6. i + x \in Nat /\ j + y \in Nat /\ (i + x) + (j + y) = w * n + w
      BY <3>4, <3>5
    <3>7. w * n + w = w * (n + 1)
      BY <3>4
    <3> QED
      BY <3>5, <3>6, <3>7 DEF w
  <2>5. Tally(c, n + 1, h.history, h.score)
    BY <2>3, <2>4 DEF Tally
  <2>6. h.round < LongestContest(h.c)
    <3>1. h.round \in Nat /\ h.round # 0 /\ h.history.count = h.round
      BY <1>2
    <3>2. h.history.result \in {"win", "lose", "draw"} /\ Tally(h.c, h.round, h.history, h.score)
      BY <1>2, <2>2, <2>5
    <3> QED
      BY <1>9, <3>1, <3>2, OpenContest
  <2>7. n + 1 < LongestContest(c)
    BY <2>6
  <2> HIDE DEF c, s, t
  <2>8. Pace(c, t, tell, n + 1, h.history, h.score)
    BY <1>9, <2>5, <2>7 DEF Pace, Contested
  <2> QED
    BY <2>8 DEF c, t
<1>10. CASE c.kind = "credentials"
  <2>1. RosterGiven(c) /\ ShiftFits(c, s) /\ m \in CheckpointMoves(b) /\ out = CheckpointRound(b, m)
    BY <1>10, ConfigGives DEF Fits, Moves, Rounds
  <2>2. s.index \in DOMAIN c.roster /\ AtCounter(c, s) /\ n <= Before(c, s.index) + Used(s)
    BY <1>10 DEF Pace
  <2>3. t.complete # TRUE
    <3>1. ShiftResult(h) = "in_process"
      BY <1>10 DEF Evaluate
    <3> QED
      BY <3>1 DEF ShiftResult
  <2>4. \/ t.index = s.index /\ AtCounter(c, t) /\ Used(t) = Used(s) + 1
        \/ t.index = s.index + 1 /\ t.index \in DOMAIN c.roster /\ AtCounter(c, t) /\ Used(t) = 0
    BY <2>1, <2>2, <2>3, CounterRound
  <2> HIDE DEF c, s, t
  <2>5. /\ Used(s) \in Nat /\ LongestCase(c.roster[s.index]) \in Nat /\ Used(s) < LongestCase(c.roster[s.index])
    BY <2>1, <2>2, UsedBound
  <2>6. /\ Before(c, s.index) \in Nat
        /\ Before(c, s.index + 1) = Before(c, s.index) + LongestCase(c.roster[s.index])
    BY <2>1, <2>2, BeforeSteps
  <2>7. t.index \in DOMAIN c.roster /\ AtCounter(c, t)
    BY <2>2, <2>4
  <2>8. n + 1 <= Before(c, t.index) + Used(t)
    BY <2>2, <2>4, <2>5, <2>6
  <2>9. Pace(c, t, tell, n + 1, h.history, h.score)
    BY <1>10, <2>7, <2>8 DEF Pace, Contested
  <2> QED
    BY <2>9 DEF c, t
<1>11. CASE c.kind \in {"corridor", "incremental"}
  BY <1>11 DEF BoundToEnd
<1> QED
  BY <1>0, <1>4, <1>5, <1>6, <1>7, <1>8, <1>9, <1>10, <1>11 DEF GameKinds, Contested

\* A move that is played keeps the pace.
LEMMA ReceivePaces ==
  ASSUME ConfigsAssumption, NEW g, Shaped(g), Held(g), g.phase = "ready", BoundToEnd(g.c),
         Pace(g.c, g.s, g.tell, g.round, g.history, g.score),
         NEW m \in Moves(g), NEW end \in ReceiveMove(g, m), ~end.raised, end.g.phase = "ready"
  PROVE  Pace(end.g.c, end.g.s, end.g.tell, end.g.round, end.g.history, end.g.score)
<1> DEFINE b == Begun(g)
<1>1. IsGame(g) /\ g.c \in Configs /\ g.round \in Nat /\ (Simulates(g.c) => Kept(g.c, g.s))
  BY DEF Shaped
<1>2. PICK o \in Replies(b, m) : \E out \in Rounds(b, m, o) : Played(g, m, o, out, end)
  BY <1>1, ReceiveGives
<1>3. PICK out \in Rounds(b, m, o) : Played(g, m, o, out, end)
  BY <1>2
<1>4. /\ b.c = g.c /\ b.s = g.s /\ b.result = g.result /\ b.score = g.score /\ b.tell = g.tell
      /\ b.history = g.history
  BY <1>1, BegunGives
<1> HIDE DEF b
<1>5. g.c.kind \in GameKinds
  BY <1>1, ConfigGives
<1>6. m \in Moves(b)
  BY <1>4, <1>5, BegunMoves
<1>7. /\ end.g.c = g.c /\ end.g.s = out.s /\ end.g.score = out.score /\ end.g.round = g.round + 1
      /\ out.result # "raise"
  BY <1>3 DEF Played
<1>8. /\ end.g.history = Recorded(g.history, m, o, out.result) /\ end.g.result = "in_process"
      /\ Announced(end.g, end.raised)
  BY <1>3, <1>7 DEF Played
<1>9. PICK h : Judged(g, m, o, out, h) /\ end.g.result = Evaluate(h)
  BY <1>3, <1>7 DEF Played
<1>10. /\ h.c = b.c /\ h.s = out.s /\ h.score = out.score /\ h.round = g.round + 1
       /\ h.history = Recorded(b.history, m, o, out.result) /\ Evaluate(h) = "in_process"
  BY <1>4, <1>8, <1>9 DEF Judged
<1>11. \E x : x.c = b.c /\ x.s = out.s /\ end.g.tell \in Tells(x)
  BY <1>4, <1>7, <1>8 DEF Announced
<1>12. /\ Fits(b.c, b.s, b.score) /\ GoesOn(b.c, b.s) /\ MayTell(b.c, b.s, b.tell) /\ b.history.count = g.round
       /\ b.c \in Configs /\ BoundToEnd(b.c) /\ Pace(b.c, b.s, b.tell, g.round, b.history, b.score)
       /\ Simulates(b.c) => Kept(b.c, b.s)
  BY <1>1, <1>4 DEF Held
<1>13. Pace(b.c, out.s, end.g.tell, g.round + 1, h.history, h.score)
  BY <1>1, <1>3, <1>6, <1>7, <1>10, <1>11, <1>12, PaceRound
<1> QED
  BY <1>4, <1>7, <1>8, <1>10, <1>13

\* A setup sets the pace.
LEMMA SetupPaces ==
  ASSUME ConfigsAssumption, NEW g, g.c \in Configs, BoundToEnd(g.c), NEW end \in Setup(g), ~end.raised
  PROVE  Pace(end.g.c, end.g.s, end.g.tell, end.g.round, end.g.history, end.g.score)
<1>1. SetUp(g, end)
  BY SetupGives
<1>2. /\ end.g.c = g.c /\ end.g.round = 0 /\ end.g.history = Fresh(g.c).history
      /\ end.g.score = [player |-> 0, opponent |-> 0]
      /\ end.g.s \in Openings(g.c) /\ Announced(end.g, end.raised)
  BY <1>1 DEF SetUp
<1>3. \E h : h.c = end.g.c /\ h.s = end.g.s /\ end.g.tell \in Tells(h)
  BY <1>2 DEF Announced
<1> QED
  BY <1>2, <1>3, PaceOpens

\* What a frame does to a game: it sets it up, plays a legal move, or neither.
SetsUp == game.phase = "pending" /\ \E end \in Setup(game) : ~end.raised /\ game' = end.g
Plays ==
  game.phase = "ready" /\ \E m \in Moves(game) : \E end \in ReceiveMove(game, m) : ~end.raised /\ game' = end.g

\* So do the frames of a game that is whole.
LEMMA FrameGives ==
  ASSUME ConfigsAssumption, PlayInv, [Next]_vars
  PROVE  /\ game'.c = game.c /\ keeps' = keeps
         /\ Whole => game' = game \/ SetsUp \/ Plays
<1>2. Shaped(game) /\ game.c \in Configs /\ (Whole => Held(game) /\ actions = Projected(game))
  BY DEF PlayInv, GamesInv, Shaped
<1>4. CASE Arrive
  <2>1. PICK end \in IF game.phase = "pending" THEN Setup(game) ELSE {Done(game)} :
          IF end.raised THEN Fails(end.g, Projected(game)) ELSE Ends(end.g)
    BY <1>4 DEF Arrive
  <2>2. CASE game.phase = "pending"
    <3>1. end \in Setup(game) /\ end.g.c = game.c
      BY <1>2, <2>1, <2>2, SetupShaped
    <3>2. CASE end.raised
      <4>1. keeps' = keeps /\ (game' = game \/ (keeps /\ game' = end.g))
        BY <2>1, <3>2 DEF Fails
      <4>2. game.c.kind = "queue"
        BY <1>2, <3>1, <3>2, SetupHeld
      <4> QED
        BY <3>1, <4>1, <4>2 DEF Whole
    <3>3. CASE ~end.raised
      <4>1. game' = end.g /\ keeps' = keeps
        BY <2>1, <3>3 DEF Ends
      <4>2. SetsUp
        BY <2>2, <3>1, <3>3, <4>1 DEF SetsUp
      <4> QED
        BY <3>1, <4>1, <4>2
    <3> QED
      BY <3>2, <3>3
  <2>3. CASE game.phase # "pending"
    <3>1. end.g = game /\ ~end.raised
      BY <2>1, <2>3 DEF Done
    <3> QED
      BY <2>1, <3>1 DEF Ends
  <2> QED
    BY <2>2, <2>3
<1>5. CASE Choose
  <2>1. PICK a \in actions : \E m \in Submitted(game, a) :
          IF Refused(game, m) THEN Fails(game, Projected(game))
          ELSE \E end \in ReceiveMove(game, m) :
                 IF end.raised THEN Fails(end.g, Projected(game)) ELSE Ends(end.g)
    BY <1>5 DEF Choose
  <2>2. PICK m \in Submitted(game, a) :
          IF Refused(game, m) THEN Fails(game, Projected(game))
          ELSE \E end \in ReceiveMove(game, m) :
                 IF end.raised THEN Fails(end.g, Projected(game)) ELSE Ends(end.g)
    BY <2>1
  <2>3. CASE Refused(game, m)
    BY <2>2, <2>3 DEF Fails
  <2>4. CASE ~Refused(game, m)
    <3>1. PICK end \in ReceiveMove(game, m) :
            IF end.raised THEN Fails(end.g, Projected(game)) ELSE Ends(end.g)
      BY <2>2, <2>4
    <3>2. game.phase = "ready"
      BY <1>5 DEF Choose
    <3>3. end.g.c = game.c
      <4>1. game.c.kind \in {"trivial", "queue"} => m = a
        BY <2>2 DEF Submitted
      <4>2. game.c.kind = "trivial" => m \in TrivialMoves
        BY <1>2, <2>1, <4>1 DEF PlayInv, GamesInv, Apt
      <4>3. Simulates(game.c) /\ m = "run_next" => game.s.calendar # {}
        BY <1>2, <2>1, <3>2, <4>1 DEF PlayInv, GamesInv, Apt, Simulates
      <4> QED
        BY <1>2, <3>1, <3>2, <4>2, <4>3, ReceiveShaped
    <3>4. game'.c = game.c /\ keeps' = keeps
      BY <3>1, <3>3 DEF Fails, Ends
    <3>5. ASSUME Whole PROVE m \in Moves(game)
      <4>1. a \in Provisioned(game)
        BY <1>2, <2>1, <3>2, <3>5 DEF Projected, Held
      <4> QED
        BY <2>2, <2>4, <4>1, SubmittedLegal
    <3>6. CASE end.raised
      <4>1. ASSUME Whole PROVE game' = game
        <5>1. game.c.kind = "queue"
          BY <1>2, <3>1, <3>2, <3>5, <3>6, <4>1, ReceiveHeld
        <5> QED
          BY <3>1, <3>6, <4>1, <5>1 DEF Fails, Whole
      <4> QED
        BY <3>4, <4>1
    <3>7. CASE ~end.raised
      <4>1. game' = end.g
        BY <3>1, <3>7 DEF Ends
      <4> QED
        BY <3>1, <3>2, <3>4, <3>5, <3>7, <4>1 DEF Plays
    <3> QED
      BY <3>6, <3>7
  <2> QED
    BY <2>3, <2>4
<1>6. CASE ChooseStale
  BY <1>6 DEF ChooseStale, Ends
<1>7. CASE UNCHANGED vars
  BY <1>7 DEF vars
<1> QED
  BY <1>4, <1>5, <1>6, <1>7 DEF Next

\* The invariant of games that are bound to end.
Paced(g) == g.phase = "ready" /\ BoundToEnd(g.c) => Pace(g.c, g.s, g.tell, g.round, g.history, g.score)
EndInv == PlayInv /\ (Whole => Paced(game))

\* Every frame keeps it.
LEMMA EndStep ==
  ASSUME ConfigsAssumption, EndInv, [Next]_vars
  PROVE  EndInv'
<1>1. PlayInv'
  BY PlayStep DEF EndInv
<1>2. /\ game'.c = game.c /\ keeps' = keeps
      /\ Whole => game' = game \/ SetsUp \/ Plays
  BY FrameGives DEF EndInv
<1>3. Shaped(game) /\ game.c \in Configs /\ (Whole => Held(game) /\ Paced(game))
  BY DEF EndInv, PlayInv, GamesInv, Shaped
<1> SUFFICES ASSUME Whole PROVE Paced(game')
  BY <1>1, <1>2 DEF EndInv, Whole
<1>4. CASE game' = game
  BY <1>3, <1>4
<1>5. CASE SetsUp
  BY <1>2, <1>3, <1>5, SetupPaces DEF SetsUp, Paced
<1>6. CASE Plays
  <2>1. PICK m \in Moves(game) : \E end \in ReceiveMove(game, m) : ~end.raised /\ game' = end.g
    BY <1>6 DEF Plays
  <2>2. PICK end \in ReceiveMove(game, m) : ~end.raised /\ game' = end.g
    BY <2>1
  <2>3. ASSUME end.g.phase = "ready", BoundToEnd(game.c)
        PROVE  Pace(end.g.c, end.g.s, end.g.tell, end.g.round, end.g.history, end.g.score)
    <3>1. game.phase = "ready"
      BY <1>6 DEF Plays
    <3>2. Held(game) /\ Pace(game.c, game.s, game.tell, game.round, game.history, game.score)
      BY <1>3, <2>3, <3>1 DEF Paced
    <3> QED
      BY <1>3, <2>2, <2>3, <3>1, <3>2, ReceivePaces
  <2> QED
    BY <1>2, <2>2, <2>3 DEF Paced
<1> QED
  BY <1>2, <1>4, <1>5, <1>6

\* A game that keeps the pace has rounds left.
LEMMA PaceEnds ==
  ASSUME ConfigsAssumption, NEW g, Shaped(g), Held(g), g.phase = "ready", BoundToEnd(g.c),
         Pace(g.c, g.s, g.tell, g.round, g.history, g.score)
  PROVE  g.round < Longest(g.c)
<1> DEFINE c == g.c
           s == g.s
           n == g.round
<1>0. /\ c \in Configs /\ n \in Nat /\ (Simulates(c) => Kept(c, s))
      /\ Fits(c, s, g.score) /\ GoesOn(c, s)
  BY DEF Shaped, Held
<1>a. c.kind \in GameKinds
  BY <1>0, ConfigGives
<1>1. CASE c.kind = "nim"
  <2>1. s.heap > 0 /\ s.heap \in Int /\ c.heap \in Nat /\ n + s.heap <= c.heap /\ Longest(c) = c.heap
    BY <1>0, <1>1, ConfigGives DEF GoesOn, Fits, Heaps, HeapGiven, Pace, Longest
  <2> HIDE DEF c, s, n
  <2>2. n < Longest(c)
    BY <1>0, <2>1
  <2> QED
    BY <2>2 DEF c, n
<1>2. CASE c.kind \in {"bag", "siege"}
  <2>1. ForcesGiven(c) /\ Sides(c, s) /\ Present(c, s.player) # {}
    BY <1>0, <1>2, ConfigGives DEF Fits, GoesOn
  <2>2. PICK t \in Present(c, s.player) : TRUE
    BY <2>1
  <2>3. s.player[t] \in Nat /\ s.player[t] > 0 /\ Units(c, s.player) \in Nat /\ s.player[t] <= Units(c, s.player)
    BY <2>1, PresentCount DEF Sides
  <2>4. Units(c, s.opponent) \in Nat /\ n + Units(c, s.player) + Units(c, s.opponent) <= Longest(c)
    BY <1>2, <2>1, ForceNat DEF Sides, Pace
  <2>5. Longest(c) \in Nat
    <3>1. c.player \in Reserves(c) /\ c.opponentReserve \in Reserves(c)
      BY <2>1 DEF ForcesGiven, Reserves
    <3>2. Longest(c) = Units(c, c.player) + Units(c, c.opponentReserve)
      BY <1>2 DEF Longest
    <3>3. Units(c, c.player) \in Nat /\ Units(c, c.opponentReserve) \in Nat
      BY <2>1, <3>1, ForceNat
    <3> QED
      BY <3>2, <3>3
  <2> HIDE DEF c, s, n
  <2>6. n < Longest(c)
    BY <1>0, <2>3, <2>4, <2>5
  <2> QED
    BY <2>6 DEF c, n
<1>3. CASE c.kind = "blackjack"
  <2>1. DeckGiven(c) /\ s \in Hands(c)
    BY <1>0, <1>3, ConfigGives DEF Fits
  <2>2. IsFiniteSet(c.cards) /\ s.deck \subseteq c.cards
    BY <2>1 DEF DeckGiven, Hands
  <2>3. Cardinality(c.cards) \in Nat /\ Cardinality(s.deck) \in Nat
    BY <2>2, FS_Subset, FS_CardinalityType
  <2>4. n + Cardinality(s.deck) <= Cardinality(c.cards) /\ Longest(c) = Cardinality(c.cards) + 1
    BY <1>3 DEF Pace, Longest
  <2> HIDE DEF c, s, n
  <2>5. n < Longest(c)
    BY <1>0, <2>3, <2>4
  <2> QED
    BY <2>5 DEF c, n
<1>4. CASE c.kind = "kim"
  <2>1. s \in Trays(c) /\ PaidFor(c, s) /\ TrayGiven(c)
    BY <1>0, <1>4, ConfigGives DEF Fits
  <2>2. s.cues \in Nat /\ Cardinality(s.inspected) \in Nat /\ s.cues + Cardinality(s.inspected) = c.budget
    BY <2>1, FS_CardinalityType DEF Trays, PaidFor
  <2>3. n <= Cardinality(s.inspected) /\ Longest(c) = c.budget + 1
    BY <1>4 DEF Pace, Longest
  <2> HIDE DEF c, s, n
  <2>4. n < Longest(c)
    BY <1>0, <2>2, <2>3
  <2> QED
    BY <2>4 DEF c, n
<1>5. CASE c.kind = "queue"
  <2>1. ValidNet(c) /\ s.calendar # {} /\ n + Cardinality(Steps(c, s)) <= Longest(c)
    BY <1>5 DEF Pace
  <2>2. Net(c) /\ Kept(c, s)
    BY <1>0, <1>5, <2>1 DEF Net, ConfigsAssumption, Simulates
  <2>3. RunOK(c, s, {})
    BY <2>2 DEF Kept, Sound
  <2>4. Cardinality(Steps(c, RunNext(c, s))) < Cardinality(Steps(c, s))
    BY <2>1, <2>2, <2>3, RunNextSteps
  <2>5. Cardinality(Steps(c, RunNext(c, s))) \in Nat /\ Cardinality(Steps(c, s)) \in Nat /\ Longest(c) \in Nat
    BY <1>5, <2>2, StepsFinite DEF Longest
  <2> HIDE DEF c, s, n
  <2>6. n < Longest(c)
    BY <1>0, <2>1, <2>4, <2>5
  <2> QED
    BY <2>6 DEF c, n
<1>6. CASE c.kind \in Contested
  <2>1. n < LongestContest(c)
    BY <1>6 DEF Pace
  <2>2. Longest(c) = LongestContest(c)
    BY <1>6 DEF Longest, Contested
  <2> QED
    BY <2>1, <2>2
<1>7. CASE c.kind = "credentials"
  <2>1. RosterGiven(c) /\ s.index \in DOMAIN c.roster /\ AtCounter(c, s) /\ n <= Before(c, s.index) + Used(s)
    BY <1>0, <1>7, ConfigGives DEF Pace
  <2>2. Used(s) \in Nat /\ LongestCase(c.roster[s.index]) \in Nat /\ Used(s) < LongestCase(c.roster[s.index])
    BY <2>1, UsedBound
  <2>3. /\ Before(c, s.index) \in Nat /\ LongestShift(c) \in Nat
        /\ Before(c, s.index) + LongestCase(c.roster[s.index]) <= LongestShift(c)
    BY <2>1, BeforeSteps
  <2>4. Longest(c) = LongestShift(c)
    BY <1>7 DEF Longest
  <2> HIDE DEF c, s, n
  <2>5. n < Longest(c)
    BY <1>0, <2>1, <2>2, <2>3, <2>4
  <2> QED
    BY <2>5 DEF c, n
<1>8. CASE c.kind \in {"corridor", "incremental"}
  BY <1>8 DEF BoundToEnd
<1> QED
  BY <1>a, <1>1, <1>2, <1>3, <1>4, <1>5, <1>6, <1>7, <1>8 DEF GameKinds, Contested

(* A game that is bound to end does so in time, whatever is played: no heap,    *)
(* reserve, deck, tray, net or roster allows more rounds than its tokens, its   *)
(* units, its cards, its cues, its events or its documents and requests, and no *)
(* scoring over a number of rounds or points more than these                    *)
(* (game_handler.py, scoring.py and the handlers of the games).                 *)
THEOREM GamesEndInTime == Spec => []EndsInTime
<1>1. Init => EndInv
  <2> SUFFICES ASSUME Init PROVE EndInv
    OBVIOUS
  <2>1. PlayInv
    BY PlayInit, ConfigsAssumption
  <2>2. game.phase = "pending"
    BY DEF Init, Fresh
  <2> QED
    BY <2>1, <2>2 DEF EndInv, Paced
<1>2. EndInv /\ [Next]_vars => EndInv'
  BY EndStep, ConfigsAssumption
<1>3. EndInv => EndsInTime
  <2> SUFFICES ASSUME EndInv, Waiting, BoundToEnd(game.c), ~keeps PROVE game.round < Longest(game.c)
    BY DEF EndsInTime
  <2>1. /\ Held(game) /\ game.phase = "ready" /\ Shaped(game)
        /\ Pace(game.c, game.s, game.tell, game.round, game.history, game.score)
    BY DEF EndInv, PlayInv, Whole, Waiting, GamesInv, Paced
  <2> QED
    BY <2>1, ConfigsAssumption, PaceEnds
<1> QED
  BY <1>1, <1>2, <1>3, PTL DEF Spec

\* A round of Nim goes on as long as tokens are left.
LEMMA NimDecides ==
  ASSUME NEW g, HeapGiven(g.c), g.s \in Heaps, NEW take \in Takes(g), NEW reply \in Nat, NEW out, out = NimRound(g, take, reply)
  PROVE  out.result = "continue" <=> out.s.heap > 0
<1> DEFINE left == g.s.heap - take
           rest == left - reply
           heap(n) == [g.s EXCEPT !.heap = n]
<1>1. left \in Int /\ rest \in Int
  BY DEF HeapGiven, Heaps, Takes
<1>2. \A n \in Int : heap(n).heap = n
  BY DEF Heaps
<1>3. \/ out.s = heap(left) /\ out.result \in {"win", "lose"} /\ left <= 0
      \/ out.s = heap(rest) /\ out.result \in {"win", "lose"} /\ rest <= 0
      \/ out.s = heap(rest) /\ out.result = "continue" /\ ~(left <= 0) /\ ~(left > 0 /\ rest <= 0)
  BY DEF NimRound, Outcome
<1> HIDE DEF left, rest, heap
<1> QED
  BY <1>1, <1>2, <1>3

\* A side is out of force when it has no unit of any weight left.
LEMMA ForceIsArms ==
  ASSUME NEW c, ForcesGiven(c), NEW units \in Reserves(c)
  PROVE  TotalForce(c, units) \in Nat /\ (TotalForce(c, units) <= 0 <=> Armed(c, units) = {})
<1> DEFINE S == Types(c)
           f == [t \in S |-> units[t] * c.weight[t]]
<1>1. IsFiniteSet(S) /\ \A t \in S : units[t] \in Nat /\ c.weight[t] \in Nat
  BY ForceTypes DEF Reserves
<1>2. TotalForce(c, units) \in Nat /\ TotalForce(c, units) = SumFunction(f)
  BY ForceNat DEF TotalForce
<1>3. f \in [S -> Nat] /\ f \in [S -> Int]
  <2>1. \A t \in S : units[t] * c.weight[t] \in Nat
    BY <1>1, TimesNat
  <2> QED
    BY <2>1
<1>4. ASSUME Armed(c, units) = {} PROVE TotalForce(c, units) = 0
  <2>1. ASSUME NEW t \in S PROVE f[t] = 0
    <3>1. units[t] = 0 \/ c.weight[t] = 0
      BY <1>1, <1>4 DEF Armed, Present
    <3> QED
      BY <1>1, <3>1
  <2> HIDE DEF f, S
  <2>2. SumFunction(f) = 0
    BY <1>1, <1>3, <2>1, SumZero
  <2> QED
    BY <1>2, <2>2
<1>5. ASSUME NEW t \in Armed(c, units) PROVE TotalForce(c, units) > 0
  <2>1. t \in S /\ units[t] > 0 /\ c.weight[t] > 0
    BY DEF Armed, Present
  <2>2. f[t] > 0 /\ f[t] \in Nat
    BY <1>1, <1>3, <2>1
  <2> HIDE DEF f, S
  <2>3. f[t] <= SumFunction(f)
    BY <1>1, <1>3, <2>1, SumAtLeast
  <2> QED
    BY <1>2, <2>2, <2>3
<1> QED
  BY <1>2, <1>4, <1>5

\* Attrition is decided by who is out of force.
LEMMA ForceDecides ==
  ASSUME NEW g, ForcesGiven(g.c), Sides(g.c, g.s), g.score.player \in Int, g.score.opponent \in Int, g.result = ForceLeft(g)
  PROVE  OutOfForce(g)
<1> DEFINE mine == TotalForce(g.c, g.s.player)
           theirs == TotalForce(g.c, g.s.opponent)
           p == g.score.player
           o == g.score.opponent
<1>1. /\ mine \in Nat /\ theirs \in Nat
      /\ mine <= 0 <=> Armed(g.c, g.s.player) = {}
      /\ theirs <= 0 <=> Armed(g.c, g.s.opponent) = {}
  BY ForceIsArms DEF Sides
<1>2. g.result = CASE mine <= 0 /\ theirs <= 0 -> IF p > o THEN "win" ELSE IF p < o THEN "lose" ELSE "draw"
                   [] theirs <= 0 /\ mine > 0 -> "win"
                   [] mine <= 0 /\ theirs > 0 -> "lose"
                   [] OTHER -> "in_process"
  BY DEF ForceLeft
<1>3. p \in Int /\ o \in Int /\ p = g.score.player /\ o = g.score.opponent
  OBVIOUS
<1> HIDE DEF mine, theirs, p, o
<1>4. /\ g.result = "in_process" <=> ~(mine <= 0) /\ ~(theirs <= 0)
      /\ g.result = "win" => theirs <= 0
      /\ g.result = "lose" => mine <= 0
      /\ g.result = "draw" => mine <= 0 /\ theirs <= 0 /\ p = o
  <2>1. CASE mine <= 0 /\ theirs <= 0
    <3>1. g.result = IF p > o THEN "win" ELSE IF p < o THEN "lose" ELSE "draw"
      BY <1>1, <1>2, <2>1
    <3> QED
      BY <1>3, <2>1, <3>1
  <2>2. CASE theirs <= 0 /\ ~(mine <= 0)
    BY <1>1, <1>2, <2>2
  <2>3. CASE mine <= 0 /\ ~(theirs <= 0)
    BY <1>1, <1>2, <2>3
  <2>4. CASE ~(mine <= 0) /\ ~(theirs <= 0)
    BY <1>1, <1>2, <2>4
  <2> QED
    BY <2>1, <2>2, <2>3, <2>4
<1> QED
  BY <1>1, <1>3, <1>4 DEF OutOfForce

\* What a side has scored is a number.
LEMMA ScoreInt ==
  ASSUME NEW c, ForcesGiven(c), NEW s, NEW score, Sides(c, s), Scored(c, s, score)
  PROVE  score.player \in Int /\ score.opponent \in Int
<1>1. /\ TotalForce(c, c.opponentReserve) \in Nat /\ TotalForce(c, s.opponent) \in Nat
      /\ TotalForce(c, c.player) \in Nat /\ TotalForce(c, s.player) \in Nat
  BY ForceTypes, ForceNat DEF Sides
<1> QED
  BY <1>1 DEF Scored

\* In the best of n rounds a result shows who has won more of them.
LEMMA MajorityDecides ==
  ASSUME NEW g, NEW o, g.c.n \in Nat, o.win \in Nat, o.lose \in Nat, 2 * o.win <= g.c.n, 2 * o.lose <= g.c.n,
         NEW result \in {"win", "lose", "draw"}, g.history.win = o.win + (IF result = "win" THEN 1 ELSE 0),
         g.history.lose = o.lose + (IF result = "lose" THEN 1 ELSE 0), g.history.count \in Nat, g.result = BestOf(g)
  PROVE  /\ Majority(g)
         /\ g.history.win \in Nat /\ g.history.lose \in Nat
<1> DEFINE needed == g.c.n \div 2 + 1
           w == g.history.win
           l == g.history.lose
           n == g.c.n
           k == g.history.count
           half == n \div 2
<1>1. half \in Nat /\ 2 * half <= n /\ n <= 2 * half + 1 /\ needed = half + 1 /\ n \in Nat /\ k \in Nat
  OBVIOUS
<1>2. w \in Nat /\ l \in Nat /\ (w >= needed => ~(l >= needed))
  <2>1. o.win < needed /\ o.lose < needed
    BY <1>1
  <2> QED
    BY <1>1, <2>1
<1>3. /\ w >= needed => g.result = "win"
      /\ w < needed /\ l >= needed => g.result = "lose"
      /\ w < needed /\ l < needed /\ k >= n => g.result = IF w > l THEN "win" ELSE IF l > w THEN "lose" ELSE "draw"
      /\ w < needed /\ l < needed /\ ~(k >= n) => g.result = "in_process"
  <2>1. g.result = CASE w >= needed -> "win"
                     [] w < needed /\ l >= needed -> "lose"
                     [] w < needed /\ l < needed /\ k >= n -> IF w > l THEN "win" ELSE IF l > w THEN "lose" ELSE "draw"
                     [] OTHER -> "in_process"
    BY DEF BestOf
  <2> HIDE DEF needed, w, l, n, k, half
  <2> QED
    BY <1>1, <1>2, <2>1
<1> HIDE DEF w, l, n, k, half, needed
<1>4. /\ g.result = "in_process" => 2 * w <= n /\ 2 * l <= n
      /\ g.result = "win" => w > l
      /\ g.result = "lose" => l > w
      /\ g.result = "draw" => w = l
  BY <1>1, <1>2, <1>3
<1> QED
  BY <1>2, <1>4 DEF Majority, w, l, n

\* The two of a corridor and how much of the source has been drawn.
Lane(s) == {"player", "opponent", "drawn"} \subseteq DOMAIN s /\ s.player \in Int /\ s.opponent \in Int /\ s.drawn \in Nat

\* A turn moves one of the two, and decides when he is bust or behind.
LEMMA TurnMoves ==
  ASSUME NEW g, CorridorGiven(g.c), NEW s, Lane(s), NEW actor \in {"player", "opponent"}, NEW move,
         NEW t, t = Turn(g, s, actor, move)
  PROVE  /\ Lane(t.s)
         /\ actor = "player" => /\ t.s.opponent = s.opponent
                                /\ t.result = "win" => t.s.player < t.s.opponent
                                /\ t.result = "lose" => t.s.player >= g.c.target
                                /\ t.result = "continue" => t.s.player < g.c.target
         /\ actor = "opponent" => /\ t.s.player = s.player
                                  /\ t.result = "lose" => t.s.opponent < t.s.player
                                  /\ t.result = "win" => t.s.opponent >= g.c.target
                                  /\ t.result = "continue" => t.s.opponent < g.c.target
         /\ t.result \in {"win", "lose", "continue"}
<1> DEFINE other == IF actor = "player" THEN "opponent" ELSE "player"
           won == IF actor = "player" THEN "win" ELSE "lose"
           lost == IF actor = "player" THEN "lose" ELSE "win"
           drawing == move = "advance" /\ Coming(g, s) # {}
           moved == IF drawing
                    THEN [s EXCEPT ![actor] = @ + g.c.source[s.drawn + 1], !.drawn = @ + 1] ELSE s
<1>1. Lane(moved) /\ moved[other] = s[other]
  <2>1. CASE drawing
    <3>1. g.c.source[s.drawn + 1] \in Int
      <4>1. s.drawn \in Nat /\ s.drawn < Len(g.c.source) /\ g.c.source \in Seq(Int)
        BY <2>1 DEF Coming, Lane, CorridorGiven
      <4> QED
        BY <4>1
    <3>2. moved = [s EXCEPT ![actor] = @ + g.c.source[s.drawn + 1], !.drawn = @ + 1]
      BY <2>1
    <3> DEFINE v == g.c.source[s.drawn + 1]
               a == s[actor] + v
               d == s.drawn + 1
    <3>3. moved = [s EXCEPT ![actor] = a, !.drawn = d] /\ a \in Int /\ d \in Nat
      <4>1. s[actor] \in Int /\ s.drawn \in Nat
        BY DEF Lane
      <4>2. [s EXCEPT ![actor] = a].drawn = s.drawn
        BY DEF Lane
      <4>3. [s EXCEPT ![actor] = @ + v] = [s EXCEPT ![actor] = a]
        OBVIOUS
      <4>4. moved = [[s EXCEPT ![actor] = a] EXCEPT !.drawn = [s EXCEPT ![actor] = a].drawn + 1]
        BY <3>2, <4>3
      <4>5. a \in Int /\ d \in Nat
        BY <3>1, <4>1
      <4> QED
        BY <4>2, <4>4, <4>5
    <3> HIDE DEF moved, v, a, d
    <3>4. /\ DOMAIN moved = DOMAIN s /\ moved["drawn"] = d
          /\ actor = "player" => moved["player"] = a /\ moved["opponent"] = s["opponent"]
          /\ actor = "opponent" => moved["opponent"] = a /\ moved["player"] = s["player"]
      BY <3>3 DEF Lane
    <3> QED
      BY <3>3, <3>4 DEF Lane
  <2>2. CASE ~drawing
    BY <2>2
  <2> QED
    BY <2>1, <2>2
<1>2. t = [s |-> moved,
           result |-> CASE moved[actor] >= g.c.target -> lost
                        [] moved[actor] < moved[other] /\ moved[other] < g.c.target -> won
                        [] OTHER -> "continue"]
  BY DEF Turn
<1> HIDE DEF moved
<1>3. /\ t.s = moved
      /\ \/ t.result = lost /\ moved[actor] >= g.c.target
         \/ t.result = won /\ moved[actor] < moved[other]
         \/ t.result = "continue" /\ ~(moved[actor] >= g.c.target)
  BY <1>2
<1>4. moved[actor] \in Int /\ moved[other] \in Int /\ g.c.target \in Int
  BY <1>1 DEF Lane, CorridorGiven
<1>5. CASE actor = "player"
  BY <1>1, <1>3, <1>4, <1>5
<1>6. CASE actor = "opponent"
  BY <1>1, <1>3, <1>4, <1>6
<1> QED
  BY <1>5, <1>6

\* A corridor is decided by who is bust or trapped, and else goes on.
LEMMA CorridorDecides ==
  ASSUME NEW g, CorridorGiven(g.c), Lane(g.s), g.score = [player |-> 0, opponent |-> 0],
         NEW m, NEW o, NEW out, out = CorridorRound(g, m, o),
         NEW e, e.c = g.c, e.s = out.s, e.score = out.score,
         e.result = IF e.score.player > 0 THEN "win" ELSE IF e.score.opponent > 0 THEN "lose" ELSE "in_process"
  PROVE  /\ Trapped(e)
         /\ e.result = "in_process" => Lane(e.s) /\ e.score = [player |-> 0, opponent |-> 0]
<1> DEFINE reply == IF o = NoMove THEN CorridorPolicy(g) ELSE o
           one == IF g.s.initiative THEN Turn(g, g.s, "player", m) ELSE Turn(g, g.s, "opponent", reply)
           two == IF one.result # "continue" THEN one
                  ELSE IF g.s.initiative THEN Turn(g, one.s, "opponent", reply) ELSE Turn(g, one.s, "player", m)
           Result(t) == /\ Lane(t.s) /\ t.result \in {"win", "lose", "continue"}
                        /\ t.result = "win" => t.s.opponent >= g.c.target \/ t.s.player < t.s.opponent
                        /\ t.result = "lose" => t.s.player >= g.c.target \/ t.s.opponent < t.s.player
<1>1. /\ Result(one)
      /\ one.result = "continue" => IF g.s.initiative THEN one.s.player < g.c.target ELSE one.s.opponent < g.c.target
  <2>1. CASE g.s.initiative
    <3>1. one = Turn(g, g.s, "player", m)
      BY <2>1
    <3> HIDE DEF one
    <3> QED
      BY <2>1, <3>1, TurnMoves
  <2>2. CASE ~g.s.initiative
    <3>1. one = Turn(g, g.s, "opponent", reply)
      BY <2>2
    <3> HIDE DEF one, reply
    <3> QED
      BY <2>2, <3>1, TurnMoves
  <2> QED
    BY <2>1, <2>2
<1>2. /\ Result(two)
      /\ two.result = "continue" => two.s.player < g.c.target /\ two.s.opponent < g.c.target
  <2>1. CASE one.result # "continue"
    <3>1. two = one
      BY <2>1
    <3> HIDE DEF one, two
    <3> QED
      BY <1>1, <2>1, <3>1
  <2>2. CASE one.result = "continue" /\ g.s.initiative
    <3>1. two = Turn(g, one.s, "opponent", reply)
      BY <2>2
    <3> HIDE DEF one, two, reply
    <3> QED
      BY <1>1, <2>2, <3>1, TurnMoves
  <2>3. CASE one.result = "continue" /\ ~g.s.initiative
    <3>1. two = Turn(g, one.s, "player", m)
      BY <2>3
    <3> HIDE DEF one, two, reply
    <3> QED
      BY <1>1, <2>3, <3>1, TurnMoves
  <2> QED
    BY <2>1, <2>2, <2>3
<1>3. \/ two.result = "win" /\ out = Outcome(g, two.s, 1, 0, "win")
      \/ two.result = "lose" /\ out = Outcome(g, two.s, 0, 1, "lose")
      \/ two.result = "continue" /\ out = Outcome(g, [two.s EXCEPT !.initiative = ~@], 0, 0, "continue")
  <2>1. out = CASE two.result = "win" -> Outcome(g, two.s, 1, 0, "win")
                [] two.result = "lose" -> Outcome(g, two.s, 0, 1, "lose")
                [] OTHER -> Outcome(g, [two.s EXCEPT !.initiative = ~@], 0, 0, "continue")
    BY DEF CorridorRound
  <2> HIDE DEF two, one
  <2> QED
    BY <1>2, <2>1
<1> HIDE DEF one, two, reply
<1>4. \A s, x, y, result : /\ Outcome(g, s, x, y, result).s = s
                           /\ Outcome(g, s, x, y, result).score
                                = [player |-> g.score.player + x, opponent |-> g.score.opponent + y]
  BY DEF Outcome
<1>5. CASE two.result = "win" /\ out = Outcome(g, two.s, 1, 0, "win")
  <2>1. e.score = [player |-> g.score.player + 1, opponent |-> g.score.opponent + 0] /\ e.s = two.s
    BY <1>4, <1>5
  <2>2. g.score.player = 0 /\ g.score.opponent = 0
    OBVIOUS
  <2>3. e.score.player = 1 /\ e.result = "win"
    BY <2>1, <2>2
  <2> QED
    BY <1>2, <1>5, <2>1, <2>3 DEF Trapped
<1>6. CASE two.result = "lose" /\ out = Outcome(g, two.s, 0, 1, "lose")
  <2>1. e.score = [player |-> g.score.player + 0, opponent |-> g.score.opponent + 1] /\ e.s = two.s
    BY <1>4, <1>6
  <2>2. g.score.player = 0 /\ g.score.opponent = 0
    OBVIOUS
  <2>3. e.score.player = 0 /\ e.score.opponent = 1 /\ e.result = "lose"
    BY <2>1, <2>2
  <2> QED
    BY <1>2, <1>6, <2>1, <2>3 DEF Trapped
<1>7. CASE two.result = "continue" /\ out = Outcome(g, [two.s EXCEPT !.initiative = ~@], 0, 0, "continue")
  <2>0. g.score.player = 0 /\ g.score.opponent = 0
    OBVIOUS
  <2>1. e.score = [player |-> 0, opponent |-> 0] /\ e.s = [two.s EXCEPT !.initiative = ~@]
    BY <1>4, <1>7, <2>0
  <2>2. Lane(e.s) /\ e.s.player = two.s.player /\ e.s.opponent = two.s.opponent
    BY <1>2, <2>1 DEF Lane
  <2>3. e.score.player = 0 /\ e.score.opponent = 0 /\ e.result = "in_process"
    BY <2>1
  <2> QED
    BY <1>2, <1>7, <2>1, <2>2, <2>3 DEF Trapped
<1> QED
  BY <1>3, <1>5, <1>6, <1>7
-------------------------------------------------------------------------------
(* The total of a hand is its best.                                             *)
CardValue(card) == IF card[1] < 10 THEN card[1] ELSE 10
HardTotal(hand) == SumFunction([card \in hand |-> CardValue(card)])

\* Counting an ace as eleven while that helps gives the best total there is.
LEMMA AcesHelp ==
  ASSUME NEW hand, IsFiniteSet(hand), \A card \in hand : card[1] \in Nat
  PROVE  HandTotal(hand) = BestTotal(hand) /\ HandTotal(hand) \in Int /\ (HardTotal(hand) <= 21 => HandTotal(hand) <= 21)
<1> DEFINE hard == HardTotal(hand)
           aces == Cardinality({card \in hand : card[1] = 1})
           F(f) == f = [n \in 0..aces |-> IF n = 0 THEN hard
                                          ELSE LET total == f[n - 1] IN IF total <= 11 THEN total + 10 ELSE total]
           a == CHOOSE f : F(f)
           h == [k \in 1..aces |-> [t \in Int |-> IF t <= 11 THEN t + 10 ELSE t]]
           values == {hard + 10 * k : k \in 0..aces}
           total == a[aces]
<1>1. aces \in Nat
  <2>1. {card \in hand : card[1] = 1} \subseteq hand
    OBVIOUS
  <2> QED
    BY <2>1, FS_Subset, FS_CardinalityType
<1>2. hard \in Nat
  <2> DEFINE f == [card \in hand |-> CardValue(card)]
  <2>1. f \in [hand -> Nat]
    BY DEF CardValue
  <2> HIDE DEF f
  <2>2. SumFunction(f) \in Nat
    BY <2>1, SumNat
  <2> QED
    BY <2>2 DEF HardTotal, f
<1>3. HandTotal(hand) = total
  BY DEF HandTotal, HardTotal, CardValue
<1>4. BestTotal(hand) = IF \E v \in values : v <= 21 THEN Max({v \in values : v <= 21}) ELSE hard
  <2>1. [card \in hand |-> Min({card[1], 10})] = [card \in hand |-> CardValue(card)]
    <3> SUFFICES ASSUME NEW card \in hand PROVE Min({card[1], 10}) = CardValue(card)
      OBVIOUS
    <3> DEFINE r == card[1]
    <3>1. r \in Nat /\ CardValue(card) = IF r < 10 THEN r ELSE 10
      BY DEF CardValue
    <3> HIDE DEF r
    <3>2. Min({r, 10}) = IF r < 10 THEN r ELSE 10
      BY <3>1 DEF Min
    <3> QED
      BY <3>1, <3>2 DEF r
  <2> QED
    BY <2>1 DEF BestTotal, HardTotal
<1> HIDE DEF hard, aces, h, a
<1>5. PICK f \in [0..aces -> Int] : f[0] = hard /\ \A k \in 1..aces : f[k] = h[k][f[k - 1]]
  <2>1. h \in [1..aces -> [Int -> Int]]
    BY DEF h
  <2>2. hard \in Int
    BY <1>2
  <2>3. \E f \in [0..aces -> Int] : Recurs(f, aces, hard, h)
    BY <1>1, <2>1, <2>2, Recursion, Zenon
  <2> QED
    BY <2>3 DEF Recurs
<1>6. F(f)
  <2>1. ASSUME NEW k \in 1..aces PROVE f[k] = IF f[k - 1] <= 11 THEN f[k - 1] + 10 ELSE f[k - 1]
    <3>1. f[k - 1] \in Int
      BY <1>1, <1>5
    <3> QED
      BY <1>5, <3>1 DEF h
  <2> QED
    BY <1>1, <1>5, <2>1
<1>7. F(a)
  <2> HIDE DEF F
  <2> QED
    BY <1>6 DEF a
<1>8. /\ a[0] = hard
      /\ \A n \in 1..aces : a[n] = IF a[n - 1] <= 11 THEN a[n - 1] + 10 ELSE a[n - 1]
  BY <1>1, <1>7
<1> DEFINE I(n) == \E j \in 0..n : /\ a[n] = hard + 10 * j
                                   /\ hard <= 21 => a[n] <= 21
                                   /\ hard > 21 => j = 0
                                   /\ j = n \/ a[n] > 11
<1>9. \A n \in 0..aces : I(n)
  <2> DEFINE T == {n \in 0..aces : I(n)}
  <2>1. 0 \in T
    <3>1. a[0] = hard + 10 * 0 /\ 0 \in 0..0 /\ (hard <= 21 => a[0] <= 21)
      BY <1>2, <1>8
    <3> QED
      BY <1>1, <1>2, <3>1
  <2>2. ASSUME NEW n \in 1..aces, n - 1 \in T PROVE n \in T
    <3>1. PICK j \in 0..(n - 1) : /\ a[n - 1] = hard + 10 * j
                                  /\ hard <= 21 => a[n - 1] <= 21
                                  /\ hard > 21 => j = 0
                                  /\ j = n - 1 \/ a[n - 1] > 11
      <4>1. I(n - 1)
        BY <2>2
      <4> QED
        BY ONLY <4>1 DEF I
    <3>2. CASE a[n - 1] <= 11
      <4>1. j + 1 \in 0..n /\ a[n] = hard + 10 * (j + 1) /\ a[n] <= 21 /\ hard <= 21 /\ j + 1 = n
        BY <1>1, <1>2, <1>8, <3>1, <3>2
      <4> HIDE DEF hard, a
      <4>2. I(n)
        BY <1>2, <4>1
      <4> QED
        BY <4>2
    <3>3. CASE ~(a[n - 1] <= 11)
      <4>1. j \in 0..n /\ a[n] = hard + 10 * j /\ a[n] > 11 /\ (hard <= 21 => a[n] <= 21)
        BY <1>1, <1>2, <1>8, <3>1, <3>3
      <4>2. I(n)
        BY <3>1, <4>1
      <4> QED
        BY <4>2
    <3> QED
      BY <3>2, <3>3
  <2> HIDE DEF T
  <2>3. \A n \in 0..aces : n \in T
    BY <1>1, <2>1, <2>2, UpToAll
  <2> QED
    BY <2>3 DEF T
<1>10. PICK j \in 0..aces : /\ total = hard + 10 * j
                            /\ hard <= 21 => total <= 21
                            /\ hard > 21 => j = 0
                            /\ j = aces \/ total > 11
  <2>1. I(aces)
    <3> HIDE DEF I
    <3> QED
      BY <1>1, <1>9
  <2> QED
    BY ONLY <2>1 DEF I
<1>11. total \in values /\ total \in Int
  BY <1>1, <1>2, <1>10
<1>12. CASE hard <= 21
  <2> DEFINE low == {v \in values : v <= 21}
  <2>1. total \in low
    BY <1>10, <1>11, <1>12
  <2>2. ASSUME NEW v \in low PROVE v <= total /\ v \in Int
    <3>1. PICK k \in 0..aces : v = hard + 10 * k
      OBVIOUS
    <3>2. v <= 21
      OBVIOUS
    <3> HIDE DEF total
    <3>3. k > j => FALSE
      BY <1>1, <1>2, <1>10, <3>1, <3>2
    <3> QED
      BY <1>1, <1>2, <1>10, <3>1, <3>3
  <2> HIDE DEF low, values, total
  <2>3. Max(low) = total
    <3> DEFINE m == CHOOSE x \in low : \A y \in low : x >= y
    <3>1. total \in low /\ \A y \in low : total >= y
      BY <1>11, <2>1, <2>2
    <3>2. m \in low /\ \A y \in low : m >= y
      BY <3>1
    <3>3. Max(low) = m
      BY DEF Max
    <3> HIDE DEF m
    <3> QED
      BY <1>11, <2>1, <2>2, <3>1, <3>2, <3>3
  <2> QED
    BY <1>3, <1>4, <1>10, <1>11, <1>12, <2>1, <2>3 DEF low, hard
<1>13. CASE hard > 21
  <2>1. ASSUME NEW v \in values PROVE ~(v <= 21)
    BY <1>1, <1>2, <1>13
  <2>2. total = hard
    BY <1>2, <1>10, <1>13
  <2> HIDE DEF values, total
  <2> QED
    BY <1>2, <1>3, <1>4, <1>11, <1>13, <2>1, <2>2 DEF hard
<1> QED
  BY <1>2, <1>12, <1>13

\* Two cards are not too many.
LEMMA TwoCards ==
  ASSUME NEW hand, IsFiniteSet(hand), \A card \in hand : card[1] \in Nat, Cardinality(hand) = 2
  PROVE  HardTotal(hand) <= 20
<1> DEFINE f == [card \in hand |-> CardValue(card)]
<1>1. f \in [hand -> Int] /\ \A card \in hand : f[card] \in Nat /\ f[card] <= 10
  BY DEF CardValue
<1>2. PICK x \in hand : TRUE
  BY FS_EmptySet
<1>3. IsFiniteSet(hand \ {x}) /\ Cardinality(hand \ {x}) = 2 - 1
  BY ONLY <1>2, FS_RemoveElement, IsFiniteSet(hand), Cardinality(hand) = 2
<1>4. PICK y : hand \ {x} = {y}
  <2> DEFINE rest == hand \ {x}
  <2>1. IsFiniteSet(rest) /\ Cardinality(rest) = 1
    BY <1>3
  <2> HIDE DEF rest
  <2>2. \E y : rest = {y}
    BY <2>1, FS_Singleton
  <2> QED
    BY <2>2 DEF rest
<1> DEFINE one == [card \in hand |-> IF card = x THEN f[x] ELSE 0]
           two == [card \in hand |-> IF card = x THEN 0 ELSE f[card]]
<1>5. /\ one \in [hand -> Int] /\ two \in [hand -> Int] /\ y \in hand
      /\ \A card \in hand : f[card] = one[card] + two[card]
      /\ \A card \in hand \ {x} : one[card] = 0
      /\ \A card \in hand \ {y} : two[card] = 0
      /\ one[x] <= 10 /\ two[y] <= 10 /\ one[x] \in Int /\ two[y] \in Int
  BY <1>1, <1>4
<1> HIDE DEF f, one, two
<1>6. SumFunction(one) = one[x] /\ SumFunction(two) = two[y]
  BY <1>5, SumOne
<1>9. f \in [hand -> Int] /\ \A card \in hand : f[card] = one[card] + two[card]
  BY <1>1, <1>5
<1>7. SumFunction(f) = SumFunction(one) + SumFunction(two)
  BY ONLY <1>5, <1>9, SumPlus, IsFiniteSet(hand)
<1>8. SumFunction(f) <= 20
  BY <1>5, <1>6, <1>7
<1> QED
  BY <1>8 DEF HardTotal, f

\* So with the hands of any deal.
LEMMA HandsTotal ==
  ASSUME NEW c, DeckGiven(c), NEW s \in Hands(c)
  PROVE  /\ HandTotal(s.player) = BestTotal(s.player) /\ BestTotal(s.player) \in Int
         /\ HandTotal(s.dealer) = BestTotal(s.dealer) /\ BestTotal(s.dealer) \in Int
<1>1. IsFiniteSet(c.cards) /\ s.player \subseteq c.cards /\ s.dealer \subseteq c.cards
      /\ \A card \in c.cards : card[1] \in Nat
  BY DEF DeckGiven, Hands
<1>2. IsFiniteSet(s.player) /\ IsFiniteSet(s.dealer)
  BY <1>1, FS_Subset
<1> QED
  BY <1>1, <1>2, AcesHelp

\* Nobody is bust by the deal.
LEMMA DealtWithin ==
  ASSUME NEW c, DeckGiven(c), NEW s \in BlackjackOpenings(c)
  PROVE  BestTotal(s.player) <= 21
<1>1. PICK deal \in Deals(c) : s.player = deal[1]
  BY DEF BlackjackOpenings
<1> DEFINE hand == s.player
<1>2. IsFiniteSet(hand) /\ Cardinality(hand) = 2 /\ \A card \in hand : card[1] \in Nat
  <2>1. IsFiniteSet(c.cards) /\ deal[1] \subseteq c.cards /\ Cardinality(deal[1]) = 2
        /\ \A card \in c.cards : card[1] \in Nat
    BY DEF DeckGiven
  <2>2. IsFiniteSet(deal[1])
    BY <2>1, FS_Subset
  <2> QED
    BY <1>1, <2>1, <2>2
<1>3. HardTotal(hand) <= 20 /\ HardTotal(hand) \in Int
  <2> DEFINE f == [card \in hand |-> CardValue(card)]
  <2>1. f \in [hand -> Int]
    BY <1>2 DEF CardValue
  <2> HIDE DEF f
  <2>2. SumFunction(f) \in Int
    BY <1>2, <2>1, SumTypes
  <2>3. HardTotal(hand) \in Int
    BY <2>2 DEF HardTotal, f
  <2> HIDE DEF hand
  <2> QED
    BY <1>2, <2>3, TwoCards
<1> HIDE DEF hand
<1>4. HandTotal(hand) = BestTotal(hand) /\ HandTotal(hand) <= 21
  BY <1>2, <1>3, AcesHelp
<1> QED
  BY <1>4 DEF hand

\* A round of blackjack is decided by the better hand, and goes on with one that
\* is not bust.
LEMMA BlackjackDecides ==
  ASSUME NEW g, DeckGiven(g.c), g.s \in Hands(g.c), g.s.stood = FALSE, BestTotal(g.s.player) <= 21,
         NEW m, NEW out \in BlackjackRounds(g, m),
         NEW e, e.c = g.c, e.s = out.s, e.result = IF out.result = "continue" THEN "in_process" ELSE out.result
  PROVE  BetterHand(e) /\ (e.result = "in_process" => BestTotal(e.s.player) <= 21)
<1> DEFINE played == IF m = "hit" THEN {ToPlayer(g.s, card) : card \in g.s.deck} ELSE {g.s}
<1>1. \A s \in played : s \in Hands(g.c) /\ s.stood = FALSE /\ (m # "hit" => s = g.s)
  <2>1. \A s \in played : s = g.s \/ (m = "hit" /\ \E card \in g.s.deck : s = ToPlayer(g.s, card))
    OBVIOUS
  <2> QED
    BY <2>1, DrawKeeps
<1>2. PICK s \in played :
        \/ m = "hit" /\ HandTotal(s.player) > 21 /\ out = Outcome(g, s, 0, 1, "lose")
        \/ m = "hit" /\ HandTotal(s.player) < 21 /\ out = Outcome(g, s, 0, 0, "continue")
        \/ /\ m = "hit" => ~(HandTotal(s.player) > 21) /\ ~(HandTotal(s.player) < 21)
           /\ \E end \in DealerStands(g.c, [s EXCEPT !.stood = TRUE]) : out = Showdown(g, end)
  BY DEF BlackjackRounds, ToPlayer
<1> HIDE DEF played
<1>3. /\ s \in Hands(g.c) /\ s.stood = FALSE
      /\ HandTotal(s.player) = BestTotal(s.player) /\ BestTotal(s.player) \in Int
  BY <1>1, HandsTotal
<1>4. CASE m = "hit" /\ HandTotal(s.player) > 21 /\ out = Outcome(g, s, 0, 1, "lose")
  <2>1. e.s = s /\ e.result = "lose"
    BY <1>4 DEF Outcome
  <2> QED
    BY <1>3, <1>4, <2>1 DEF BetterHand
<1>5. CASE m = "hit" /\ HandTotal(s.player) < 21 /\ out = Outcome(g, s, 0, 0, "continue")
  <2>1. e.s = s /\ e.result = "in_process"
    BY <1>5 DEF Outcome
  <2> QED
    BY <1>3, <1>5, <2>1 DEF BetterHand
<1>6. ASSUME m = "hit" => ~(HandTotal(s.player) > 21) /\ ~(HandTotal(s.player) < 21),
             \E end \in DealerStands(g.c, [s EXCEPT !.stood = TRUE]) : out = Showdown(g, end)
      PROVE  BetterHand(e) /\ e.result # "in_process"
  <2> DEFINE t == [s EXCEPT !.stood = TRUE]
  <2>1. t \in Hands(g.c) /\ t.player = s.player /\ t.stood = TRUE
    <3>1. s \in [deck: SUBSET g.c.cards, player: SUBSET g.c.cards, dealer: SUBSET g.c.cards, stood: BOOLEAN]
      BY <1>3 DEF Hands
    <3>2. /\ t \in [deck: SUBSET g.c.cards, player: SUBSET g.c.cards, dealer: SUBSET g.c.cards, stood: BOOLEAN]
          /\ t.deck = s.deck /\ t.player = s.player /\ t.dealer = s.dealer /\ t.stood = TRUE
      BY <3>1
    <3> HIDE DEF t
    <3> QED
      BY <1>3, <3>2 DEF Hands
  <2>2. PICK end \in DealerStands(g.c, t) : out = Showdown(g, end)
    BY <1>6
  <2> HIDE DEF t
  <2>3. end \in Hands(g.c) /\ end.player = s.player /\ end.stood = TRUE
    BY <2>1, <2>2, DealerKeeps
  <2>4. HandTotal(end.dealer) >= g.c.standAt
    BY DEF DealerStands
  <2> DEFINE mine == BestTotal(end.player)
             theirs == BestTotal(end.dealer)
  <2>5. /\ HandTotal(end.player) = mine /\ HandTotal(end.dealer) = theirs /\ mine \in Int /\ theirs \in Int
    BY <2>3, HandsTotal
  <2>6. mine <= 21
    BY <1>1, <1>3, <1>6, <2>3, <2>5
  <2> HIDE DEF mine, theirs
  <2>7. \/ (theirs > 21 \/ mine > theirs) /\ out = Outcome(g, end, 1, 0, "win")
        \/ ~(theirs > 21 \/ mine > theirs) /\ theirs <= 21 /\ theirs > mine /\ out = Outcome(g, end, 0, 1, "lose")
        \/ ~(theirs > 21 \/ mine > theirs) /\ ~(theirs > mine) /\ out = Outcome(g, end, 1, 1, "draw")
    <3>1. out = CASE theirs > 21 \/ mine > theirs -> Outcome(g, end, 1, 0, "win")
                  [] theirs <= 21 /\ theirs > mine -> Outcome(g, end, 0, 1, "lose")
                  [] OTHER -> Outcome(g, end, 1, 1, "draw")
      BY <2>2, <2>5 DEF Showdown
    <3> QED
      BY <2>5, <3>1
  <2>8. \A x, y, result : Outcome(g, end, x, y, result).s = end /\ Outcome(g, end, x, y, result).result = result
    BY DEF Outcome
  <2>9. /\ e.s = end
        /\ \/ (theirs > 21 \/ mine > theirs) /\ e.result = "win"
           \/ ~(theirs > 21 \/ mine > theirs) /\ theirs > mine /\ e.result = "lose"
           \/ ~(theirs > 21 \/ mine > theirs) /\ mine = theirs /\ e.result = "draw"
    BY <2>5, <2>7, <2>8
  <2> QED
    BY <2>3, <2>4, <2>5, <2>6, <2>9 DEF BetterHand, mine, theirs
<1> QED
  BY <1>2, <1>4, <1>5, <1>6

-------------------------------------------------------------------------------
(* What keeps the reason to come: nobody is bust yet, nobody has a majority.    *)
Poised(c, s, score, history) ==
  /\ c.kind = "corridor" => Lane(s) /\ score = [player |-> 0, opponent |-> 0]
  /\ c.kind = "blackjack" => BestTotal(s.player) <= 21
  /\ c.kind \in Contested /\ c.scoring = "best_of_n" =>
       /\ history.win \in Nat /\ 2 * history.win <= c.n
       /\ history.lose \in Nat /\ 2 * history.lose <= c.n

\* What the reasons need of a configuration.
LEMMA ReasonsGiven ==
  ASSUME ConfigsAssumption, NEW c \in Configs
  PROVE  /\ c.kind = "corridor" => CorridorGiven(c)
         /\ c.kind \in Contested /\ c.scoring = "best_of_n" => c.n \in Nat
  BY DEF ConfigsAssumption, Contested

\* A game that has just been set up is open, and nothing is decided.
LEMMA SetupDecides ==
  ASSUME ConfigsAssumption, NEW g, g.c \in Configs, NEW end \in Setup(g), ~end.raised
  PROVE  ForReason(end.g) /\ Poised(end.g.c, end.g.s, end.g.score, end.g.history)
<1> DEFINE e == end.g
           c == g.c
<1>1. SetUp(g, end)
  BY SetupGives
<1>2. /\ e.c = c /\ e.result = "in_process" /\ e.history = Fresh(c).history
      /\ e.score = [player |-> 0, opponent |-> 0] /\ e.s \in Openings(c)
  BY <1>1 DEF SetUp
<1>3. e.history.count = 0 /\ e.history.win = 0 /\ e.history.lose = 0
  BY <1>2 DEF Fresh
<1>0. c.kind \in GameKinds /\ c \in Configs
  BY ConfigGives
<1> HIDE DEF e, c
<1>4. CASE c.kind = "nim"
  <2>1. e.s = [heap |-> c.heap] /\ c.heap \in Nat \ {0}
    BY <1>0, <1>2, <1>4, ConfigGives DEF Openings, HeapGiven
  <2>2. e.s.heap > 0
    BY <2>1
  <2> QED
    BY <1>2, <1>4, <2>2 DEF ForReason, Poised, Contested, e
<1>5. CASE c.kind = "corridor"
  <2>1. e.s = [player |-> c.start, opponent |-> c.start, drawn |-> 0, initiative |-> c.initiative] /\ c.start \in Int
    BY <1>0, <1>2, <1>5, ReasonsGiven DEF Openings, CorridorGiven
  <2>2. Lane(e.s)
    BY <2>1 DEF Lane
  <2> QED
    BY <1>2, <1>3, <1>5, <2>2 DEF ForReason, Poised, Contested, e
<1>6. CASE c.kind = "blackjack"
  <2>1. DeckGiven(c) /\ e.s \in BlackjackOpenings(c)
    BY <1>0, <1>2, <1>6, ConfigGives DEF Openings
  <2>2. e.s \in Hands(c) /\ e.s.stood = FALSE /\ BestTotal(e.s.player) <= 21 /\ BestTotal(e.s.player) \in Int
    BY <2>1, BlackjackOpens, DealtWithin, HandsTotal
  <2>3. BetterHand(e)
    BY <1>2, <2>2 DEF BetterHand
  <2> QED
    BY <1>2, <1>6, <2>2, <2>3 DEF ForReason, Poised, Contested, e
<1>7. CASE c.kind \in Contested
  <2>1. ASSUME c.scoring = "best_of_n"
        PROVE  Majority(e) /\ 2 * e.history.win <= c.n /\ 2 * e.history.lose <= c.n
    <3>1. c.n \in Nat
      BY <1>0, <1>7, <2>1, ReasonsGiven
    <3>2. 2 * e.history.win = 0 /\ 2 * e.history.lose = 0
      BY <1>3
    <3> QED
      BY <1>2, <3>1, <3>2 DEF Majority
  <2> QED
    BY <1>2, <1>3, <1>7, <2>1 DEF ForReason, Poised, Contested, e
<1>8. CASE c.kind \in {"bag", "siege", "kim", "incremental", "queue", "credentials"}
  BY <1>2, <1>3, <1>8 DEF ForReason, Poised, Contested, e
<1> QED
  BY <1>0, <1>4, <1>5, <1>6, <1>7, <1>8 DEF GameKinds, Contested

\* A round that is played decides for a reason, or leaves the game open.
LEMMA RoundDecides ==
  ASSUME ConfigsAssumption, NEW g, g.c \in Configs, Fits(g.c, g.s, g.score), GoesOn(g.c, g.s), MayTell(g.c, g.s, g.tell),
         Poised(g.c, g.s, g.score, g.history), g.history.count \in Nat,
         NEW m \in Moves(g), NEW o \in Replies(g, m), NEW out \in Rounds(g, m, o),
         NEW h, h.c = g.c, h.s = out.s, h.score = out.score, h.history = Recorded(g.history, m, o, out.result),
         NEW e, e.c = g.c, e.s = out.s, e.score = out.score, e.history = h.history, e.result = Evaluate(h)
  PROVE  ForReason(e) /\ (e.result = "in_process" => Poised(e.c, e.s, e.score, e.history))
<1>0. g.c.kind \in GameKinds
  BY ConfigGives
<1>1. /\ e.history.count = g.history.count + 1 /\ e.history.count # 0 /\ e.history.result = out.result
      /\ e.history.win = g.history.win + (IF out.result = "win" THEN 1 ELSE 0)
      /\ e.history.lose = g.history.lose + (IF out.result = "lose" THEN 1 ELSE 0)
  BY DEF Recorded
<1>2. Fits(g.c, out.s, out.score) /\ Tallied(g.c, out.s, out.result)
  BY RoundFits
<1>3. ASSUME g.c.kind \in {"nim", "blackjack"}
      PROVE  e.result = IF out.result = "continue" THEN "in_process" ELSE out.result
  <2>1. Evaluate(h) = SingleRound(h)
    BY <1>3 DEF Evaluate
  <2> QED
    BY <1>1, <2>1 DEF SingleRound
<1>4. CASE g.c.kind = "nim"
  <2>1. HeapGiven(g.c) /\ g.s \in Heaps /\ m \in Takes(g) /\ o \in Nat /\ out = NimRound(g, m, o)
    BY <1>4, ConfigGives DEF Fits, MayTell, Moves, Replies, Rounds
  <2>2. out.result \in {"win", "lose", "continue"} /\ (out.result = "continue" <=> out.s.heap > 0)
    BY <2>1, NimRoundKeeps, NimDecides
  <2> QED
    BY <1>3, <1>4, <2>2 DEF ForReason, Poised, Contested
<1>5. CASE g.c.kind = "blackjack"
  <2>1. /\ DeckGiven(g.c) /\ g.s \in Hands(g.c) /\ g.s.stood = FALSE /\ out \in BlackjackRounds(g, m)
        /\ BestTotal(g.s.player) <= 21
    BY <1>5, ConfigGives DEF Fits, GoesOn, Rounds, Poised
  <2>2. BetterHand(e) /\ (e.result = "in_process" => BestTotal(e.s.player) <= 21)
    BY <1>3, <1>5, <2>1, BlackjackDecides
  <2> QED
    BY <1>5, <2>2 DEF ForReason, Poised, Contested
<1>6. CASE g.c.kind \in {"bag", "siege"}
  <2>1. ForcesGiven(g.c) /\ Sides(g.c, e.s) /\ Scored(g.c, e.s, e.score)
    BY <1>2, <1>6, ConfigGives DEF Fits
  <2>2. e.score.player \in Int /\ e.score.opponent \in Int
    BY <2>1, ScoreInt
  <2>3. e.result = ForceLeft(e)
    <3>1. e.result = ForceLeft(h)
      BY <1>6 DEF Evaluate
    <3> QED
      BY <3>1 DEF ForceLeft
  <2>4. OutOfForce(e)
    BY <2>1, <2>2, <2>3, ForceDecides
  <2> QED
    BY <1>6, <2>4 DEF ForReason, Poised, Contested
<1>7. CASE g.c.kind = "corridor"
  <2>1. CorridorGiven(g.c) /\ Lane(g.s) /\ g.score = [player |-> 0, opponent |-> 0] /\ out = CorridorRound(g, m, o)
    BY <1>7, ReasonsGiven DEF Poised, Rounds
  <2>2. e.result = IF e.score.player > 0 THEN "win" ELSE IF e.score.opponent > 0 THEN "lose" ELSE "in_process"
    BY <1>7 DEF Evaluate
  <2>3. Trapped(e) /\ (e.result = "in_process" => Lane(e.s) /\ e.score = [player |-> 0, opponent |-> 0])
    BY <2>1, <2>2, CorridorDecides
  <2> QED
    BY <1>7, <2>3 DEF ForReason, Poised, Contested
<1>8. CASE g.c.kind \in Contested
  <2>1. ASSUME g.c.scoring = "best_of_n"
        PROVE  Majority(e) /\ (e.result = "in_process" => Poised(e.c, e.s, e.score, e.history))
    <3>1. out.result \in {"win", "lose", "draw"}
      BY <1>8, ContestScores
    <3>2. e.result = BestOf(e)
      <4>1. e.result = BestOf(h)
        BY <1>8, <2>1 DEF Evaluate, Contested
      <4> QED
        BY <4>1 DEF BestOf
    <3>3. /\ g.history.win \in Nat /\ 2 * g.history.win <= e.c.n /\ e.c.n \in Nat
          /\ g.history.lose \in Nat /\ 2 * g.history.lose <= e.c.n
      BY <1>8, <2>1, ReasonsGiven DEF Poised
    <3> DEFINE before == g.history
    <3>4. /\ before.win \in Nat /\ 2 * before.win <= e.c.n /\ before.lose \in Nat /\ 2 * before.lose <= e.c.n
          /\ e.history.win = before.win + (IF out.result = "win" THEN 1 ELSE 0)
          /\ e.history.lose = before.lose + (IF out.result = "lose" THEN 1 ELSE 0)
      BY <1>1, <3>3
    <3> HIDE DEF before
    <3>5. Majority(e) /\ e.history.win \in Nat /\ e.history.lose \in Nat
      BY <1>1, <3>1, <3>2, <3>3, <3>4, MajorityDecides
    <3> QED
      BY <1>8, <3>5 DEF Poised, Contested, Majority
  <2> QED
    BY <1>8, <2>1 DEF ForReason, Poised, Contested
<1>9. CASE g.c.kind \in {"kim", "incremental", "queue", "credentials"}
  BY <1>9 DEF ForReason, Poised, Contested
<1> QED
  BY <1>0, <1>4, <1>5, <1>6, <1>7, <1>8, <1>9 DEF GameKinds, Contested

\* So is the play of a move.
LEMMA ReceiveDecides ==
  ASSUME ConfigsAssumption, NEW g, Shaped(g), Held(g), g.phase = "ready", Poised(g.c, g.s, g.score, g.history),
         NEW m \in Moves(g), NEW end \in ReceiveMove(g, m), ~end.raised
  PROVE  /\ ForReason(end.g)
         /\ end.g.phase = "ready" => Poised(end.g.c, end.g.s, end.g.score, end.g.history)
<1> DEFINE b == Begun(g)
           e == end.g
<1>1. IsGame(g) /\ g.c \in Configs /\ Told(g.history) /\ g.round \in Nat
  BY DEF Shaped
<1>2. PICK o \in Replies(b, m) : \E out \in Rounds(b, m, o) : Played(g, m, o, out, end)
  BY <1>1, ReceiveGives
<1>3. PICK out \in Rounds(b, m, o) : Played(g, m, o, out, end)
  BY <1>2
<1>4. /\ b.c = g.c /\ b.s = g.s /\ b.result = g.result /\ b.score = g.score /\ b.tell = g.tell
      /\ b.history = g.history
  BY <1>1, BegunGives
<1> HIDE DEF b
<1>5. m \in Moves(b)
  BY <1>1, <1>4, ConfigGives, BegunMoves
<1>6. /\ e.c = g.c /\ e.s = out.s /\ e.score = out.score /\ out.result # "raise"
      /\ e.history = Recorded(g.history, m, o, out.result)
      /\ e.phase = "ready" => e.result = "in_process"
  BY <1>3 DEF Played
<1>7. PICK h : Judged(g, m, o, out, h) /\ e.result = Evaluate(h)
  BY <1>3, <1>6 DEF Played
<1>8. /\ h.c = b.c /\ h.s = out.s /\ h.score = out.score /\ h.history = Recorded(b.history, m, o, out.result)
      /\ e.c = b.c /\ e.history = h.history
  BY <1>4, <1>6, <1>7 DEF Judged
<1>9. /\ b.c \in Configs /\ Fits(b.c, b.s, b.score) /\ GoesOn(b.c, b.s) /\ MayTell(b.c, b.s, b.tell)
      /\ Poised(b.c, b.s, b.score, b.history) /\ b.history.count \in Nat
  BY <1>1, <1>4 DEF Held, Told
<1> HIDE DEF e
<1>10. ForReason(e) /\ (e.result = "in_process" => Poised(e.c, e.s, e.score, e.history))
  BY <1>3, <1>5, <1>6, <1>7, <1>8, <1>9, RoundDecides
<1> QED
  BY <1>6, <1>10 DEF e

\* The invariant of games that are decided for a reason.
Reasoned(g) ==
  /\ g.phase \in {"ready", "terminal"} => ForReason(g)
  /\ g.phase = "ready" => Poised(g.c, g.s, g.score, g.history)
DecidedInv == PlayInv /\ (Whole => Reasoned(game))

\* Every frame keeps it.
LEMMA DecidedStep ==
  ASSUME ConfigsAssumption, DecidedInv, [Next]_vars
  PROVE  DecidedInv'
<1>1. PlayInv'
  BY PlayStep DEF DecidedInv
<1>2. /\ game'.c = game.c /\ keeps' = keeps
      /\ Whole => game' = game \/ SetsUp \/ Plays
  BY FrameGives DEF DecidedInv
<1>3. Shaped(game) /\ game.c \in Configs /\ (Whole => Held(game) /\ Reasoned(game))
  BY DEF DecidedInv, PlayInv, GamesInv, Shaped
<1> SUFFICES ASSUME Whole PROVE Reasoned(game')
  BY <1>1, <1>2 DEF DecidedInv, Whole
<1>4. CASE game' = game
  BY <1>3, <1>4
<1>5. CASE SetsUp
  BY <1>3, <1>5, SetupDecides DEF SetsUp, Reasoned
<1>6. CASE Plays
  <2>1. PICK m \in Moves(game) : \E end \in ReceiveMove(game, m) : ~end.raised /\ game' = end.g
    BY <1>6 DEF Plays
  <2>2. PICK end \in ReceiveMove(game, m) : ~end.raised /\ game' = end.g
    BY <2>1
  <2>3. game.phase = "ready" /\ Held(game) /\ Poised(game.c, game.s, game.score, game.history)
    BY <1>3, <1>6 DEF Plays, Reasoned
  <2> QED
    BY <1>3, <2>2, <2>3, ReceiveDecides DEF Reasoned
<1> QED
  BY <1>2, <1>4, <1>5, <1>6

(* A game that is over is over for a reason that its final state shows, and one *)
(* that goes on is open: in Nim the tokens, in attrition the forces, in the     *)
(* corridor the places of the two, at blackjack the best totals of the hands,   *)
(* in the best of n rounds who won more of them (the resolve_round of the       *)
(* handlers, scoring.py).                                                       *)
THEOREM GamesHaveReason == Spec => []DecidedForReason
<1>1. Init => DecidedInv
  <2> SUFFICES ASSUME Init PROVE DecidedInv
    OBVIOUS
  <2>1. PlayInv
    BY PlayInit, ConfigsAssumption
  <2>2. game.phase = "pending"
    BY DEF Init, Fresh
  <2> QED
    BY <2>1, <2>2 DEF DecidedInv, Reasoned
<1>2. DecidedInv /\ [Next]_vars => DecidedInv'
  BY DecidedStep, ConfigsAssumption
<1>3. DecidedInv => DecidedForReason
  <2> SUFFICES ASSUME DecidedInv, game.phase \in {"ready", "terminal"} PROVE ForReason(game)
    BY DEF DecidedForReason
  <2>1. CASE Whole
    BY <2>1 DEF DecidedInv, Reasoned
  <2>2. CASE game.c.kind = "queue"
    BY <2>2 DEF ForReason
  <2> QED
    BY <2>1, <2>2 DEF Whole
<1> QED
  BY <1>1, <1>2, <1>3, PTL DEF Spec

-------------------------------------------------------------------------------
(* Fair play at the checkpoint.                                                 *)
OnShift(g) == g.c.kind = "credentials"

\* What is true of a shift that has opened: its accounts, its result, and while it
\* goes on that what is known of the candidate at the counter is true.
Straight(g) ==
  OnShift(g) /\ g.phase # "pending" =>
    /\ Owes(g.s, g.score) /\ g.result = ShiftResult(g)
    /\ g.phase = "ready" => Truly(g.c, g.s)
    /\ g.phase = "terminal" => g.s.complete
FairInv == EndInv /\ (Whole => Straight(game))

\* A shift opens so.
LEMMA SetupStraight ==
  ASSUME ConfigsAssumption, NEW g, g.c \in Configs, OnShift(g), NEW end \in Setup(g), ~end.raised
  PROVE  Straight(end.g)
<1> DEFINE e == end.g
           s == ShiftOpening(g.c)
<1>1. SetUp(g, end)
  BY SetupGives
<1>2. e.c = g.c /\ e.phase = "ready" /\ e.result = "in_process" /\ e.score = [player |-> 0, opponent |-> 0] /\ e.s = s
  BY <1>1 DEF SetUp, Openings, OnShift
<1>3. RosterGiven(g.c)
  BY ConfigGives DEF OnShift
<1>4. e.score.opponent = 0
  BY <1>2
<1>5. Truly(e.c, e.s) /\ Owes(e.s, e.score)
  BY <1>2, <1>3, <1>4, OpensFairly
<1>6. ~s.complete
  <2> DEFINE old == [index |-> 1, cases |-> g.c.roster, time |-> 0, penalty |-> 0, taxed |-> 0, complete |-> FALSE]
             new == Arrived(g.c.roster[1])
  <2>1. s = Over(new, old)
    BY DEF ShiftOpening
  <2>2. DOMAIN new = Slate
    BY ArrivedFields
  <2>3. "complete" \in DOMAIN old /\ old.complete = FALSE
    OBVIOUS
  <2> HIDE DEF old, new, s
  <2>4. \A x \in DOMAIN old \ DOMAIN new : s[x] = old[x]
    BY <2>1 DEF Over
  <2> QED
    BY <2>2, <2>3, <2>4 DEF Slate
<1>7. ShiftResult(e) = "in_process"
  BY <1>2, <1>6 DEF ShiftResult
<1> QED
  BY <1>2, <1>5, <1>7 DEF Straight

\* A move that is played keeps it so, and handles the candidates fairly.
LEMMA ReceiveFair ==
  ASSUME ConfigsAssumption, NEW g, Shaped(g), Held(g), g.phase = "ready", OnShift(g), AtCounter(g.c, g.s), Straight(g),
         NEW m \in Moves(g), NEW end \in ReceiveMove(g, m), ~end.raised
  PROVE  Straight(end.g) /\ Handled(g, end.g)
<1> DEFINE b == Begun(g)
           e == end.g
<1>1. IsGame(g) /\ g.c \in Configs /\ Told(g.history) /\ g.round \in Nat
  BY DEF Shaped
<1>2. PICK o \in Replies(b, m) : \E out \in Rounds(b, m, o) : Played(g, m, o, out, end)
  BY <1>1, ReceiveGives
<1>3. PICK out \in Rounds(b, m, o) : Played(g, m, o, out, end)
  BY <1>2
<1>4. /\ b.c = g.c /\ b.s = g.s /\ b.result = g.result /\ b.score = g.score /\ b.tell = g.tell
      /\ b.history = g.history
  BY <1>1, BegunGives
<1> HIDE DEF b
<1>5. m \in CheckpointMoves(b) /\ out = CheckpointRound(b, m)
  <2>1. m \in Moves(b)
    BY <1>1, <1>4, ConfigGives, BegunMoves
  <2> QED
    BY <1>3, <1>4, <2>1 DEF OnShift, Moves, Rounds
<1>6. e.c = g.c /\ e.s = out.s /\ e.score = out.score /\ out.result # "raise"
  BY <1>3 DEF Played
<1>7. PICK h : Judged(g, m, o, out, h) /\ e.result = Evaluate(h)
  BY <1>3, <1>6 DEF Played
<1>8. e.result = ShiftResult(e)
  <2>1. h.c = e.c /\ h.s = e.s
    BY <1>6, <1>7 DEF Judged
  <2>2. e.result = ShiftResult(h)
    BY <1>6, <1>7, <2>1 DEF Evaluate, OnShift
  <2> QED
    BY <2>1, <2>2 DEF ShiftResult
<1>9. IF e.result # "in_process" THEN e.phase = "terminal" ELSE e.phase = "ready"
  BY <1>3, <1>6 DEF Played
<1>10. e.result = "in_process" => e.s.complete # TRUE
  BY <1>8 DEF ShiftResult
<1>11. e.result # "in_process" => e.s.complete
  BY <1>8 DEF ShiftResult
<1>12. RosterGiven(b.c) /\ ShiftFits(b.c, b.s) /\ AtCounter(b.c, b.s) /\ Truly(b.c, b.s) /\ Owes(b.s, b.score)
  BY <1>1, <1>4, ConfigGives DEF Held, Fits, OnShift, Straight
<1> HIDE DEF e
<1>13. Handled(b, e) /\ Owes(e.s, e.score) /\ (e.s.complete = TRUE \/ Truly(e.c, e.s))
  BY <1>4, <1>5, <1>6, <1>12, RoundIsFair
<1>14. Handled(g, e)
  BY <1>4, <1>13 DEF Handled, Verdict, Current
<1>15. Straight(e)
  BY <1>8, <1>9, <1>10, <1>11, <1>13 DEF Straight
<1> QED
  BY <1>14, <1>15 DEF e

\* Every frame keeps the invariant, and handles the candidates fairly.
LEMMA FairStep ==
  ASSUME ConfigsAssumption, FairInv, [Next]_vars
  PROVE  /\ FairInv'
         /\ OnShift(game) /\ game.s # NoState => Handled(game, game')
<1>1. EndInv'
  BY EndStep DEF FairInv
<1>2. /\ game'.c = game.c /\ keeps' = keeps
      /\ Whole => game' = game \/ SetsUp \/ Plays
  BY FrameGives DEF FairInv, EndInv
<1>3. Shaped(game) /\ game.c \in Configs /\ (Whole => Held(game) /\ Straight(game) /\ Paced(game))
  BY DEF FairInv, EndInv, PlayInv, GamesInv, Shaped
<1>4. ASSUME Whole PROVE Straight(game') /\ (OnShift(game) /\ game.s # NoState => Handled(game, game'))
  <2>1. CASE ~OnShift(game)
    BY <1>2, <2>1 DEF Straight, OnShift
  <2>2. CASE OnShift(game) /\ game' = game
    BY <1>3, <1>4, <2>2, RestIsFair
  <2>3. CASE OnShift(game) /\ SetsUp
    <3>1. game.s = NoState
      BY <1>3, <1>4, <2>3 DEF SetsUp, Held
    <3> QED
      BY <1>3, <2>3, <3>1, SetupStraight DEF SetsUp
  <2>4. CASE OnShift(game) /\ Plays
    <3>1. PICK m \in Moves(game) : \E end \in ReceiveMove(game, m) : ~end.raised /\ game' = end.g
      BY <2>4 DEF Plays
    <3>2. PICK end \in ReceiveMove(game, m) : ~end.raised /\ game' = end.g
      BY <3>1
    <3>3. game.phase = "ready"
      BY <2>4 DEF Plays
    <3>4. AtCounter(game.c, game.s)
      BY <1>3, <1>4, <2>4, <3>3 DEF Paced, Pace, BoundToEnd, OnShift
    <3>5. Straight(end.g) /\ Handled(game, end.g)
      BY <1>3, <1>4, <2>4, <3>2, <3>3, <3>4, ReceiveFair
    <3> QED
      BY <3>2, <3>5
  <2> QED
    BY <1>2, <1>4, <2>1, <2>2, <2>3, <2>4
<1>5. FairInv'
  BY <1>1, <1>2, <1>4 DEF FairInv, Whole
<1>6. OnShift(game) => Whole
  BY DEF OnShift, Whole
<1> QED
  BY <1>4, <1>5, <1>6

\* A game starts so.
LEMMA FairInit == ASSUME ConfigsAssumption, Init PROVE FairInv
<1>1. PlayInv
  BY PlayInit
<1>2. game.phase = "pending"
  BY DEF Init, Fresh
<1> QED
  BY <1>1, <1>2 DEF FairInv, EndInv, Paced, Straight

\* The invariant makes a checkpoint judge fairly.
LEMMA FairJudges ==
  ASSUME ConfigsAssumption, FairInv
  PROVE  JudgedFairly
<1> SUFFICES ASSUME OnShift(game), game.phase \in {"ready", "terminal"} PROVE FairlyJudged(game)
  BY DEF JudgedFairly, OnShift
<1>1. Shaped(game) /\ game.c \in Configs /\ Held(game) /\ Straight(game) /\ Paced(game)
  BY DEF FairInv, EndInv, PlayInv, GamesInv, Shaped, Whole, OnShift
<1>2. RosterGiven(game.c) /\ ShiftFits(game.c, game.s)
  BY <1>1, ConfigGives DEF Held, Fits, OnShift
<1>3. Flawless(game)
  BY <1>1, <1>2, FlawlessShown DEF Straight
<1>4. CASE game.phase = "terminal"
  BY <1>1, <1>3, <1>4 DEF Straight, FairlyJudged
<1>5. CASE game.phase = "ready"
  <2>1. AtCounter(game.c, game.s) /\ Truly(game.c, game.s)
    BY <1>1, <1>5 DEF Straight, Paced, Pace, BoundToEnd, OnShift
  <2>2. Guilt(game)
    BY <1>2, <2>1, GuiltShown
  <2>3. Candid(game.c.rules, OnArrival(game)) => Grounded(game)
    BY <1>2, <2>1, GroundedShown
  <2> QED
    BY <1>3, <2>2, <2>3 DEF FairlyJudged
<1> QED
  BY <1>4, <1>5

(* Whatever is found out of a candidate at the checkpoint, in whatever order:   *)
(* what is criminal by itself is not talked away; a rejection after thorough    *)
(* work can be justified, and nothing is held against somebody in order; a      *)
(* shift without a wrong call is lost to overtime or the tax                    *)
(* (credentials_game.py, resolve_round and evaluate).                           *)
THEOREM ShiftsAreJudgedFairly == Spec => []JudgedFairly
<1>1. Init => FairInv
  BY FairInit, ConfigsAssumption
<1>2. FairInv /\ [Next]_vars => FairInv'
  BY FairStep, ConfigsAssumption
<1>3. FairInv => JudgedFairly
  BY FairJudges, ConfigsAssumption
<1> QED
  BY <1>1, <1>2, <1>3, PTL DEF Spec

(* No request makes a candidate worse off unless it puts an id on the table, a  *)
(* disclosure after a search that found something comes too late, and the next  *)
(* candidate is judged by its own packet (resolve_round and advance_case of     *)
(* credentials_game.py).                                                        *)
THEOREM ShiftsAreHandledFairly == Spec => HandledFairly
<1> DEFINE Fair == (game.c.kind = "credentials" /\ game.s # NoState /\ game'.s # NoState) => Handled(game, game')
<1>1. Init => FairInv
  BY FairInit, ConfigsAssumption
<1>2. FairInv /\ [Next]_vars => FairInv' /\ [Fair]_vars
  BY FairStep, ConfigsAssumption DEF OnShift
<1> QED
  BY <1>1, <1>2, PTL DEF Spec, HandledFairly

(* A game of any kind is decided rightly, in whatever way it is played, in      *)
(* sessions that drop failed frames and in those that keep them.                *)
THEOREM GamesDecidedRightly == Spec => DecidedRightly
BY GamesHaveReason, ShiftsAreJudgedFairly, ShiftsAreHandledFairly, PTL DEF DecidedRightly

===============================================================================
