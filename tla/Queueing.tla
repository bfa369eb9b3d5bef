------------------------------- MODULE Queueing -------------------------------
(* The queue simulation of tangl.mechanics.simulation: patients arrive, wait    *)
(* for the stations of a route and are served there, driven by a calendar of    *)
(* events. A net c gives the patients in their authored order with their        *)
(* arrivals, the entry station, and for every station its capacity, its service *)
(* turns and the next station. q is the mutable state of one run.               *)
EXTENDS Naturals, Sequences, FiniteSets, FiniteSetsExt, SequencesExt

NoStation == "nowhere"
Stations(c) == DOMAIN c.capacity
Patients(c) == ToSet(c.patients)

(* What the specifications of stations and patients demand: at least one place  *)
(* and one turn of service, no arrival before the first turn.                   *)
Specified(c) ==
  /\ IsFiniteSet(Stations(c)) /\ NoStation \notin Stations(c)
  /\ c.capacity \in [Stations(c) -> Nat \ {0}] /\ c.service \in [Stations(c) -> Nat \ {0}]
  /\ c.patients \in Seq(Patients(c)) /\ IsInjective(c.patients)
  /\ c.arrival \in [Patients(c) -> Nat] /\ c.limit \in Nat \ {0}

(* The n-th station after the entry, NoStation once the route has ended.        *)
Along(c) ==
  LET at[n \in 0..Cardinality(Stations(c))] ==
        IF n = 0 THEN c.entry
        ELSE LET before == at[n - 1] IN IF before = NoStation THEN NoStation ELSE c.next[before]
  IN at

(* Setup rejects unknown stations and a route that comes back to itself.        *)
ValidNet(c) ==
  /\ c.entry \in Stations(c)
  /\ \A st \in Stations(c) : c.next[st] \in Stations(c) \cup {NoStation}
  /\ Along(c)[Cardinality(Stations(c))] = NoStation

(* Events are ordered by turn, then by the order in which they were made.       *)
Event(turn, seq, p, st) == [at |-> turn, seq |-> seq, patient |-> p, station |-> st]
Earlier(e, f) == e.at < f.at \/ (e.at = f.at /\ e.seq < f.seq)
NextEvent(q) == CHOOSE e \in q.calendar : \A f \in q.calendar \ {e} : Earlier(e, f)

(* A run at its setup: all arrivals are in the calendar.                        *)
OpenQueue(c) ==
  [turn     |-> 0,
   seq      |-> Len(c.patients),
   calendar |-> {Event(c.arrival[c.patients[i]], i, c.patients[i], NoStation) : i \in 1..Len(c.patients)},
   queue    |-> [st \in Stations(c) |-> <<>>],
   serving  |-> [st \in Stations(c) |-> {}],
   started  |-> [st \in Stations(c) |-> 0],
   finished |-> [st \in Stations(c) |-> 0],
   busy     |-> [st \in Stations(c) |-> 0],
   since    |-> [p \in Patients(c) |-> 0],
   waited   |-> [p \in Patients(c) |-> 0],
   gone     |-> [p \in Patients(c) |-> 0],
   completed |-> <<>>,
   metrics  |-> FALSE]

(* A patient joins the queue of a station.                                      *)
Enqueue(q, p, st) ==
  [q EXCEPT !.queue[st] = Append(@, p), !.since[p] = q.turn]

(* The places of a station that nobody is served at, and how many waiting       *)
(* patients they can take.                                                      *)
Free(c, q, st) == c.capacity[st] - Cardinality(q.serving[st])
Called(c, q, st) == IF Len(q.queue[st]) < Free(c, q, st) THEN Len(q.queue[st]) ELSE Free(c, q, st)

(* The first n of them start their service; each completion is put in the       *)
(* calendar.                                                                    *)
Start(c, q, st, n) ==
  LET called == SubSeq(q.queue[st], 1, n) IN
  [q EXCEPT !.queue[st] = SubSeq(@, n + 1, Len(@)),
            !.serving[st] = @ \cup ToSet(called),
            !.started[st] = @ + n,
            !.busy[st] = @ + n * c.service[st],
            !.waited = [p \in Patients(c) |->
                          IF p \in ToSet(called) THEN @[p] + (q.turn - q.since[p]) ELSE @[p]],
            !.calendar = @ \cup {Event(q.turn + c.service[st], q.seq + i, called[i], st) : i \in 1..n},
            !.seq = @ + n]
TryStart(c, q, st) == IF st = NoStation THEN q ELSE Start(c, q, st, Called(c, q, st))

Arrival(c, q, p) == TryStart(c, Enqueue(q, p, c.entry), c.entry)

(* A service ends: the patient moves on or is discharged; the station calls the *)
(* next one, and so does the station moved to.                                  *)
CompleteTwice(c, q, p, st) ==
  LET to == c.next[st]
      freed == [q EXCEPT !.serving[st] = @ \ {p}, !.finished[st] = @ + 1, !.gone[p] = q.turn, !.completed = Append(@, p)]
  IN IF to = NoStation THEN TryStart(c, freed, st) ELSE TryStart(c, TryStart(c, Enqueue(freed, p, to), st), to)
Complete(c, q, p, st) ==
  LET to == c.next[st]
      freed == [q EXCEPT !.serving[st] = @ \ {p}, !.finished[st] = @ + 1]
      moved == IF to = NoStation
               THEN [freed EXCEPT !.gone[p] = q.turn, !.completed = Append(@, p)]
               ELSE Enqueue(freed, p, to)
  IN TryStart(c, TryStart(c, moved, st), to)

(* run_next_event: pop the next event, set the clock to it, process it.         *)
RunNext(c, q) ==
  LET e == NextEvent(q)
      at == [q EXCEPT !.turn = e.at, !.calendar = @ \ {e}]
  IN IF e.station = NoStation THEN Arrival(c, at, e.patient)
     ELSE Complete(c, at, e.patient, e.station)

(* run_until_complete: at most limit events, as long as there are any. A        *)
(* calendar that is not empty then makes the call raise, with what it did left  *)
(* done.                                                                        *)
Pass(c, q) == IF q.calendar = {} THEN q ELSE RunNext(c, q)
RunAll(c, q, limit) ==
  LET ran[n \in 0..limit] == IF n = 0 THEN q ELSE Pass(c, ran[n - 1]) IN ran[limit]

(* The finished run as one request leaves it: the calendar is empty and the     *)
(* metrics are computed, or it still holds events and the call has raised.      *)
Finished(q) == IF q.calendar = {} THEN [q EXCEPT !.metrics = TRUE] ELSE q

-------------------------------------------------------------------------------
(* Where a patient is: to arrive, in queues, in service, discharged.            *)
Arriving(q, p) == {<<"coming", NoStation, e.seq>> : e \in {f \in q.calendar : f.patient = p /\ f.station = NoStation}}
Waits(c, q, p) ==
  UNION {{<<"waiting", st, i>> : i \in {j \in 1..Len(q.queue[st]) : q.queue[st][j] = p}} : st \in Stations(c)}
Attended(c, q, p) == {<<"served", st, 0>> : st \in {t \in Stations(c) : p \in q.serving[t]}}
Gone(q, p) == {<<"gone", NoStation, i>> : i \in {j \in 1..Len(q.completed) : q.completed[j] = p}}
Places(c, q, p) == Arriving(q, p) \cup Waits(c, q, p) \cup Attended(c, q, p) \cup Gone(q, p)

(* Every patient is in exactly one place, and exactly the served have a         *)
(* completion in the calendar, one each: nobody is lost between two stations,   *)
(* queued twice or completed twice.                                             *)
OnePlaceEach(c, q) ==
  \A p \in Patients(c) :
    /\ Cardinality(Places(c, q, p)) = 1
    /\ \A st \in Stations(c) :
         Cardinality({e \in q.calendar : e.patient = p /\ e.station = st})
           = IF p \in q.serving[st] THEN 1 ELSE 0

(* A station never serves more than its capacity, and never leaves a place free *)
(* while somebody waits, wherever the last event took place.                    *)
NoneIdle(c, q) ==
  \A st \in Stations(c) :
    /\ Cardinality(q.serving[st]) <= c.capacity[st]
    /\ q.queue[st] # <<>> => Cardinality(q.serving[st]) = c.capacity[st]

(* What the services of the first n stations of the route take.                 *)
Served(c) ==
  LET took[n \in 0..Cardinality(Stations(c)) + 1] ==
        IF n = 0 THEN 0
        ELSE took[n - 1] + IF Along(c)[n - 1] = NoStation THEN 0 ELSE c.service[Along(c)[n - 1]]
  IN took

(* The clock agrees with the books: no event is overdue, a queue is in the      *)
(* order of arrival at it, a stay is the waits and the services of the route    *)
(* and nothing else, a station was busy for what it started.                    *)
BooksBalance(c, q) ==
  /\ \A e \in q.calendar : e.at >= q.turn
  /\ \A st \in Stations(c) :
       /\ \A i, j \in 1..Len(q.queue[st]) : i < j => q.since[q.queue[st][i]] <= q.since[q.queue[st][j]]
       /\ q.busy[st] = q.started[st] * c.service[st]
       /\ q.started[st] = q.finished[st] + Cardinality(q.serving[st])
  /\ \A p \in ToSet(q.completed) :
       q.gone[p] - c.arrival[p] = q.waited[p] + Served(c)[Cardinality(Stations(c)) + 1]
===============================================================================
