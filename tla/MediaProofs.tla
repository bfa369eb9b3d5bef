------------------------------ MODULE MediaProofs ------------------------------
(***************************************************************************)
(* Whatever fails, is rolled back or answers late, a picture is asked for  *)
(* once, a slot keeps what it was bound to, and the client is sent what    *)
(* was asked for.  A hop is a sequence of steps that may stop anywhere, so *)
(* each step must lead from a sound world to a later one that is sound.    *)
(***************************************************************************)
EXTENDS MediaJobs, FiniteSetTheorems, SequenceTheorems, WellFoundedInduction, TLAPS

RitRecords == [spec: Specs, status: Statuses, job: Nat]
GraphType == [rits: Seq(RitRecords), slots: [Slots -> Nat], mood: Moods]
JobRecords == [spec: Specs, result: Answers \cup {"none"}]
Entries == {<<File(spec), spec>> : spec \in Specs}
Fragments == [step: Nat, slot: Slots, rit: Nat, was: Seq(RitRecords)]
WorldType == [graph: GraphType, jobs: Seq(JobRecords), disk: SUBSET Entries,
              page: SUBSET Fragments]

\* A resource refers to a job for its own specification while it is running,
\* and to no job otherwise; when it is resolved its file is there.
RitOK(r, js, d) ==
    /\ r.job # 0 <=> r.status = "running"
    /\ r.job # 0 => r.job \in DOMAIN js /\ js[r.job].spec = r.spec
    /\ r.status = "resolved" => <<File(r.spec), r.spec>> \in d

\* Slots are bound to resources of the graph, which are of different
\* specifications.
GraphOK(g, js, d) ==
    /\ \A s \in Slots : g.slots[s] \in 0..Len(g.rits)
    /\ \A i \in DOMAIN g.rits : RitOK(g.rits[i], js, d)
    /\ \A i, j \in DOMAIN g.rits : g.rits[i].spec = g.rits[j].spec => i = j

\* Jobs whose submission still stands are for different specifications, and
\* the graph has for each a resource that was submitted.
Unique(g, js) ==
    /\ \A j, k \in DOMAIN js \ undone : js[j].spec = js[k].spec => j = k
    /\ \A j \in DOMAIN js \ undone : js[j].spec \in Claimed(g)

\* A fragment shows the resource its slot is bound to.
PageOK(w) ==
    \A f \in w.page :
        /\ f.rit # 0 /\ w.graph.slots[f.slot] = f.rit
        /\ f.was # << >> /\ f.was[1].status = "resolved" =>
              <<File(f.was[1].spec), f.was[1].spec>> \in w.disk

WorldOK(w) ==
    /\ w \in WorldType
    /\ GraphOK(w.graph, w.jobs, w.disk)
    /\ Unique(w.graph, w.jobs)
    /\ PageOK(w)

\* What a step may make of a world: nothing bound or written is lost, jobs are
\* added, and a resource that goes on running waits for the same job.
Later(x, w, step) ==
    /\ Follows(x.graph, w.graph)
    /\ \A i \in DOMAIN w.graph.rits :
          Has(w.graph, i, "running") /\ Has(x.graph, i, "running")
              => x.graph.rits[i].job = w.graph.rits[i].job
    /\ Len(w.jobs) <= Len(x.jobs) /\ \A j \in DOMAIN w.jobs : x.jobs[j] = w.jobs[j]
    /\ w.disk \subseteq x.disk
    /\ \A f \in x.page : f \in w.page \/ f.step = step

Ops == [do: {"poll", "submit"}, of: Rits] \cup [do: {"resolve"}, of: Slots]
         \cup [do: {"update", "journal"}, of: {0}]

-----------------------------------------------------------------------------
(* Courses.                                                                *)

\* Every set of natural numbers that is not empty has a least one.
LEMMA NatMin ==
    ASSUME NEW T \in SUBSET Nat, T # {}
    PROVE  \E x \in T : \A y \in T : x <= y
<1> DEFINE R == {ss \in Nat \X Nat : ss[1] < ss[2]}
<1>1. IsWellFoundedOn(R, Nat)
  BY NatLessThanWellFounded DEF OpToRel
<1> HIDE DEF R
<1>2. PICK x \in T : \A y \in T : ~(<<y, x>> \in R)
  BY <1>1, WFMin
<1>3. \A y \in T : ~(y < x)
  BY <1>2 DEF R
<1> QED
  BY <1>3

\* A set of numbers up to m that has 0, and each number after one of its own,
\* has all of them.
LEMMA UpToAll ==
    ASSUME NEW m \in Nat, NEW T, 0 \in T, \A k \in 1..m : k - 1 \in T => k \in T
    PROVE  \A k \in 0..m : k \in T
<1> DEFINE U == {k \in 0..m : k \notin T}
<1> SUFFICES ASSUME U # {} PROVE FALSE
  OBVIOUS
<1>1. PICK x \in U : \A y \in U : x <= y
  <2>1. U \in SUBSET Nat
    OBVIOUS
  <2> QED
    BY <2>1, NatMin
<1>2. x \in 1..m /\ x - 1 \in 0..m
  BY <1>1
<1>3. x - 1 \in T
  BY <1>1, <1>2
<1> QED
  BY <1>1, <1>2, <1>3

\* A course starts at its world, and each of its worlds is the step of the one
\* before it.
LEMMA CourseSteps ==
    ASSUME NEW w, NEW ops, Len(ops) \in Nat, NEW n, NEW step, NEW silent
    PROVE  /\ Course(w, ops, n, step, silent)[0] = w
           /\ \A k \in 1..Len(ops) :
                 Course(w, ops, n, step, silent)[k] =
                     Step(Course(w, ops, n, step, silent)[k - 1], ops[k], n, step, silent)
<1> DEFINE F(f, m) == f = [k \in 0..m |->
                 IF k = 0 THEN w ELSE Step(f[k - 1], ops[k], n, step, silent)]
           T == {m \in Nat : \E f : F(f, m)}
           c == Course(w, ops, n, step, silent)
<1>1. 0 \in T
  <2>1. F([k \in 0..0 |-> w], 0)
    OBVIOUS
  <2> QED
    BY <2>1
<1>2. ASSUME NEW m \in 1..Len(ops), m - 1 \in T PROVE m \in T
  <2>1. PICK g : F(g, m - 1)
    BY <1>2
  <2> DEFINE f == [k \in 0..m |->
                 IF k < m THEN g[k] ELSE Step(g[m - 1], ops[m], n, step, silent)]
  <2>2. ASSUME NEW k \in 0..m
        PROVE  f[k] = IF k = 0 THEN w ELSE Step(f[k - 1], ops[k], n, step, silent)
    <3>1. CASE k = 0
      BY <2>1, <3>1
    <3>2. CASE k \in 1..(m - 1)
      <4>1. g[k] = Step(g[k - 1], ops[k], n, step, silent)
        BY <2>1, <3>2
      <4> QED
        BY <3>2, <4>1
    <3>3. CASE k = m
      BY <3>3
    <3> QED
      BY <3>1, <3>2, <3>3
  <2>3. F(f, m)
    BY <2>2
  <2> HIDE DEF f
  <2>4. m \in Nat /\ \E h : F(h, m)
    BY <2>3
  <2> QED
    BY <2>4
<1>3. Len(ops) \in T
  <2> HIDE DEF T
  <2>1. \A m \in 1..Len(ops) : m - 1 \in T => m \in T
    BY <1>2
  <2>2. \A k \in 0..Len(ops) : k \in T
    BY <1>1, <2>1, UpToAll
  <2> QED
    BY <2>2
<1>4. PICK f : F(f, Len(ops))
  BY <1>3 DEF T
<1>5. F(c, Len(ops))
  BY <1>4 DEF Course
<1> HIDE DEF c
<1> QED
  BY <1>5 DEF c

-----------------------------------------------------------------------------
(* One world later than another.                                           *)

\* What the type of a world says of its parts.
LEMMA WorldParts ==
    ASSUME NEW w \in WorldType
    PROVE  /\ w.graph \in GraphType /\ w.graph.rits \in Seq(RitRecords)
           /\ Len(w.graph.rits) \in Nat /\ DOMAIN w.graph.rits = 1..Len(w.graph.rits)
           /\ \A i \in DOMAIN w.graph.rits :
                 /\ w.graph.rits[i] \in RitRecords /\ w.graph.rits[i].spec \in Specs
                 /\ w.graph.rits[i].status \in Statuses /\ w.graph.rits[i].job \in Nat
           /\ w.graph.slots \in [Slots -> Nat] /\ w.graph.mood \in Moods
           /\ w.jobs \in Seq(JobRecords)
           /\ Len(w.jobs) \in Nat /\ DOMAIN w.jobs = 1..Len(w.jobs)
           /\ \A j \in DOMAIN w.jobs : w.jobs[j] \in JobRecords
           /\ w.disk \subseteq Entries /\ w.page \subseteq Fragments
<1>1. /\ w.graph \in GraphType /\ w.jobs \in Seq(JobRecords)
      /\ w.disk \subseteq Entries /\ w.page \subseteq Fragments
  BY DEF WorldType
<1>2. /\ w.graph.rits \in Seq(RitRecords) /\ w.graph.slots \in [Slots -> Nat]
      /\ w.graph.mood \in Moods
  BY <1>1 DEF GraphType
<1>3. /\ Len(w.graph.rits) \in Nat /\ DOMAIN w.graph.rits = 1..Len(w.graph.rits)
      /\ \A i \in DOMAIN w.graph.rits : w.graph.rits[i] \in RitRecords
  BY <1>2, LenProperties, ElementOfSeq
<1>4. /\ Len(w.jobs) \in Nat /\ DOMAIN w.jobs = 1..Len(w.jobs)
      /\ \A j \in DOMAIN w.jobs : w.jobs[j] \in JobRecords
  BY <1>1, LenProperties, ElementOfSeq
<1>5. \A i \in DOMAIN w.graph.rits :
          /\ w.graph.rits[i].spec \in Specs /\ w.graph.rits[i].status \in Statuses
          /\ w.graph.rits[i].job \in Nat
  BY <1>3 DEF RitRecords
<1> QED
  BY <1>1, <1>2, <1>3, <1>4, <1>5

\* A world is no earlier than itself.
LEMMA LaterRefl ==
    ASSUME NEW w \in WorldType, NEW step
    PROVE  Later(w, w, step)
<1>1. \A st : Rank(st) <= Rank(st)
  BY DEF Rank
<1>2. Len(w.jobs) <= Len(w.jobs)
  BY WorldParts
<1> QED
  BY <1>1, <1>2 DEF Later, Follows

\* Later than later is later.
LEMMA LaterTrans ==
    ASSUME NEW w \in WorldType, NEW x \in WorldType, NEW y \in WorldType, NEW step,
           Later(x, w, step), Later(y, x, step)
    PROVE  Later(y, w, step)
<1>1. Follows(y.graph, w.graph)
  <2>1. \A s \in Slots : w.graph.slots[s] # 0 => y.graph.slots[s] = w.graph.slots[s]
    BY DEF Later, Follows
  <2>2. ASSUME NEW i \in DOMAIN w.graph.rits
        PROVE  /\ i \in DOMAIN y.graph.rits /\ y.graph.rits[i].spec = w.graph.rits[i].spec
               /\ Rank(w.graph.rits[i].status) <= Rank(y.graph.rits[i].status)
               /\ Rank(w.graph.rits[i].status) = 2
                     => y.graph.rits[i].status = w.graph.rits[i].status
    <3>1. /\ i \in DOMAIN x.graph.rits /\ x.graph.rits[i].spec = w.graph.rits[i].spec
          /\ Rank(w.graph.rits[i].status) <= Rank(x.graph.rits[i].status)
          /\ Rank(w.graph.rits[i].status) = 2
                => x.graph.rits[i].status = w.graph.rits[i].status
      BY DEF Later, Follows
    <3>2. /\ i \in DOMAIN y.graph.rits /\ y.graph.rits[i].spec = x.graph.rits[i].spec
          /\ Rank(x.graph.rits[i].status) <= Rank(y.graph.rits[i].status)
          /\ Rank(x.graph.rits[i].status) = 2
                => y.graph.rits[i].status = x.graph.rits[i].status
      BY <3>1 DEF Later, Follows
    <3>3. \A st : Rank(st) \in Nat
      BY DEF Rank
    <3> QED
      BY <3>1, <3>2, <3>3
  <2> QED
    BY <2>1, <2>2 DEF Follows
<1>2. ASSUME NEW i \in DOMAIN w.graph.rits, Has(w.graph, i, "running"),
             Has(y.graph, i, "running")
      PROVE  y.graph.rits[i].job = w.graph.rits[i].job
  <2>1. /\ i \in DOMAIN x.graph.rits /\ x.graph.rits[i].status \in Statuses
        /\ Rank(w.graph.rits[i].status) <= Rank(x.graph.rits[i].status)
        /\ Rank(x.graph.rits[i].status) <= Rank(y.graph.rits[i].status)
    BY WorldParts DEF Later, Follows
  <2>2. Has(x.graph, i, "running")
    BY <1>2, <2>1 DEF Has, Rank, Statuses
  <2> QED
    BY <1>2, <2>1, <2>2 DEF Later
<1>3. Len(w.jobs) <= Len(y.jobs) /\ \A j \in DOMAIN w.jobs : y.jobs[j] = w.jobs[j]
  BY WorldParts DEF Later
<1>4. w.disk \subseteq y.disk /\ \A f \in y.page : f \in w.page \/ f.step = step
  BY DEF Later
<1> QED
  BY <1>1, <1>2, <1>3, <1>4 DEF Later

\* A resource stays sound while jobs are added and files written.
LEMMA RitStays ==
    ASSUME NEW r, NEW js \in Seq(JobRecords), NEW ks \in Seq(JobRecords), NEW d, NEW e,
           RitOK(r, js, d), Len(js) <= Len(ks),
           \A j \in DOMAIN js : ks[j].spec = js[j].spec, d \subseteq e
    PROVE  RitOK(r, ks, e)
<1>1. /\ Len(js) \in Nat /\ Len(ks) \in Nat
      /\ DOMAIN js = 1..Len(js) /\ DOMAIN ks = 1..Len(ks)
  BY LenProperties
<1>2. DOMAIN js \subseteq DOMAIN ks
  BY <1>1
<1> QED
  BY <1>2 DEF RitOK

\* A resource is polled or submitted: its record is revised, nothing else of
\* the graph.
LEMMA Revision ==
    ASSUME NEW w, WorldOK(w), NEW x \in WorldType, NEW step,
           NEW i \in DOMAIN w.graph.rits, NEW r \in RitRecords,
           x.graph.rits = [w.graph.rits EXCEPT ![i] = r],
           x.graph.slots = w.graph.slots, x.page = w.page,
           Len(w.jobs) <= Len(x.jobs), \A j \in DOMAIN w.jobs : x.jobs[j] = w.jobs[j],
           w.disk \subseteq x.disk,
           r.spec = w.graph.rits[i].spec, RitOK(r, x.jobs, x.disk),
           Rank(w.graph.rits[i].status) < Rank(r.status),
           Unique(x.graph, x.jobs)
    PROVE  WorldOK(x) /\ Later(x, w, step)
<1>1. w \in WorldType
  BY DEF WorldOK
<1>2. /\ DOMAIN x.graph.rits = DOMAIN w.graph.rits /\ Len(x.graph.rits) = Len(w.graph.rits)
      /\ x.graph.rits[i] = r
      /\ \A k \in DOMAIN w.graph.rits : k # i => x.graph.rits[k] = w.graph.rits[k]
  <2>1. DOMAIN x.graph.rits = DOMAIN w.graph.rits
    OBVIOUS
  <2>2. Len(x.graph.rits) = Len(w.graph.rits)
    BY <1>1, <2>1, WorldParts
  <2> QED
    BY <2>1, <2>2
<1>3. GraphOK(x.graph, x.jobs, x.disk)
  <2>1. \A k \in DOMAIN x.graph.rits : RitOK(x.graph.rits[k], x.jobs, x.disk)
    <3> SUFFICES ASSUME NEW k \in DOMAIN w.graph.rits, k # i
                 PROVE  RitOK(w.graph.rits[k], x.jobs, x.disk)
      BY <1>2
    <3>1. RitOK(w.graph.rits[k], w.jobs, w.disk)
      BY DEF WorldOK, GraphOK
    <3>2. w.jobs \in Seq(JobRecords) /\ x.jobs \in Seq(JobRecords)
      BY <1>1, WorldParts
    <3> QED
      BY <3>1, <3>2, RitStays
  <2>2. \A k \in DOMAIN w.graph.rits : x.graph.rits[k].spec = w.graph.rits[k].spec
    BY <1>2
  <2>3. \A k, l \in DOMAIN x.graph.rits : x.graph.rits[k].spec = x.graph.rits[l].spec => k = l
    BY <1>2, <2>2 DEF WorldOK, GraphOK
  <2> QED
    BY <1>2, <2>1, <2>3 DEF WorldOK, GraphOK
<1>4. PageOK(x)
  BY DEF WorldOK, PageOK
<1>5. Follows(x.graph, w.graph)
  <2>1. \A s : Rank(s) \in 0..2
    BY DEF Rank
  <2> QED
    BY <1>2, <2>1 DEF Follows
<1>6. \A k \in DOMAIN w.graph.rits :
          Has(w.graph, k, "running") /\ Has(x.graph, k, "running")
              => x.graph.rits[k].job = w.graph.rits[k].job
  BY <1>2 DEF Has, Rank
<1> QED
  BY <1>3, <1>4, <1>5, <1>6 DEF WorldOK, Later

\* What was claimed stays claimed.
LEMMA ClaimedKept ==
    ASSUME NEW w \in WorldType, NEW x, Follows(x.graph, w.graph)
    PROVE  Claimed(w.graph) \subseteq Claimed(x.graph)
<1> SUFFICES ASSUME NEW i \in DOMAIN w.graph.rits, w.graph.rits[i].status # "pending"
             PROVE  w.graph.rits[i].spec \in Claimed(x.graph)
  BY DEF Claimed
<1>1. /\ i \in DOMAIN x.graph.rits /\ x.graph.rits[i].spec = w.graph.rits[i].spec
      /\ Rank(w.graph.rits[i].status) <= Rank(x.graph.rits[i].status)
  BY DEF Follows
<1>2. x.graph.rits[i].status # "pending"
  BY <1>1 DEF Rank
<1> QED
  BY <1>1, <1>2 DEF Claimed

\* Two jobs whose submission stands are for different specifications as long
\* as no job is added and nothing that was claimed is given up.
LEMMA UniqueStays ==
    ASSUME NEW w, WorldOK(w), NEW x, x.jobs = w.jobs,
           Claimed(w.graph) \subseteq Claimed(x.graph)
    PROVE  Unique(x.graph, x.jobs)
BY DEF WorldOK, Unique

\* A file's name is its specification's own.
LEMMA WriteKeeps ==
    ASSUME NEW d \in SUBSET Entries, NEW spec \in Specs
    PROVE  /\ d \subseteq Write(d, spec) /\ Write(d, spec) \subseteq Entries
           /\ <<File(spec), spec>> \in Write(d, spec)
<1>1. \A e \in d : e[1] = File(spec) => e = <<File(spec), spec>>
  BY DEF Entries, File
<1> QED
  BY <1>1 DEF Write, Entries

Put(rits, i, r) == [rits EXCEPT ![i] = r]
Revise(rits, i, e, j) == [[rits EXCEPT ![i].status = e] EXCEPT ![i].job = j]

\* A resource's status and job are revised in one.
LEMMA RevisedRits ==
    ASSUME NEW w \in WorldType, NEW i \in DOMAIN w.graph.rits, NEW e, NEW j
    PROVE  Revise(w.graph.rits, i, e, j)
              = Put(w.graph.rits, i, [spec |-> w.graph.rits[i].spec, status |-> e, job |-> j])
<1> DEFINE p == w.graph.rits[i]
<1>1. p \in RitRecords /\ w.graph.rits \in Seq(RitRecords)
  BY WorldParts
<1>2. p = [spec |-> p.spec, status |-> p.status, job |-> p.job]
  BY <1>1 DEF RitRecords
<1>3. [p EXCEPT !.status = e] = [spec |-> p.spec, status |-> e, job |-> p.job]
  BY <1>2
<1>4. [[spec |-> p.spec, status |-> e, job |-> p.job] EXCEPT !.job = j]
          = [spec |-> p.spec, status |-> e, job |-> j]
  OBVIOUS
<1>5. [[p EXCEPT !.status = e] EXCEPT !.job = j]
          = [spec |-> p.spec, status |-> e, job |-> j]
  BY <1>3, <1>4, Zenon
<1> QED
  BY <1>1, <1>5 DEF Revise, Put

\* The answer to a poll settles the resource that waited for it.
LEMMA ApplyStep ==
    ASSUME NEW w, WorldOK(w), NEW i, Has(w.graph, i, "running"),
           NEW answer \in Answers, NEW step
    PROVE  /\ WorldOK(Apply(w, i, answer)) /\ Later(Apply(w, i, answer), w, step)
           /\ Apply(w, i, answer).jobs = w.jobs
           /\ Apply(w, i, answer).graph.rits[i].status \in {"resolved", "failed"}
<1> DEFINE x == Apply(w, i, answer)
           q == w.graph.rits[i]
           end == IF answer = "failed" THEN "failed" ELSE "resolved"
           r == [spec |-> q.spec, status |-> end, job |-> 0]
<1>1. w \in WorldType /\ i \in DOMAIN w.graph.rits /\ q.status = "running"
  BY DEF WorldOK, Has
<1>2. /\ w.graph \in GraphType /\ w.graph.rits \in Seq(RitRecords)
      /\ q \in RitRecords /\ q.spec \in Specs /\ q.job \in Nat /\ w.disk \subseteq Entries
  BY <1>1, WorldParts
<1>3. r \in RitRecords /\ end \in {"resolved", "failed"}
  BY <1>2 DEF RitRecords, Statuses
<1>4. x = [graph |-> [rits |-> [w.graph.rits EXCEPT ![i] = r],
                      slots |-> w.graph.slots, mood |-> w.graph.mood],
           jobs |-> w.jobs, page |-> w.page,
           disk |-> IF end = "failed" THEN w.disk ELSE Write(w.disk, q.spec)]
  <2> DEFINE f == [[w.graph.rits EXCEPT ![i].status = end] EXCEPT ![i].job = 0]
  <2>1. f = [w.graph.rits EXCEPT ![i] = r]
    <3> HIDE DEF end
    <3>1. Revise(w.graph.rits, i, end, 0) = Put(w.graph.rits, i, r)
      BY <1>1, RevisedRits
    <3> QED
      BY <3>1 DEF Revise, Put
  <2>2. w.graph = [rits |-> w.graph.rits, slots |-> w.graph.slots, mood |-> w.graph.mood]
    BY <1>2 DEF GraphType
  <2>3. w = [graph |-> w.graph, jobs |-> w.jobs, disk |-> w.disk, page |-> w.page]
    BY <1>1 DEF WorldType
  <2>4. CASE answer = "failed"
    <3>1. x = [w EXCEPT !.graph = [@ EXCEPT !.rits = f]]
      BY <1>1, <1>2, <2>2, <2>3, <2>4 DEF Apply
    <3> QED
      BY <2>1, <2>2, <2>3, <2>4, <3>1
  <2>5. CASE answer # "failed"
    <3>1. x = [w EXCEPT !.graph = [@ EXCEPT !.rits = f], !.disk = Write(@, q.spec)]
      BY <1>1, <1>2, <2>2, <2>3, <2>5 DEF Apply
    <3> QED
      <4>1. end # "failed"
        BY <2>5
      <4> HIDE DEF f, r, end, x
      <4> QED
        BY <2>1, <2>2, <2>3, <3>1, <4>1
  <2> QED
    BY <2>4, <2>5
<1> HIDE DEF x
<1>5. /\ w.disk \subseteq x.disk /\ x.disk \subseteq Entries
      /\ end = "resolved" => <<File(q.spec), q.spec>> \in x.disk
  BY <1>2, <1>4, WriteKeeps
<1>6. /\ x.graph.rits = [w.graph.rits EXCEPT ![i] = r] /\ x.graph.slots = w.graph.slots
      /\ x.graph.mood = w.graph.mood /\ x.page = w.page /\ x.jobs = w.jobs
  BY <1>4
<1>7. x \in WorldType
  <2>1. x.graph.rits \in Seq(RitRecords)
    BY <1>1, <1>2, <1>3, <1>6
  <2>2. x.graph \in GraphType
    BY <1>1, <1>4, <1>6, <2>1, WorldParts DEF GraphType
  <2> QED
    BY <1>1, <1>4, <1>5, <1>6, <2>2, WorldParts DEF WorldType
<1>8. x.graph.rits[i] = r /\ RitOK(r, x.jobs, x.disk) /\ r.spec = q.spec
      /\ Rank(q.status) < Rank(r.status)
  <2>1. Rank(q.status) < Rank(r.status)
    BY <1>1, <1>3 DEF Rank
  <2>2. RitOK(r, x.jobs, x.disk)
    BY <1>3, <1>5 DEF RitOK
  <2> QED
    BY <1>1, <1>6, <2>1, <2>2
<1>9. Claimed(w.graph) \subseteq Claimed(x.graph)
  <2>1. \A s : Rank(s) \in 0..2
    BY DEF Rank
  <2>2. \A k \in DOMAIN w.graph.rits : k # i => x.graph.rits[k] = w.graph.rits[k]
    BY <1>6
  <2>3. Follows(x.graph, w.graph)
    BY <1>1, <1>6, <1>8, <2>1, <2>2 DEF Follows
  <2> QED
    BY <1>1, <2>3, ClaimedKept
<1>10. Unique(x.graph, x.jobs)
  BY <1>6, <1>9, UniqueStays
<1>11. \A j \in DOMAIN w.jobs : x.jobs[j] = w.jobs[j]
  BY <1>6
<1>12. Len(w.jobs) <= Len(x.jobs)
  BY <1>1, <1>6, WorldParts
<1> HIDE DEF r
<1>13. WorldOK(x) /\ Later(x, w, step)
  BY <1>1, <1>3, <1>5, <1>6, <1>7, <1>8, <1>10, <1>11, <1>12, Revision
<1>14. x.graph.rits[i].status \in {"resolved", "failed"}
  BY <1>3, <1>8 DEF r
<1> QED
  BY <1>6, <1>13, <1>14 DEF x

\* A poll settles the resource whose job answers, and touches nothing else.
LEMMA PollStep ==
    ASSUME NEW w, WorldOK(w), NEW i, NEW silent, NEW step
    PROVE  /\ WorldOK(Poll(w, i, silent)) /\ Later(Poll(w, i, silent), w, step)
           /\ Poll(w, i, silent).jobs = w.jobs
           /\ (Has(w.graph, i, "running") /\ w.graph.rits[i].job \notin silent
                  /\ w.jobs[w.graph.rits[i].job].result \in Answers)
                 => Poll(w, i, silent).graph.rits[i].status \in {"resolved", "failed"}
<1> DEFINE j == w.graph.rits[i].job
           answers == /\ Has(w.graph, i, "running") /\ j \notin silent
                      /\ w.jobs[j].result \in Answers
<1>1. CASE answers
  <2>1. Poll(w, i, silent) = Apply(w, i, w.jobs[j].result)
    BY <1>1 DEF Poll
  <2>2. Has(w.graph, i, "running") /\ w.jobs[j].result \in Answers
    BY <1>1
  <2> HIDE DEF j, answers
  <2> QED
    BY <2>1, <2>2, ApplyStep
<1>2. CASE ~answers
  <2>1. Poll(w, i, silent) = w
    BY <1>2 DEF Poll
  <2>2. w \in WorldType
    BY DEF WorldOK
  <2> QED
    BY <1>2, <2>1, <2>2, LaterRefl
<1> QED
  BY <1>1, <1>2

\* A pending resource's job is the first for its specification of those whose
\* submission stands.
LEMMA SubmitStep ==
    ASSUME NEW w, WorldOK(w), NEW i, NEW step
    PROVE  WorldOK(Submit(w, i)) /\ Later(Submit(w, i), w, step)
<1> DEFINE x == Submit(w, i)
           q == w.graph.rits[i]
           new == Len(w.jobs) + 1
           job == [spec |-> q.spec, result |-> "none"]
           r == [spec |-> q.spec, status |-> "running", job |-> new]
<1>1. w \in WorldType
  BY DEF WorldOK
<1>2. CASE ~Has(w.graph, i, "pending")
  BY <1>1, <1>2, LaterRefl DEF Submit
<1>3. CASE Has(w.graph, i, "pending")
  <2>1. i \in DOMAIN w.graph.rits /\ q.status = "pending"
    BY <1>3 DEF Has
  <2>2. /\ w.graph \in GraphType /\ w.graph.rits \in Seq(RitRecords)
        /\ q \in RitRecords /\ q.spec \in Specs
        /\ w.jobs \in Seq(JobRecords) /\ Len(w.jobs) \in Nat
        /\ DOMAIN w.jobs = 1..Len(w.jobs)
    BY <1>1, <2>1, WorldParts
  <2>3. r \in RitRecords /\ job \in JobRecords
    BY <2>2 DEF RitRecords, Statuses, JobRecords
  <2>4. x = [graph |-> [rits |-> [w.graph.rits EXCEPT ![i] = r],
                        slots |-> w.graph.slots, mood |-> w.graph.mood],
             jobs |-> Append(w.jobs, job), page |-> w.page, disk |-> w.disk]
    <3> DEFINE f == [[w.graph.rits EXCEPT ![i].status = "running"] EXCEPT ![i].job = new]
    <3>1. f = [w.graph.rits EXCEPT ![i] = r]
      <4> HIDE DEF new
      <4>1. Revise(w.graph.rits, i, "running", new) = Put(w.graph.rits, i, r)
        BY <1>1, <2>1, RevisedRits
      <4> QED
        BY <4>1 DEF Revise, Put
    <3>2. w.graph = [rits |-> w.graph.rits, slots |-> w.graph.slots, mood |-> w.graph.mood]
      BY <2>2 DEF GraphType
    <3>3. w = [graph |-> w.graph, jobs |-> w.jobs, disk |-> w.disk, page |-> w.page]
      BY <1>1 DEF WorldType
    <3> DEFINE js == Append(w.jobs, job)
               v(a) == [graph |-> [rits |-> a, slots |-> w.graph.slots, mood |-> w.graph.mood],
                        jobs |-> js, disk |-> w.disk, page |-> w.page]
               f1 == [w.graph.rits EXCEPT ![i].status = "running"]
    <3>4. x = [w EXCEPT !.jobs = js, !.graph.rits[i].status = "running",
                        !.graph.rits[i].job = new]
      BY <1>3 DEF Submit
    <3> HIDE DEF js, job, new, x
    <3>5. [w EXCEPT !.jobs = js] = v(w.graph.rits)
      BY <3>2, <3>3
    <3>6. \A a : [v(a) EXCEPT !.graph.rits[i].status = "running"]
                   = v([a EXCEPT ![i].status = "running"])
      OBVIOUS
    <3>7. \A a : [v(a) EXCEPT !.graph.rits[i].job = new] = v([a EXCEPT ![i].job = new])
      OBVIOUS
    <3> HIDE DEF v
    <3>8. [v(w.graph.rits) EXCEPT !.graph.rits[i].status = "running"] = v(f1)
      BY <3>6, Zenon
    <3>9. [v(f1) EXCEPT !.graph.rits[i].job = new] = v(f)
      BY <3>7, Zenon
    <3>10. x = v(f)
      BY <3>4, <3>5, <3>8, <3>9, Zenon
    <3> QED
      BY <3>1, <3>10 DEF v, js
  <2> HIDE DEF x
  <2>5. /\ x.graph.rits = [w.graph.rits EXCEPT ![i] = r] /\ x.graph.slots = w.graph.slots
        /\ x.graph.mood = w.graph.mood /\ x.page = w.page /\ x.disk = w.disk
        /\ x.jobs = Append(w.jobs, job)
    BY <2>4
  <2> HIDE DEF job
  <2>6. /\ x.jobs \in Seq(JobRecords) /\ Len(x.jobs) = new /\ DOMAIN x.jobs = 1..new
        /\ x.jobs[new] = job /\ \A j \in DOMAIN w.jobs : x.jobs[j] = w.jobs[j]
    BY <2>2, <2>3, <2>5, AppendProperties
  <2>7. x \in WorldType
    <3>1. x.graph.rits \in Seq(RitRecords)
      BY <2>1, <2>2, <2>3, <2>5
    <3>2. x.graph \in GraphType
      BY <1>1, <2>4, <2>5, <3>1, WorldParts DEF GraphType
    <3> QED
      BY <1>1, <2>4, <2>5, <2>6, <3>2, WorldParts DEF WorldType
  <2>8. /\ x.graph.rits[i] = r /\ r.spec = q.spec /\ Rank(q.status) < Rank(r.status)
        /\ \A k \in DOMAIN w.graph.rits : k # i => x.graph.rits[k] = w.graph.rits[k]
        /\ DOMAIN x.graph.rits = DOMAIN w.graph.rits
    BY <2>1, <2>5 DEF Rank
  <2>9. RitOK(r, x.jobs, x.disk)
    BY <2>2, <2>6 DEF RitOK, job
  <2>10. Unique(x.graph, x.jobs)
    <3>1. q.spec \notin Claimed(w.graph)
      BY <2>1 DEF Claimed, WorldOK, GraphOK
    <3>2. \A j \in DOMAIN w.jobs \ undone : x.jobs[j].spec \in Claimed(w.graph)
      BY <2>6 DEF WorldOK, Unique
    <3>3. Claimed(w.graph) \subseteq Claimed(x.graph) /\ q.spec \in Claimed(x.graph)
      <4>1. \A k \in DOMAIN w.graph.rits :
                /\ x.graph.rits[k].spec = w.graph.rits[k].spec
                /\ w.graph.rits[k].status # "pending" => x.graph.rits[k].status # "pending"
        BY <2>1, <2>8
      <4>2. Claimed(w.graph) \subseteq Claimed(x.graph)
        BY <2>8, <4>1 DEF Claimed
      <4>3. x.graph.rits[i].status # "pending" /\ x.graph.rits[i].spec = q.spec
        BY <2>8
      <4> QED
        BY <2>1, <2>8, <4>2, <4>3 DEF Claimed
    <3>4. \A j, k \in DOMAIN x.jobs \ undone : x.jobs[j].spec = x.jobs[k].spec => j = k
      <4> SUFFICES ASSUME NEW j \in DOMAIN x.jobs \ undone, NEW k \in DOMAIN x.jobs \ undone,
                          x.jobs[j].spec = x.jobs[k].spec
                   PROVE  j = k
        OBVIOUS
      <4>1. x.jobs[new].spec = q.spec
        BY <2>6 DEF job
      <4>2. CASE j \in DOMAIN w.jobs /\ k \in DOMAIN w.jobs
        BY <2>6, <4>2 DEF WorldOK, Unique
      <4>3. CASE j = new \/ k = new
        BY <2>2, <2>6, <3>1, <3>2, <4>1, <4>3
      <4> QED
        BY <2>2, <2>6, <4>2, <4>3
    <3>5. \A j \in DOMAIN x.jobs \ undone : x.jobs[j].spec \in Claimed(x.graph)
      BY <2>2, <2>6, <3>2, <3>3 DEF job
    <3> QED
      BY <3>4, <3>5 DEF Unique
  <2>11. Len(w.jobs) <= Len(x.jobs) /\ w.disk \subseteq x.disk
    BY <2>2, <2>5, <2>6
  <2> HIDE DEF r
  <2>12. WorldOK(x) /\ Later(x, w, step)
    BY <2>1, <2>3, <2>5, <2>6, <2>7, <2>8, <2>9, <2>10, <2>11, Revision
  <2> QED
    BY <2>12 DEF x
<1> QED
  BY <1>2, <1>3

\* A slot is bound for the first time.
LEMMA Binding ==
    ASSUME NEW w, WorldOK(w), NEW x \in WorldType, NEW step, NEW slot \in Slots,
           w.graph.slots[slot] = 0, NEW i \in 1..Len(x.graph.rits),
           \A s \in Slots : x.graph.slots[s] = IF s = slot THEN i ELSE w.graph.slots[s],
           x.page = w.page, x.jobs = w.jobs, w.disk \subseteq x.disk,
           Len(w.graph.rits) <= Len(x.graph.rits),
           \A k \in DOMAIN w.graph.rits : x.graph.rits[k] = w.graph.rits[k],
           \A k \in DOMAIN x.graph.rits : RitOK(x.graph.rits[k], x.jobs, x.disk),
           \A k, l \in DOMAIN x.graph.rits :
               x.graph.rits[k].spec = x.graph.rits[l].spec => k = l
    PROVE  WorldOK(x) /\ Later(x, w, step)
<1>1. w \in WorldType
  BY DEF WorldOK
<1>2. /\ Len(w.graph.rits) \in Nat /\ DOMAIN w.graph.rits = 1..Len(w.graph.rits)
      /\ Len(w.jobs) \in Nat
  BY <1>1, WorldParts
<1>3. Len(x.graph.rits) \in Nat /\ DOMAIN x.graph.rits = 1..Len(x.graph.rits)
  BY WorldParts
<1>4. GraphOK(x.graph, x.jobs, x.disk)
  <2>1. \A s \in Slots : w.graph.slots[s] \in 0..Len(w.graph.rits)
    BY DEF WorldOK, GraphOK
  <2>2. \A s \in Slots : x.graph.slots[s] \in 0..Len(x.graph.rits)
    BY <1>2, <1>3, <2>1
  <2> QED
    BY <2>2 DEF GraphOK
<1>5. Follows(x.graph, w.graph)
  <2>1. \A s : Rank(s) \in 0..2
    BY DEF Rank
  <2>2. \A k \in DOMAIN w.graph.rits : k \in DOMAIN x.graph.rits
    BY <1>2, <1>3
  <2>3. \A s \in Slots : w.graph.slots[s] # 0 => x.graph.slots[s] = w.graph.slots[s]
    OBVIOUS
  <2> QED
    BY <2>1, <2>2, <2>3 DEF Follows
<1>6. PageOK(x)
  <2>1. \A f \in x.page : f.slot \in Slots
    BY WorldParts DEF Fragments
  <2> QED
    BY <1>5, <2>1 DEF WorldOK, PageOK, Follows
<1>7. Unique(x.graph, x.jobs)
  BY <1>1, <1>5, ClaimedKept, UniqueStays
<1>8. Later(x, w, step)
  BY <1>2, <1>5 DEF Later
<1> QED
  BY <1>4, <1>6, <1>7, <1>8 DEF WorldOK

\* What a slot asks for, in the mood the story is in.
LEMMA AdaptedSpec ==
    ASSUME NEW w \in WorldType, NEW slot \in Slots
    PROVE  Adapted[slot][w.graph.mood] \in Specs
BY WorldParts DEF Specs

\* A new resource is the only one for its specification.
LEMMA CreateStep ==
    ASSUME NEW w, WorldOK(w), NEW slot \in Slots, NEW step,
           w.graph.slots[slot] = 0, NEW spec \in Specs, Asked(w.graph, spec) = {}
    PROVE  /\ WorldOK(Create(w, slot, spec)) /\ Later(Create(w, slot, spec), w, step)
           /\ Create(w, slot, spec).jobs = w.jobs
<1> DEFINE x == Create(w, slot, spec)
           n == Len(w.graph.rits) + 1
           r == [spec |-> spec, status |-> IF spec \in Sync THEN "resolved" ELSE "pending",
                 job |-> 0]
           d == IF spec \in Sync THEN Write(w.disk, spec) ELSE w.disk
<1>1. w \in WorldType
  BY DEF WorldOK
<1>2. /\ w.graph \in GraphType /\ w.graph.rits \in Seq(RitRecords)
      /\ w.graph.slots \in [Slots -> Nat] /\ w.disk \subseteq Entries
      /\ Len(w.graph.rits) \in Nat /\ DOMAIN w.graph.rits = 1..Len(w.graph.rits)
  BY <1>1, WorldParts
<1>3. r \in RitRecords
  BY DEF RitRecords, Statuses
<1>4. x = [graph |-> [rits |-> Append(w.graph.rits, r),
                      slots |-> [w.graph.slots EXCEPT ![slot] = n], mood |-> w.graph.mood],
           jobs |-> w.jobs, page |-> w.page, disk |-> d]
  <2>1. w.graph = [rits |-> w.graph.rits, slots |-> w.graph.slots, mood |-> w.graph.mood]
    BY <1>2 DEF GraphType
  <2>2. w = [graph |-> w.graph, jobs |-> w.jobs, disk |-> w.disk, page |-> w.page]
    BY <1>1 DEF WorldType
  <2>3. New(w.graph, slot, r) = [rits |-> Append(w.graph.rits, r),
             slots |-> [w.graph.slots EXCEPT ![slot] = n], mood |-> w.graph.mood]
    <3> HIDE DEF r
    <3> DEFINE rits == Append(w.graph.rits, r)
    <3>1. New(w.graph, slot, r) = [[w.graph EXCEPT !.rits = rits] EXCEPT !.slots[slot] = n]
      BY DEF New
    <3> HIDE DEF rits, n
    <3>2. [w.graph EXCEPT !.rits = rits]
             = [rits |-> rits, slots |-> w.graph.slots, mood |-> w.graph.mood]
      BY <2>1
    <3>3. [[rits |-> rits, slots |-> w.graph.slots, mood |-> w.graph.mood]
                EXCEPT !.slots[slot] = n]
             = [rits |-> rits, slots |-> [w.graph.slots EXCEPT ![slot] = n],
                mood |-> w.graph.mood]
      OBVIOUS
    <3>4. New(w.graph, slot, r)
             = [rits |-> rits, slots |-> [w.graph.slots EXCEPT ![slot] = n],
                mood |-> w.graph.mood]
      BY <3>1, <3>2, <3>3, Zenon
    <3> QED
      BY <3>4 DEF rits
  <2>4. x = [w EXCEPT !.graph = New(@, slot, r), !.disk = d]
    <3>1. CASE spec \in Sync
      BY <2>2, <3>1 DEF Create
    <3>2. CASE spec \notin Sync
      BY <2>2, <3>2 DEF Create
    <3> QED
      BY <3>1, <3>2
  <2> HIDE DEF d, r, x
  <2> QED
    BY <2>2, <2>3, <2>4
<1> HIDE DEF x
<1>5. /\ x.graph.rits = Append(w.graph.rits, r) /\ x.graph.mood = w.graph.mood
      /\ x.graph.slots = [w.graph.slots EXCEPT ![slot] = n]
      /\ x.page = w.page /\ x.jobs = w.jobs /\ x.disk = d
  BY <1>4
<1>6. /\ w.disk \subseteq d /\ d \subseteq Entries
      /\ spec \in Sync => <<File(spec), spec>> \in d
  BY <1>2, WriteKeeps
<1> HIDE DEF r, d
<1>7. /\ x.graph.rits \in Seq(RitRecords) /\ Len(x.graph.rits) = n
      /\ DOMAIN x.graph.rits = 1..n /\ x.graph.rits[n] = r
      /\ \A k \in DOMAIN w.graph.rits : x.graph.rits[k] = w.graph.rits[k]
  BY <1>2, <1>3, <1>5, AppendProperties
<1>8. x \in WorldType
  <2>1. x.graph.slots \in [Slots -> Nat]
    BY <1>2, <1>5
  <2>2. x.graph \in GraphType
    BY <1>1, <1>4, <1>5, <1>7, <2>1, WorldParts DEF GraphType
  <2> QED
    BY <1>1, <1>4, <1>5, <1>6, <2>2, WorldParts DEF WorldType
<1>9. ASSUME NEW k \in DOMAIN x.graph.rits
      PROVE  RitOK(x.graph.rits[k], x.jobs, x.disk)
  <2>1. CASE k \in DOMAIN w.graph.rits
    <3>1. RitOK(w.graph.rits[k], w.jobs, w.disk)
      BY <2>1 DEF WorldOK, GraphOK
    <3>2. x.graph.rits[k] = w.graph.rits[k] /\ x.jobs = w.jobs /\ w.disk \subseteq x.disk
      BY <1>5, <1>6, <1>7, <2>1
    <3>3. RitOK(w.graph.rits[k], x.jobs, x.disk)
      BY <3>1, <3>2 DEF RitOK
    <3> QED
      BY <3>2, <3>3
  <2>2. CASE k = n
    <3>1. /\ r.spec = spec /\ r.job = 0 /\ r.status \in {"resolved", "pending"}
          /\ r.status = "resolved" => spec \in Sync
      BY DEF r
    <3>2. x.graph.rits[k] = r /\ x.disk = d
      BY <1>5, <1>7, <2>2
    <3>3. RitOK(r, x.jobs, d)
      BY <1>6, <3>1 DEF RitOK
    <3> QED
      BY <3>2, <3>3
  <2>3. k \in DOMAIN w.graph.rits \/ k = n
    BY <1>2, <1>7
  <2> QED
    BY <2>1, <2>2, <2>3
<1>10. \A k, l \in DOMAIN x.graph.rits :
           x.graph.rits[k].spec = x.graph.rits[l].spec => k = l
  <2>1. \A k \in DOMAIN w.graph.rits : x.graph.rits[k].spec # spec
    BY <1>7 DEF Asked
  <2>2. x.graph.rits[n].spec = spec
    BY <1>7 DEF r
  <2>3. \A k, l \in DOMAIN w.graph.rits :
           x.graph.rits[k].spec = x.graph.rits[l].spec => k = l
    BY <1>7 DEF WorldOK, GraphOK
  <2>4. \A k \in DOMAIN x.graph.rits : k \in DOMAIN w.graph.rits \/ k = n
    BY <1>2, <1>7
  <2> QED
    BY <2>1, <2>2, <2>3, <2>4
<1>11. \A s \in Slots : x.graph.slots[s] = IF s = slot THEN n ELSE w.graph.slots[s]
  BY <1>2, <1>5
<1>12. /\ n \in 1..Len(x.graph.rits) /\ Len(w.graph.rits) <= Len(x.graph.rits)
       /\ w.disk \subseteq x.disk
       /\ x.page = w.page /\ x.jobs = w.jobs
       /\ \A k \in DOMAIN w.graph.rits : x.graph.rits[k] = w.graph.rits[k]
       /\ \A k \in DOMAIN x.graph.rits : RitOK(x.graph.rits[k], x.jobs, x.disk)
  BY <1>2, <1>5, <1>6, <1>7, <1>9
<1> HIDE DEF n
<1>13. WorldOK(x) /\ Later(x, w, step)
  BY <1>8, <1>10, <1>11, <1>12, Binding
<1> QED
  BY <1>5, <1>13 DEF x

\* A slot is bound once, to what the graph has for its specification.
LEMMA ResolveStep ==
    ASSUME NEW w, WorldOK(w), NEW slot \in Slots, NEW step
    PROVE  /\ WorldOK(Resolve(w, slot)) /\ Later(Resolve(w, slot), w, step)
           /\ Resolve(w, slot).jobs = w.jobs
<1> DEFINE x == Resolve(w, slot)
           spec == Adapted[slot][w.graph.mood]
           old == Asked(w.graph, spec)
<1>1. w \in WorldType
  BY DEF WorldOK
<1>2. spec \in Specs
  BY <1>1, AdaptedSpec
<1>3. /\ w.graph \in GraphType /\ w.graph.slots \in [Slots -> Nat]
      /\ Len(w.graph.rits) \in Nat /\ DOMAIN w.graph.rits = 1..Len(w.graph.rits)
  BY <1>1, WorldParts
<1>4. CASE w.graph.slots[slot] # 0
  <2>1. x = w
    BY <1>4 DEF Resolve
  <2> QED
    BY <1>1, <2>1, LaterRefl
<1>5. CASE w.graph.slots[slot] = 0 /\ old = {}
  <2>1. x = Create(w, slot, spec)
    BY <1>5 DEF Resolve
  <2> HIDE DEF x, spec
  <2> QED
    BY <1>2, <1>5, <2>1, CreateStep DEF x
<1>6. CASE w.graph.slots[slot] = 0 /\ old # {}
  <2> DEFINE i == Min(old)
  <2>1. i \in 1..Len(w.graph.rits)
    <3>1. old \in SUBSET Nat /\ old \subseteq 1..Len(w.graph.rits)
      BY <1>3 DEF Asked
    <3>2. \E k \in old : \A l \in old : k <= l
      <4> HIDE DEF old
      <4> QED
        BY <1>6, <3>1, NatMin
    <3>3. i \in old
      <4> HIDE DEF old
      <4> QED
        BY <3>2 DEF Min
    <3> QED
      BY <3>1, <3>3
  <2>2. x = [graph |-> [rits |-> w.graph.rits,
                        slots |-> [w.graph.slots EXCEPT ![slot] = i], mood |-> w.graph.mood],
             jobs |-> w.jobs, page |-> w.page, disk |-> w.disk]
    <3>1. w.graph = [rits |-> w.graph.rits, slots |-> w.graph.slots, mood |-> w.graph.mood]
      BY <1>3 DEF GraphType
    <3>2. w = [graph |-> w.graph, jobs |-> w.jobs, disk |-> w.disk, page |-> w.page]
      BY <1>1 DEF WorldType
    <3>3. x = [w EXCEPT !.graph.slots[slot] = i]
      BY <1>6 DEF Resolve
    <3> HIDE DEF x, i
    <3> QED
      BY <3>1, <3>2, <3>3
  <2> HIDE DEF x, i
  <2>3. /\ x.graph.rits = w.graph.rits /\ x.graph.mood = w.graph.mood
        /\ x.graph.slots = [w.graph.slots EXCEPT ![slot] = i]
        /\ x.page = w.page /\ x.jobs = w.jobs /\ x.disk = w.disk
    BY <2>2
  <2>4. x \in WorldType
    <3>1. x.graph.slots \in [Slots -> Nat]
      BY <1>3, <2>1, <2>3
    <3>2. x.graph \in GraphType
      BY <1>1, <2>2, <2>3, <3>1, WorldParts DEF GraphType
    <3> QED
      BY <1>1, <2>2, <2>3, <3>2, WorldParts DEF WorldType
  <2>5. \A s \in Slots : x.graph.slots[s] = IF s = slot THEN i ELSE w.graph.slots[s]
    BY <1>3, <2>3
  <2>6. /\ i \in 1..Len(x.graph.rits) /\ Len(w.graph.rits) <= Len(x.graph.rits)
        /\ w.disk \subseteq x.disk
        /\ \A k \in DOMAIN w.graph.rits : x.graph.rits[k] = w.graph.rits[k]
    BY <1>3, <2>1, <2>3
  <2>7. /\ \A k \in DOMAIN x.graph.rits : RitOK(x.graph.rits[k], x.jobs, x.disk)
        /\ \A k, l \in DOMAIN x.graph.rits :
               x.graph.rits[k].spec = x.graph.rits[l].spec => k = l
    BY <2>3 DEF WorldOK, GraphOK
  <2>8. WorldOK(x) /\ Later(x, w, step)
    BY <1>6, <2>3, <2>4, <2>5, <2>6, <2>7, Binding
  <2> QED
    BY <2>3, <2>8 DEF x
<1> QED
  BY <1>4, <1>5, <1>6

\* A visit leaves a mood.
LEMMA UpdateStep ==
    ASSUME NEW w, WorldOK(w), NEW n \in Blocks, NEW step
    PROVE  /\ WorldOK(Update(w, n)) /\ Later(Update(w, n), w, step)
           /\ Update(w, n).jobs = w.jobs
<1> DEFINE x == Update(w, n)
<1>1. w \in WorldType /\ w.graph \in GraphType
  BY WorldParts DEF WorldOK
<1>2. x = [graph |-> [rits |-> w.graph.rits, slots |-> w.graph.slots, mood |-> Effect[n]],
           jobs |-> w.jobs, page |-> w.page, disk |-> w.disk]
  <2>1. w.graph = [rits |-> w.graph.rits, slots |-> w.graph.slots, mood |-> w.graph.mood]
    BY <1>1 DEF GraphType
  <2>2. w = [graph |-> w.graph, jobs |-> w.jobs, disk |-> w.disk, page |-> w.page]
    BY <1>1 DEF WorldType
  <2> QED
    BY <2>1, <2>2 DEF Update
<1>3. Effect[n] \in Moods
  BY DEF Moods
<1> HIDE DEF x
<1>4. /\ x.graph.rits = w.graph.rits /\ x.graph.slots = w.graph.slots
      /\ x.page = w.page /\ x.jobs = w.jobs /\ x.disk = w.disk
  BY <1>2
<1>5. x \in WorldType
  <2>1. x.graph \in GraphType
    BY <1>1, <1>2, <1>3, WorldParts DEF GraphType
  <2> QED
    BY <1>1, <1>2, <1>4, <2>1, WorldParts DEF WorldType
<1>6. Unique(x.graph, x.jobs)
  BY <1>4 DEF WorldOK, Unique, Claimed
<1>7. GraphOK(x.graph, x.jobs, x.disk) /\ PageOK(x)
  BY <1>4 DEF WorldOK, GraphOK, PageOK
<1>8. Later(x, w, step)
  <2>1. Later(w, w, step)
    BY <1>1, LaterRefl
  <2> QED
    BY <1>4, <2>1 DEF Later, Follows, Has
<1> QED
  BY <1>4, <1>5, <1>6, <1>7, <1>8 DEF WorldOK, x

\* The journal shows what the slots of the block are bound to.
LEMMA JournalStep ==
    ASSUME NEW w, WorldOK(w), NEW n \in Blocks, NEW step \in Nat
    PROVE  /\ WorldOK(Journal(w, n, step)) /\ Later(Journal(w, n, step), w, step)
           /\ Journal(w, n, step).jobs = w.jobs
<1> DEFINE x == Journal(w, n, step)
           shown == {t \in ToSet(Media[n]) : w.graph.slots[t] # 0}
           new == {[step |-> step, slot |-> s, rit |-> w.graph.slots[s], was |-> << >>] :
                      s \in shown}
<1>1. w \in WorldType
  BY DEF WorldOK
<1>2. shown \subseteq Slots
  <2>1. Media[n] \in Seq(Slots)
    BY MediaAssumption
  <2> QED
    BY <2>1 DEF ToSet
<1>3. new \subseteq Fragments
  <2>1. << >> \in Seq(RitRecords) /\ \A s \in Slots : w.graph.slots[s] \in Nat
    BY <1>1, WorldParts
  <2>2. ASSUME NEW s \in Slots
        PROVE  [step |-> step, slot |-> s, rit |-> w.graph.slots[s], was |-> << >>] \in Fragments
    BY <2>1 DEF Fragments
  <2> QED
    BY <1>2, <2>2
<1>4. x = [graph |-> w.graph, jobs |-> w.jobs, page |-> w.page \cup new, disk |-> w.disk]
  <2>1. w = [graph |-> w.graph, jobs |-> w.jobs, disk |-> w.disk, page |-> w.page]
    BY <1>1 DEF WorldType
  <2>2. x = [w EXCEPT !.page = @ \cup new]
    BY DEF Journal
  <2> HIDE DEF new, x
  <2> QED
    BY <2>1, <2>2
<1> HIDE DEF x
<1>5. /\ x.graph = w.graph /\ x.page = w.page \cup new /\ x.jobs = w.jobs
      /\ x.disk = w.disk
  BY <1>4
<1>6. x \in WorldType
  BY <1>1, <1>3, <1>4, WorldParts DEF WorldType
<1>7. PageOK(x)
  <2>1. \A f \in new : f.rit # 0 /\ w.graph.slots[f.slot] = f.rit /\ f.was = << >>
    OBVIOUS
  <2> HIDE DEF new
  <2> QED
    BY <1>5, <2>1 DEF WorldOK, PageOK
<1>8. Later(x, w, step)
  <2>1. Later(w, w, step)
    BY <1>1, LaterRefl
  <2>2. \A f \in new : f.step = step
    OBVIOUS
  <2> HIDE DEF new
  <2> QED
    BY <1>5, <2>1, <2>2 DEF Later
<1> QED
  BY <1>5, <1>6, <1>7, <1>8 DEF WorldOK, x

Quiet == {op \in Ops : op.do # "submit"}

\* Every step of a hop leads to a later world that is sound.
LEMMA StepStep ==
    ASSUME NEW w, WorldOK(w), NEW op \in Ops, NEW n \in Blocks, NEW step \in Nat, NEW silent
    PROVE  /\ WorldOK(Step(w, op, n, step, silent))
           /\ Later(Step(w, op, n, step, silent), w, step)
           /\ op \in Quiet => Step(w, op, n, step, silent).jobs = w.jobs
<1>1. CASE op.do = "poll"
  <2>1. Step(w, op, n, step, silent) = Poll(w, op.of, silent)
    BY <1>1 DEF Step
  <2>2. /\ WorldOK(Poll(w, op.of, silent)) /\ Later(Poll(w, op.of, silent), w, step)
        /\ Poll(w, op.of, silent).jobs = w.jobs
    BY PollStep
  <2> QED
    BY <2>1, <2>2
<1>2. CASE op.do = "resolve"
  <2>1. Step(w, op, n, step, silent) = Resolve(w, op.of) /\ op.of \in Slots
    BY <1>2 DEF Step, Ops
  <2> QED
    BY <2>1, ResolveStep
<1>3. CASE op.do = "submit"
  <2>1. Step(w, op, n, step, silent) = Submit(w, op.of) /\ op \notin Quiet
    BY <1>3 DEF Step, Quiet
  <2> QED
    BY <2>1, SubmitStep
<1>4. CASE op.do = "update"
  <2>1. Step(w, op, n, step, silent) = Update(w, n)
    BY <1>4 DEF Step
  <2> QED
    BY <2>1, UpdateStep
<1>5. CASE op.do = "journal"
  <2>1. Step(w, op, n, step, silent) = Journal(w, n, step)
    BY <1>5 DEF Step
  <2> QED
    BY <2>1, JournalStep
<1> QED
  BY <1>1, <1>2, <1>3, <1>4, <1>5 DEF Ops

\* So does every course, wherever it stops, and one without submissions leaves
\* the jobs alone.
LEMMA CourseOK ==
    ASSUME NEW w, WorldOK(w), NEW ops \in Seq(Ops), NEW n \in Blocks, NEW step \in Nat,
           NEW silent
    PROVE  \A k \in 0..Len(ops) :
              /\ WorldOK(Course(w, ops, n, step, silent)[k])
              /\ Later(Course(w, ops, n, step, silent)[k], w, step)
              /\ ops \in Seq(Quiet) => Course(w, ops, n, step, silent)[k].jobs = w.jobs
<1> DEFINE c == Course(w, ops, n, step, silent)
           T == {k \in 0..Len(ops) : /\ WorldOK(c[k]) /\ Later(c[k], w, step)
                                     /\ ops \in Seq(Quiet) => c[k].jobs = w.jobs}
<1>1. Len(ops) \in Nat /\ \A k \in 1..Len(ops) : ops[k] \in Ops
  BY LenProperties, ElementOfSeq
<1>2. /\ c[0] = w
      /\ \A k \in 1..Len(ops) : c[k] = Step(c[k - 1], ops[k], n, step, silent)
  BY <1>1, CourseSteps
<1>3. 0 \in T
  BY <1>1, <1>2, LaterRefl DEF WorldOK
<1>4. ASSUME NEW k \in 1..Len(ops), k - 1 \in T PROVE k \in T
  <2> DEFINE v == c[k - 1]
             x == c[k]
  <2>1. WorldOK(v) /\ Later(v, w, step) /\ (ops \in Seq(Quiet) => v.jobs = w.jobs)
    BY <1>4
  <2>2. x = Step(v, ops[k], n, step, silent) /\ ops[k] \in Ops
    BY <1>1, <1>2
  <2>3. ops \in Seq(Quiet) => ops[k] \in Quiet
    BY <1>1, ElementOfSeq
  <2> HIDE DEF v, x, c
  <2>4. WorldOK(x) /\ Later(x, v, step) /\ (ops[k] \in Quiet => x.jobs = v.jobs)
    BY <2>1, <2>2, StepStep
  <2>5. Later(x, w, step)
    BY <2>1, <2>4, LaterTrans DEF WorldOK
  <2>6. /\ WorldOK(x) /\ Later(x, w, step) /\ (ops \in Seq(Quiet) => x.jobs = w.jobs)
        /\ k \in 0..Len(ops)
    BY <1>1, <2>1, <2>3, <2>4, <2>5
  <2> QED
    BY <2>6 DEF x
<1>5. \A k \in 1..Len(ops) : k - 1 \in T => k \in T
  BY <1>4
<1> HIDE DEF T
<1>6. \A k \in 0..Len(ops) : k \in T
  BY <1>1, <1>3, <1>5, UpToAll
<1> QED
  BY <1>6 DEF T

\* A world of a course is no earlier than the ones before it.
LEMMA CourseLater ==
    ASSUME NEW w, WorldOK(w), NEW ops \in Seq(Ops), NEW n \in Blocks, NEW step \in Nat,
           NEW silent, NEW l \in 0..Len(ops)
    PROVE  Later(Course(w, ops, n, step, silent)[Len(ops)],
                 Course(w, ops, n, step, silent)[l], step)
<1> DEFINE c == Course(w, ops, n, step, silent)
           T == {k \in 0..Len(ops) : k < l \/ Later(c[k], c[l], step)}
<1>1. Len(ops) \in Nat /\ \A k \in 1..Len(ops) : ops[k] \in Ops
  BY LenProperties, ElementOfSeq
<1>2. \A k \in 1..Len(ops) : c[k] = Step(c[k - 1], ops[k], n, step, silent)
  BY <1>1, CourseSteps
<1>3. \A k \in 0..Len(ops) : WorldOK(c[k])
  BY CourseOK
<1> HIDE DEF c
<1>4. \A k \in 0..Len(ops) : k = l => Later(c[k], c[l], step)
  BY <1>3, LaterRefl DEF WorldOK
<1>5. 0 \in T
  BY <1>1, <1>4
<1>6. ASSUME NEW k \in 1..Len(ops), k - 1 \in T PROVE k \in T
  <2>1. CASE k - 1 < l
    BY <1>1, <1>4, <2>1
  <2>2. CASE ~(k - 1 < l)
    <3> DEFINE v == c[k - 1]
               x == c[k]
               u == c[l]
    <3>1. WorldOK(v) /\ WorldOK(x) /\ WorldOK(u) /\ Later(v, u, step)
      BY <1>1, <1>3, <1>6, <2>2
    <3>2. x = Step(v, ops[k], n, step, silent) /\ ops[k] \in Ops
      BY <1>1, <1>2
    <3> HIDE DEF v, x, u
    <3>3. Later(x, v, step)
      BY <3>1, <3>2, StepStep
    <3>4. Later(x, u, step) /\ k \in 0..Len(ops)
      BY <1>1, <3>1, <3>3, LaterTrans DEF WorldOK
    <3> QED
      BY <3>4 DEF x, u
  <2> QED
    BY <2>1, <2>2
<1>7. \A k \in 1..Len(ops) : k - 1 \in T => k \in T
  BY <1>6
<1> HIDE DEF T
<1>8. \A k \in 0..Len(ops) : k \in T
  BY <1>1, <1>5, <1>7, UpToAll
<1>9. Len(ops) \in T /\ ~(Len(ops) < l)
  BY <1>1, <1>8
<1> QED
  BY <1>9 DEF T, c

-----------------------------------------------------------------------------
(* Hops.                                                                   *)

\* The same is done of each.
LEMMA EachDo ==
    ASSUME NEW S, NEW of \in Seq(S), NEW do, NEW O, \A a \in S : [do |-> do, of |-> a] \in O
    PROVE  /\ Each(do, of) \in Seq(O) /\ Len(Each(do, of)) = Len(of)
           /\ \A k \in 1..Len(of) : Each(do, of)[k] = [do |-> do, of |-> of[k]]
<1>1. Len(of) \in Nat /\ DOMAIN of = 1..Len(of) /\ \A k \in 1..Len(of) : of[k] \in S
  BY LenProperties, ElementOfSeq
<1>2. Each(do, of) = [k \in 1..Len(of) |-> [do |-> do, of |-> of[k]]]
  BY <1>1 DEF Each
<1>3. \A k \in 1..Len(of) : [do |-> do, of |-> of[k]] \in O
  BY <1>1
<1> QED
  BY <1>1, <1>2, <1>3

\* The slots of the successors of a block.
LEMMA AroundSlots ==
    ASSUME NEW n \in Blocks
    PROVE  Around(n) \in Seq(Slots)
<1> DEFINE K == Len(Exits[n])
           More(a, k) == a \o Media[Exits[n][k]]
           F(f, m) == f = [k \in 0..m |->
                 IF k = 0 THEN << >> ELSE More(f[k - 1], k)]
           T == {m \in Nat : \E f : F(f, m)}
<1>1. /\ K \in Nat /\ \A k \in 1..K : Media[Exits[n][k]] \in Seq(Slots)
  <2>1. Exits[n] \in Seq(Blocks) /\ Media \in [Blocks -> Seq(Slots)]
    BY MediaAssumption
  <2>2. K \in Nat /\ \A k \in 1..K : Exits[n][k] \in Blocks
    BY <2>1, LenProperties, ElementOfSeq
  <2> QED
    BY <2>1, <2>2
<1> HIDE DEF K, More
<1>2. 0 \in T
  <2>1. F([k \in 0..0 |-> << >>], 0)
    OBVIOUS
  <2> QED
    BY <2>1
<1>3. ASSUME NEW m \in 1..K, m - 1 \in T PROVE m \in T
  <2>1. PICK g : F(g, m - 1)
    BY <1>3
  <2> DEFINE f == [k \in 0..m |-> IF k < m THEN g[k] ELSE More(g[m - 1], m)]
  <2>2. ASSUME NEW k \in 0..m
        PROVE  f[k] = IF k = 0 THEN << >> ELSE More(f[k - 1], k)
    <3>1. CASE k = 0
      BY <2>1, <3>1
    <3>2. CASE k \in 1..(m - 1)
      <4>1. g[k] = More(g[k - 1], k)
        BY <2>1, <3>2
      <4> QED
        BY <3>2, <4>1
    <3>3. CASE k = m
      BY <3>3
    <3> QED
      BY <3>1, <3>2, <3>3
  <2>3. F(f, m)
    BY <2>2
  <2> HIDE DEF f
  <2>4. m \in Nat /\ \E h : F(h, m)
    BY <2>3
  <2> QED
    BY <2>4
<1>4. \E f : F(f, K)
  <2> HIDE DEF T
  <2>1. \A m \in 1..K : m - 1 \in T => m \in T
    BY <1>3
  <2>2. \A m \in 0..K : m \in T
    BY <1>1, <1>2, <2>1, UpToAll
  <2>3. K \in T
    BY <1>1, <2>2
  <2> QED
    BY <2>3 DEF T
<1>5. PICK f : F(f, K) /\ Around(n) = f[K]
  <2> DEFINE u == CHOOSE f : F(f, K)
  <2>1. F(u, K)
    BY <1>4
  <2>2. Around(n) = u[K]
    BY DEF Around, K, More
  <2> HIDE DEF u
  <2> QED
    BY <2>1, <2>2
<1> DEFINE V == {k \in 0..K : f[k] \in Seq(Slots)}
<1>6. f[0] = << >> /\ \A k \in 1..K : f[k] = More(f[k - 1], k)
  BY <1>1, <1>5
<1>7. ASSUME NEW k \in 1..K, NEW a \in Seq(Slots) PROVE More(a, k) \in Seq(Slots)
  <2>1. Media[Exits[n][k]] \in Seq(Slots)
    BY <1>1
  <2> QED
    BY <2>1, ConcatProperties DEF More
<1> HIDE DEF F
<1>8. f[0] \in Seq(Slots)
  <2>1. << >> \in Seq(Slots) /\ f[0] = << >>
    BY <1>6
  <2> QED
    BY <2>1
<1>9. 0 \in V
  BY <1>1, <1>8
<1>10. \A k \in 1..K : k - 1 \in V => k \in V
  BY <1>1, <1>6, <1>7
<1> HIDE DEF V
<1>11. \A k \in 0..K : k \in V
  BY <1>1, <1>9, <1>10, UpToAll
<1> QED
  BY <1>1, <1>5, <1>11 DEF V

\* A hop is a sequence of steps; without a dispatcher none is a submission, and
\* with one each resource is polled.
LEMMA HopOps ==
    ASSUME NEW n \in Blocks, NEW dispatcher \in BOOLEAN
    PROVE  /\ Hop(n, dispatcher) \in Seq(Ops)
           /\ ~dispatcher => Hop(n, dispatcher) \in Seq(Quiet)
           /\ dispatcher => \A i \in Rits : /\ i \in 1..Len(Hop(n, dispatcher))
                                            /\ Hop(n, dispatcher)[i] = [do |-> "poll", of |-> i]
<1> DEFINE polls == Each("poll", EveryRit)
           binds == Each("resolve", Media[n])
           submits == Each("submit", EveryRit)
           ahead == Each("resolve", Around(n))
           end == <<[do |-> "update", of |-> 0], [do |-> "journal", of |-> 0]>>
<1>1. EveryRit \in Seq(Rits) /\ Len(EveryRit) = Cardinality(Specs) /\ Cardinality(Specs) \in Nat
      /\ \A i \in Rits : EveryRit[i] = i
  <2>1. Cardinality(Specs) \in Nat
    BY MediaAssumption, FS_CardinalityType
  <2> QED
    BY <2>1 DEF EveryRit, Rits
<1>2. Media[n] \in Seq(Slots) /\ Around(n) \in Seq(Slots)
  BY MediaAssumption, AroundSlots
<1>3. /\ \A i \in Rits : [do |-> "poll", of |-> i] \in Quiet
      /\ \A i \in Rits : [do |-> "submit", of |-> i] \in Ops
      /\ \A s \in Slots : [do |-> "resolve", of |-> s] \in Quiet
      /\ Quiet \subseteq Ops
  BY DEF Quiet, Ops
<1>4. /\ polls \in Seq(Quiet) /\ Len(polls) = Cardinality(Specs)
      /\ \A i \in Rits : polls[i] = [do |-> "poll", of |-> i]
  BY <1>1, <1>3, EachDo DEF Rits
<1>5. submits \in Seq(Ops)
  BY <1>1, <1>3, EachDo
<1>6. binds \in Seq(Quiet) /\ ahead \in Seq(Quiet)
  BY <1>2, <1>3, EachDo
<1>7. end \in Seq(Quiet)
  BY DEF Quiet, Ops
<1>8. \A s : s \in Seq(Quiet) => s \in Seq(Ops)
  BY <1>3
<1> HIDE DEF polls, binds, submits, ahead, end
<1>9. CASE ~dispatcher
  <2>1. Hop(n, dispatcher) = ((((<< >> \o binds) \o << >>) \o ahead) \o end)
    BY <1>9 DEF Hop, binds, ahead, end
  <2>2. Hop(n, dispatcher) \in Seq(Quiet)
    BY <1>6, <1>7, <2>1, ConcatProperties
  <2> QED
    BY <1>8, <1>9, <2>2
<1>10. CASE dispatcher
  <2>1. Hop(n, dispatcher) = ((((polls \o binds) \o submits) \o ahead) \o end)
    BY <1>10 DEF Hop, polls, submits, binds, ahead, end
  <2>2. polls \in Seq(Ops) /\ binds \in Seq(Ops) /\ ahead \in Seq(Ops) /\ end \in Seq(Ops)
    BY <1>4, <1>6, <1>7, <1>8
  <2> DEFINE a == polls \o binds
             b == a \o submits
             c == b \o ahead
             e == c \o end
  <2>3. ASSUME NEW s \in Seq(Ops), NEW t \in Seq(Ops)
        PROVE  /\ s \o t \in Seq(Ops) /\ Len(s \o t) = Len(s) + Len(t)
               /\ Len(s) \in Nat /\ Len(t) \in Nat
               /\ \A i \in 1..Len(s) : (s \o t)[i] = s[i]
    BY ConcatProperties
  <2> HIDE DEF Ops
  <2>4. /\ a \in Seq(Ops) /\ Len(polls) <= Len(a) /\ \A i \in 1..Len(polls) : a[i] = polls[i]
        /\ Len(a) \in Nat
    BY <2>2, <2>3
  <2> HIDE DEF a
  <2>5. /\ b \in Seq(Ops) /\ Len(polls) <= Len(b) /\ \A i \in 1..Len(polls) : b[i] = polls[i]
        /\ Len(b) \in Nat
    BY <1>1, <1>4, <1>5, <2>3, <2>4
  <2> HIDE DEF b
  <2>6. /\ c \in Seq(Ops) /\ Len(polls) <= Len(c) /\ \A i \in 1..Len(polls) : c[i] = polls[i]
        /\ Len(c) \in Nat
    BY <1>1, <1>4, <2>2, <2>3, <2>5
  <2> HIDE DEF c
  <2>7. /\ e \in Seq(Ops) /\ Len(polls) <= Len(e) /\ \A i \in 1..Len(polls) : e[i] = polls[i]
        /\ Len(e) \in Nat
    BY <1>1, <1>4, <2>2, <2>3, <2>6
  <2>8. Hop(n, dispatcher) = e
    BY <2>1 DEF a, b, c
  <2> HIDE DEF e
  <2> QED
    <3>1. \A i \in Rits : i \in 1..Len(polls) /\ i \in 1..Len(e)
      BY <1>1, <1>4, <2>7 DEF Rits
    <3>2. \A i \in Rits : e[i] = [do |-> "poll", of |-> i]
      BY <1>4, <2>7, <3>1
    <3> QED
      BY <1>10, <2>7, <2>8, <3>1, <3>2
<1> QED
  BY <1>9, <1>10

\* A world in which the graph need not know every job: its resources and the
\* page are in order, and of the jobs it does know no two are for the same.
Sound(w) ==
    /\ w \in WorldType
    /\ GraphOK(w.graph, w.jobs, w.disk)
    /\ PageOK(w)
    /\ \A j, k \in DOMAIN w.jobs \ undone :
          w.jobs[j].spec = w.jobs[k].spec /\ w.jobs[j].spec \in Claimed(w.graph) => j = k

\* A job that was taken without an answer is one the graph knows nothing of.
LEMMA TakenOK ==
    ASSUME NEW w, WorldOK(w), NEW i, NEW step \in Nat
    PROVE  Sound(Taken(w, i)) /\ Later(Taken(w, i), w, step)
<1> DEFINE x == Taken(w, i)
           new == Len(w.jobs) + 1
           job == [spec |-> w.graph.rits[i].spec, result |-> "none"]
<1>1. w \in WorldType
  BY DEF WorldOK
<1>2. CASE ~(Has(w.graph, i, "pending") /\ Len(w.jobs) < MaxJobs)
  BY <1>1, <1>2, LaterRefl DEF Taken, Sound, WorldOK, Unique
<1>3. CASE Has(w.graph, i, "pending") /\ Len(w.jobs) < MaxJobs
  <2>1. i \in DOMAIN w.graph.rits /\ w.graph.rits[i].status = "pending"
    BY <1>3 DEF Has
  <2>2. /\ w.jobs \in Seq(JobRecords) /\ Len(w.jobs) \in Nat /\ DOMAIN w.jobs = 1..Len(w.jobs)
        /\ job \in JobRecords
    BY <1>1, <2>1, WorldParts DEF JobRecords
  <2>3. /\ x.graph = w.graph /\ x.disk = w.disk /\ x.page = w.page
        /\ x.jobs = Append(w.jobs, job) /\ x \in WorldType
    <3>1. w = [graph |-> w.graph, jobs |-> w.jobs, disk |-> w.disk, page |-> w.page]
      BY <1>1 DEF WorldType
    <3>2. Append(w.jobs, job) \in Seq(JobRecords)
      BY <2>2
    <3>3. x = [graph |-> w.graph, jobs |-> Append(w.jobs, job), disk |-> w.disk,
               page |-> w.page]
      BY <1>3, <3>1 DEF Taken
    <3> QED
      BY <1>1, <3>2, <3>3, WorldParts DEF WorldType
  <2>4. /\ DOMAIN x.jobs = 1..new /\ x.jobs[new] = job
        /\ Len(x.jobs) = new /\ \A j \in DOMAIN w.jobs : x.jobs[j] = w.jobs[j]
    BY <2>2, <2>3
  <2> HIDE DEF x
  <2>5. GraphOK(x.graph, x.jobs, x.disk)
    <3>1. \A j \in DOMAIN w.jobs : j \in DOMAIN x.jobs /\ x.jobs[j].spec = w.jobs[j].spec
      BY <2>2, <2>4
    <3>2. GraphOK(w.graph, w.jobs, w.disk)
      BY DEF WorldOK
    <3>3. x.jobs \in Seq(JobRecords) /\ Len(w.jobs) <= Len(x.jobs)
      BY <2>2, <2>3, <2>4, WorldParts
    <3>4. \A k \in DOMAIN w.graph.rits : RitOK(w.graph.rits[k], w.jobs, w.disk)
      BY <3>2 DEF GraphOK
    <3>5. \A k \in DOMAIN w.graph.rits : RitOK(w.graph.rits[k], x.jobs, w.disk)
      BY <2>2, <3>1, <3>3, <3>4, RitStays
    <3> QED
      BY <2>3, <3>2, <3>5 DEF GraphOK
  <2>6. PageOK(x)
    BY <2>3 DEF WorldOK, PageOK
  <2>7. job.spec \notin Claimed(w.graph)
    BY <2>1 DEF Claimed, WorldOK, GraphOK
  <2>8. \A j, k \in DOMAIN x.jobs \ undone :
            x.jobs[j].spec = x.jobs[k].spec /\ x.jobs[j].spec \in Claimed(x.graph) => j = k
    BY <2>2, <2>3, <2>4, <2>7 DEF WorldOK, Unique
  <2>9. Later(x, w, step)
    <3>1. Later(w, w, step)
      BY <1>1, LaterRefl
    <3> QED
      BY <2>2, <2>3, <2>4, <3>1 DEF Later
  <2>10. Sound(x) /\ Later(x, w, step)
    BY <2>3, <2>5, <2>6, <2>8, <2>9 DEF Sound
  <2> QED
    BY <2>10 DEF x
<1> QED
  BY <1>2, <1>3


\* A hop, wherever it stops.
LEMMA HopOK ==
    ASSUME NEW w, WorldOK(w), NEW n \in Blocks, NEW dispatcher \in BOOLEAN,
           NEW step \in Nat, NEW silent,
           NEW x \in Outcomes(w, Hop(n, dispatcher), n, step, silent)
    PROVE  /\ Sound(x) /\ Later(x, w, step)
           /\ ~dispatcher => x.jobs = w.jobs
<1> DEFINE ops == Hop(n, dispatcher)
           c == Course(w, ops, n, step, silent)
<1>1. ops \in Seq(Ops) /\ (~dispatcher => ops \in Seq(Quiet))
  BY HopOps
<1> HIDE DEF ops
<1>2. Len(ops) \in Nat
  BY <1>1, LenProperties
<1>3. \A k \in 0..Len(ops) : /\ WorldOK(c[k]) /\ Later(c[k], w, step)
                             /\ ~dispatcher => c[k].jobs = w.jobs
  BY <1>1, CourseOK
<1>4. Stops(ops) \subseteq 0..Len(ops)
  BY <1>2 DEF Stops
<1>5. \/ \E k \in Stops(ops) : x = c[k]
      \/ \E k \in Stops(ops) \ {Len(ops)} :
            ops[k + 1].do = "submit" /\ x = Taken(c[k], ops[k + 1].of)
  BY DEF Outcomes, ops
<1>6. CASE \E k \in Stops(ops) : x = c[k]
  BY <1>3, <1>4, <1>6 DEF WorldOK, Sound, Unique
<1>7. CASE \E k \in Stops(ops) \ {Len(ops)} :
            ops[k + 1].do = "submit" /\ x = Taken(c[k], ops[k + 1].of)
  <2>1. PICK k \in Stops(ops) \ {Len(ops)} :
            ops[k + 1].do = "submit" /\ x = Taken(c[k], ops[k + 1].of)
    BY <1>7
  <2>2. k \in 0..Len(ops) /\ k + 1 \in 1..Len(ops)
    BY <1>2, <1>4, <2>1
  <2>3. dispatcher
    <3> SUFFICES ASSUME ~dispatcher PROVE FALSE
      OBVIOUS
    <3>1. ops[k + 1] \in Quiet
      BY <1>1, <2>2, ElementOfSeq
    <3> QED
      BY <2>1, <3>1 DEF Quiet
  <2>4. WorldOK(c[k]) /\ Later(c[k], w, step)
    BY <1>3, <2>2
  <2> HIDE DEF c
  <2>5. Sound(x) /\ Later(x, c[k], step)
    BY <2>1, <2>4, TakenOK
  <2>6. Later(x, w, step)
    BY <2>4, <2>5, LaterTrans DEF WorldOK, Sound
  <2> QED
    BY <2>3, <2>5, <2>6
<1> QED
  BY <1>5, <1>6, <1>7

\* A hop that is not stopped.
LEMMA RunOK ==
    ASSUME NEW w, WorldOK(w), NEW ops \in Seq(Ops), NEW n \in Blocks, NEW step \in Nat,
           NEW silent
    PROVE  /\ WorldOK(Run(w, ops, n, step, silent)) /\ Later(Run(w, ops, n, step, silent), w, step)
           /\ ops \in Seq(Quiet) => Run(w, ops, n, step, silent).jobs = w.jobs
<1>1. Len(ops) \in 0..Len(ops)
  BY LenProperties
<1> QED
  BY <1>1, CourseOK DEF Run

-----------------------------------------------------------------------------
(* The invariant.                                                          *)

Steps == [at: Blocks, graph: GraphType]

SessionType ==
    /\ cursor \in Blocks \cup {"nowhere"} /\ keeps \in BOOLEAN /\ remote \in BOOLEAN
    /\ saved \in Seq(Steps) /\ Len(saved) <= MaxSteps
    /\ undone \subseteq DOMAIN jobs

\* Before there is a story there is nothing, and no job stands.
NothingYet ==
    cursor \notin Blocks =>
        /\ graph = EmptyGraph /\ saved = << >> /\ page = {} /\ disk = {}
        /\ undone = DOMAIN jobs

\* The session can go back: the graph of each step is sound by the jobs and the
\* files there are now, the next step's follows from it, and a fragment that
\* had been shown by then is bound in it as it was shown.
HistoryOK ==
    /\ \A k \in DOMAIN saved : GraphOK(saved[k].graph, jobs, disk)
    /\ \A k \in DOMAIN saved :
          Follows(IF k < Len(saved) THEN saved[k + 1].graph ELSE graph, saved[k].graph)
    /\ \A f \in page, k \in DOMAIN saved :
          f.step <= k => saved[k].graph.slots[f.slot] = f.rit

MediaInv == SessionType /\ WorldOK(World) /\ NothingYet /\ HistoryOK

\* What follows from what follows.
LEMMA FollowsTrans ==
    ASSUME NEW x, NEW y, NEW z, Follows(y, x), Follows(z, y)
    PROVE  Follows(z, x)
<1>1. \A st : Rank(st) \in 0..2
  BY DEF Rank
<1>2. \A s \in Slots : x.slots[s] # 0 => z.slots[s] = x.slots[s]
  BY DEF Follows
<1>3. ASSUME NEW i \in DOMAIN x.rits
      PROVE  /\ i \in DOMAIN z.rits /\ z.rits[i].spec = x.rits[i].spec
             /\ Rank(x.rits[i].status) <= Rank(z.rits[i].status)
             /\ Rank(x.rits[i].status) = 2 => z.rits[i].status = x.rits[i].status
  <2>1. /\ i \in DOMAIN y.rits /\ y.rits[i].spec = x.rits[i].spec
        /\ Rank(x.rits[i].status) <= Rank(y.rits[i].status)
        /\ Rank(x.rits[i].status) = 2 => y.rits[i].status = x.rits[i].status
    BY DEF Follows
  <2>2. /\ i \in DOMAIN z.rits /\ z.rits[i].spec = y.rits[i].spec
        /\ Rank(y.rits[i].status) <= Rank(z.rits[i].status)
        /\ Rank(y.rits[i].status) = 2 => z.rits[i].status = y.rits[i].status
    BY <2>1 DEF Follows
  <2> QED
    BY <1>1, <2>1, <2>2
<1> QED
  BY <1>2, <1>3 DEF Follows

\* A graph follows from itself.
LEMMA FollowsRefl ==
    ASSUME NEW x
    PROVE  Follows(x, x)
<1>1. \A st : Rank(st) <= Rank(st)
  BY DEF Rank
<1> QED
  BY <1>1 DEF Follows

\* A graph stays sound while jobs are added or answered and files written.
LEMMA GraphStays ==
    ASSUME NEW g, NEW js \in Seq(JobRecords), NEW ks \in Seq(JobRecords), NEW d, NEW e,
           GraphOK(g, js, d), Len(js) <= Len(ks),
           \A j \in DOMAIN js : ks[j].spec = js[j].spec, d \subseteq e
    PROVE  GraphOK(g, ks, e)
<1>1. \A i \in DOMAIN g.rits : RitOK(g.rits[i], js, d)
  BY DEF GraphOK
<1>2. \A i \in DOMAIN g.rits : RitOK(g.rits[i], ks, e)
  BY <1>1, RitStays
<1> QED
  BY <1>2 DEF GraphOK

\* What the invariant says of the world's parts.
LEMMA WorldFields ==
    /\ World.graph = graph /\ World.jobs = jobs /\ World.disk = disk /\ World.page = page
    /\ World' = [graph |-> graph', jobs |-> jobs', disk |-> disk', page |-> page']
    /\ World'.graph = graph' /\ World'.jobs = jobs' /\ World'.disk = disk'
    /\ World'.page = page'
BY DEF World

\* The session at first.
LEMMA InitInv == Init => MediaInv
<1> SUFFICES ASSUME Init PROVE MediaInv
  OBVIOUS
<1>1. EmptyGraph \in GraphType /\ EmptyGraph.rits = << >> /\ EmptyGraph.slots = [s \in Slots |-> 0]
  BY DEF EmptyGraph, GraphType, Moods
<1>2. SessionType
  BY MediaAssumption DEF Init, SessionType
<1>3. GraphOK(graph, jobs, disk)
  BY <1>1 DEF Init, GraphOK
<1>4. Unique(graph, jobs)
  BY DEF Init, Unique
<1>5. World \in WorldType
  <2>1. jobs \in Seq(JobRecords)
    BY DEF Init
  <2> QED
    BY <1>1, <2>1 DEF Init, World, WorldType
<1>6. PageOK(World)
  BY WorldFields DEF Init, PageOK
<1>7. WorldOK(World)
  BY <1>3, <1>4, <1>5, <1>6, WorldFields DEF WorldOK
<1>8. NothingYet /\ HistoryOK
  BY DEF Init, NothingYet, HistoryOK
<1> QED
  BY <1>2, <1>7, <1>8 DEF MediaInv

\* A story's session starts in a sound world, with the media of the story made
\* ahead or not.
LEMMA FreshOK ==
    ASSUME MediaInv, cursor \notin Blocks, NEW eager \in BOOLEAN
    PROVE  WorldOK(Fresh(eager)) /\ Fresh(eager).jobs = jobs
<1> DEFINE w == [graph |-> EmptyGraph, jobs |-> jobs, disk |-> {}, page |-> {}]
<1>1. WorldOK(w)
  <2>1. w = World
    BY DEF MediaInv, NothingYet, World
  <2> QED
    BY <2>1 DEF MediaInv
<1>2. Each("resolve", AllSlots) \in Seq(Quiet) /\ Each("resolve", AllSlots) \in Seq(Ops)
  <2>1. AllSlots \in Seq(Slots)
    <3>1. Slots = 1..Len(Adapted) /\ Len(Adapted) \in Nat
      BY MediaAssumption DEF Slots
    <3> QED
      BY <3>1 DEF AllSlots
  <2>2. \A s \in Slots : [do |-> "resolve", of |-> s] \in Quiet
    BY DEF Ops, Quiet
  <2>3. \A s \in Slots : [do |-> "resolve", of |-> s] \in Ops
    BY DEF Ops
  <2> QED
    BY <2>1, <2>2, <2>3, EachDo
<1>3. Start \in Blocks /\ 1 \in Nat
  BY MediaAssumption
<1>4. w.jobs = jobs
  OBVIOUS
<1> HIDE DEF w
<1>5. /\ WorldOK(Run(w, Each("resolve", AllSlots), Start, 1, {}))
      /\ Run(w, Each("resolve", AllSlots), Start, 1, {}).jobs = w.jobs
  BY <1>1, <1>2, <1>3, RunOK
<1> QED
  BY <1>1, <1>4, <1>5 DEF Fresh, w

\* The world after a request, of a session whose jobs' fate it leaves open.
LEMMA SameFate ==
    ASSUME NEW w, WorldOK(w), World' = w, undone' = undone
    PROVE  WorldOK(World)'
BY DEF WorldOK, Unique

\* A story is created.
LEMMA CreateInv ==
    ASSUME MediaInv, NEW eager \in BOOLEAN, CreateStory(eager)
    PROVE  MediaInv'
<1> DEFINE w == Run(Fresh(eager), Hop(Start, TRUE), Start, 1, {})
<1>1. cursor \notin Blocks /\ Start \in Blocks /\ 1 \in Nat /\ 1 <= MaxSteps
  BY MediaAssumption DEF CreateStory
<1>2. WorldOK(Fresh(eager))
  BY <1>1, FreshOK
<1>3. Hop(Start, TRUE) \in Seq(Ops)
  BY <1>1, HopOps
<1>4. WorldOK(w)
  BY <1>1, <1>2, <1>3, RunOK
<1>5. /\ graph' = w.graph /\ jobs' = w.jobs /\ disk' = w.disk /\ page' = w.page
      /\ cursor' = Start /\ saved' = <<[at |-> Start, graph |-> w.graph]>>
      /\ keeps' = keeps /\ remote' = remote /\ undone' = undone
  BY DEF CreateStory
<1> HIDE DEF w
<1>6. DOMAIN jobs \subseteq DOMAIN w.jobs
  <2>1. Later(w, Fresh(eager), 1) /\ Fresh(eager).jobs = jobs
    BY <1>1, <1>2, <1>3, RunOK, FreshOK DEF w
  <2>2. /\ Len(jobs) \in Nat /\ DOMAIN jobs = 1..Len(jobs)
        /\ Len(w.jobs) \in Nat /\ DOMAIN w.jobs = 1..Len(w.jobs)
    BY <1>2, <1>4, <2>1, WorldParts DEF WorldOK
  <2> QED
    BY <2>1, <2>2 DEF Later
<1>7. WorldOK(World)'
  <2>1. World' = w
    <3>1. w = [graph |-> w.graph, jobs |-> w.jobs, disk |-> w.disk, page |-> w.page]
      BY <1>4 DEF WorldOK, WorldType
    <3> QED
      BY <1>5, <3>1 DEF World
  <2> QED
    BY <1>4, <1>5, <2>1, SameFate
<1>8. SessionType'
  <2>1. [at |-> Start, graph |-> w.graph] \in Steps
    BY <1>1, <1>4, WorldParts DEF Steps, WorldOK
  <2>2. saved' \in Seq(Steps) /\ Len(saved') = 1
    BY <1>5, <2>1
  <2> QED
    BY <1>1, <1>5, <1>6, <2>2 DEF MediaInv, SessionType
<1>9. NothingYet'
  BY <1>1, <1>5 DEF NothingYet
<1>10. HistoryOK'
  <2>1. /\ DOMAIN saved' = {1} /\ Len(saved') = 1 /\ saved'[1].graph = w.graph
    BY <1>5
  <2>2. GraphOK(w.graph, jobs', disk') /\ PageOK(w)
    BY <1>4, <1>5 DEF WorldOK
  <2>3. \A k \in DOMAIN saved' :
           Follows(IF k < Len(saved') THEN saved'[k + 1].graph ELSE graph', saved'[k].graph)
    <3>1. Follows(graph', w.graph)
      BY <1>5, FollowsRefl
    <3>2. \A k \in DOMAIN saved' : ~(k < Len(saved')) /\ saved'[k].graph = w.graph
      BY <2>1
    <3> QED
      BY <3>1, <3>2
  <2>4. \A k \in DOMAIN saved' : GraphOK(saved'[k].graph, jobs', disk')
    BY <2>1, <2>2
  <2>5. \A f \in page', k \in DOMAIN saved' : saved'[k].graph.slots[f.slot] = f.rit
    BY <1>5, <2>1, <2>2 DEF PageOK
  <2> QED
    BY <2>3, <2>4, <2>5 DEF HistoryOK
<1> QED
  BY <1>7, <1>8, <1>9, <1>10 DEF MediaInv

\* A story that raises while it is created is not kept, and none of its jobs
\* stands.
LEMMA CreateFailsInv ==
    ASSUME MediaInv, NEW eager \in BOOLEAN, CreateStoryFails(eager)
    PROVE  MediaInv'
<1>1. cursor \notin Blocks /\ Start \in Blocks /\ 1 \in Nat
  BY MediaAssumption DEF CreateStoryFails
<1>2. PICK w \in Outcomes(Fresh(eager), Hop(Start, TRUE), Start, 1, {}) :
          jobs' = w.jobs /\ undone' = DOMAIN w.jobs
  BY DEF CreateStoryFails
<1>3. Sound(w)
  BY <1>1, <1>2, FreshOK, HopOK
<1>4. /\ graph' = graph /\ disk' = disk /\ page' = page /\ cursor' = cursor
      /\ saved' = saved /\ keeps' = keeps /\ remote' = remote
  BY DEF CreateStoryFails
<1>5. /\ graph = EmptyGraph /\ saved = << >> /\ page = {} /\ disk = {}
      /\ graph.rits = << >> /\ \A s \in Slots : graph.slots[s] = 0
  BY <1>1 DEF MediaInv, NothingYet, EmptyGraph
<1>6. WorldOK(World)'
  <2>1. jobs' \in Seq(JobRecords)
    BY <1>2, <1>3, WorldParts DEF Sound
  <2>2. World' \in WorldType
    <3>1. graph \in GraphType
      BY WorldFields, WorldParts DEF MediaInv, WorldOK
    <3> QED
      BY <1>4, <1>5, <2>1, <3>1 DEF World, WorldType
  <2>3. GraphOK(graph', jobs', disk')
    BY <1>4, <1>5 DEF GraphOK
  <2>4. Unique(graph, jobs)'
    BY <1>2 DEF Unique
  <2>5. PageOK(World)'
    BY <1>4, <1>5, WorldFields DEF PageOK
  <2> QED
    BY <2>2, <2>3, <2>4, <2>5, WorldFields DEF WorldOK
<1>7. SessionType'
  BY <1>2, <1>4 DEF MediaInv, SessionType
<1>8. NothingYet'
  BY <1>2, <1>4, <1>5 DEF NothingYet
<1>9. HistoryOK'
  BY <1>4, <1>5 DEF HistoryOK
<1> QED
  BY <1>6, <1>7, <1>8, <1>9 DEF MediaInv

\* What the session can go back to is as good by a later world, and the world
\* follows from it.
LEMMA LaterHistory ==
    ASSUME MediaInv, NEW w \in WorldType, Later(w, World, Len(saved) + 1)
    PROVE  /\ DOMAIN jobs \subseteq DOMAIN w.jobs
           /\ \A k \in DOMAIN saved : GraphOK(saved[k].graph, w.jobs, w.disk)
           /\ \A f \in w.page, k \in DOMAIN saved :
                 f.step <= k => saved[k].graph.slots[f.slot] = f.rit
           /\ Follows(w.graph, graph)
           /\ \A k \in DOMAIN saved :
                 Follows(IF k < Len(saved) THEN saved[k + 1].graph ELSE w.graph,
                         saved[k].graph)
<1>1. /\ Len(saved) \in Nat /\ DOMAIN saved = 1..Len(saved)
  BY LenProperties DEF MediaInv, SessionType
<1>2. /\ jobs \in Seq(JobRecords) /\ w.jobs \in Seq(JobRecords)
      /\ Len(jobs) \in Nat /\ Len(w.jobs) \in Nat
      /\ DOMAIN jobs = 1..Len(jobs) /\ DOMAIN w.jobs = 1..Len(w.jobs)
  BY WorldFields, WorldParts DEF MediaInv, WorldOK
<1>3. /\ Follows(w.graph, graph)
      /\ Len(jobs) <= Len(w.jobs) /\ \A j \in DOMAIN jobs : w.jobs[j] = jobs[j]
      /\ disk \subseteq w.disk
      /\ \A f \in w.page : f \in page \/ f.step = Len(saved) + 1
  BY WorldFields DEF Later
<1>4. ASSUME NEW k \in DOMAIN saved
      PROVE  GraphOK(saved[k].graph, w.jobs, w.disk)
  <2>1. GraphOK(saved[k].graph, jobs, disk)
    BY DEF MediaInv, HistoryOK
  <2>2. \A j \in DOMAIN jobs : w.jobs[j].spec = jobs[j].spec
    BY <1>3
  <2> QED
    BY <1>2, <1>3, <2>1, <2>2, GraphStays
<1>5. ASSUME NEW f \in w.page, NEW k \in DOMAIN saved, f.step <= k
      PROVE  saved[k].graph.slots[f.slot] = f.rit
  <2>1. f \in page
    BY <1>1, <1>3, <1>5
  <2> QED
    BY <1>5, <2>1 DEF MediaInv, HistoryOK
<1>6. ASSUME NEW k \in DOMAIN saved
      PROVE  Follows(IF k < Len(saved) THEN saved[k + 1].graph ELSE w.graph,
                     saved[k].graph)
  <2>1. Follows(IF k < Len(saved) THEN saved[k + 1].graph ELSE graph, saved[k].graph)
    BY DEF MediaInv, HistoryOK
  <2>2. CASE k < Len(saved)
    BY <2>1, <2>2
  <2>3. CASE ~(k < Len(saved))
    <3>1. Follows(graph, saved[k].graph)
      BY <2>1, <2>3
    <3>2. Follows(w.graph, saved[k].graph)
      BY <1>3, <3>1, FollowsTrans
    <3> QED
      BY <2>3, <3>2
  <2> QED
    BY <2>2, <2>3
<1>7. DOMAIN jobs \subseteq DOMAIN w.jobs
  BY <1>2, <1>3
<1> QED
  BY <1>3, <1>4, <1>5, <1>6, <1>7

\* Where a choice can lead.
LEMMA ChoiceParts ==
    ASSUME MediaInv, cursor \in Blocks, NEW n \in ToSet(Exits[cursor])
    PROVE  n \in Blocks /\ keeps \in BOOLEAN /\ Len(saved) \in Nat /\ Len(saved) + 1 \in Nat
           /\ WorldOK(World)
<1>1. Exits[cursor] \in Seq(Blocks)
  BY MediaAssumption
<1>2. n \in Blocks
  BY <1>1 DEF ToSet
<1>3. saved \in Seq(Steps) /\ keeps \in BOOLEAN /\ WorldOK(World)
  BY DEF MediaInv, SessionType
<1>4. Len(saved) \in Nat
  BY <1>3, LenProperties
<1> QED
  BY <1>2, <1>3, <1>4

\* A choice adds a step that follows from the last.
LEMMA ChooseInv ==
    ASSUME MediaInv, NEW n \in Blocks, Choose(n)
    PROVE  MediaInv'
<1>1. cursor \in Blocks /\ n \in ToSet(Exits[cursor]) /\ Len(saved) < MaxSteps
  BY DEF Choose
<1>2. PICK silent \in Unheard :
          LET w == Run(World, Hop(n, keeps), n, Len(saved) + 1, silent)
          IN  /\ graph' = w.graph /\ jobs' = w.jobs /\ disk' = w.disk /\ page' = w.page
              /\ saved' = Append(saved, [at |-> n, graph |-> w.graph])
  BY DEF Choose
<1> DEFINE w == Run(World, Hop(n, keeps), n, Len(saved) + 1, silent)
           l == Len(saved)
           new == [at |-> n, graph |-> w.graph]
<1>3. /\ graph' = w.graph /\ jobs' = w.jobs /\ disk' = w.disk /\ page' = w.page
      /\ saved' = Append(saved, new) /\ cursor' = n
      /\ keeps' = keeps /\ remote' = remote /\ undone' = undone
  BY <1>2 DEF Choose
<1>4. keeps \in BOOLEAN /\ l \in Nat /\ l + 1 \in Nat /\ WorldOK(World)
  BY <1>1, ChoiceParts
<1>5. Hop(n, keeps) \in Seq(Ops)
  BY <1>4, HopOps
<1>6. WorldOK(w) /\ Later(w, World, l + 1)
  BY <1>4, <1>5, RunOK
<1> HIDE DEF w
<1>7. /\ DOMAIN jobs \subseteq DOMAIN w.jobs
      /\ \A k \in DOMAIN saved : GraphOK(saved[k].graph, w.jobs, w.disk)
      /\ \A f \in w.page, k \in DOMAIN saved :
            f.step <= k => saved[k].graph.slots[f.slot] = f.rit
      /\ \A k \in DOMAIN saved :
            Follows(IF k < l THEN saved[k + 1].graph ELSE w.graph, saved[k].graph)
  BY <1>6, LaterHistory DEF WorldOK
<1>8. WorldOK(World)'
  <2>1. w = [graph |-> w.graph, jobs |-> w.jobs, disk |-> w.disk, page |-> w.page]
    BY <1>6 DEF WorldOK, WorldType
  <2>2. World' = w
    BY <1>3, <2>1 DEF World
  <2> QED
    BY <1>3, <1>6, <2>2, SameFate
<1>9. new \in Steps /\ saved \in Seq(Steps)
  BY <1>6, WorldParts DEF Steps, WorldOK, MediaInv, SessionType
<1>10. /\ saved' \in Seq(Steps) /\ Len(saved') = l + 1 /\ DOMAIN saved' = 1..(l + 1)
       /\ DOMAIN saved = 1..l /\ saved'[l + 1].graph = w.graph
       /\ \A k \in 1..l : saved'[k] = saved[k]
  <2>1. saved'[l + 1] = new /\ new.graph = w.graph
    BY <1>3, <1>9, AppendProperties
  <2> HIDE DEF new
  <2> QED
    BY <1>3, <1>4, <1>9, <2>1, AppendProperties
<1> HIDE DEF new
<1>11. SessionType'
  BY <1>1, <1>3, <1>4, <1>7, <1>10, MediaAssumption DEF MediaInv, SessionType
<1>12. NothingYet'
  BY <1>3 DEF NothingYet
<1>13. HistoryOK'
  <2>1. ASSUME NEW k \in DOMAIN saved'
        PROVE  /\ GraphOK(saved'[k].graph, jobs', disk')
               /\ Follows(IF k < Len(saved') THEN saved'[k + 1].graph ELSE graph',
                          saved'[k].graph)
               /\ \A f \in page' : f.step <= k => saved'[k].graph.slots[f.slot] = f.rit
    <3>1. CASE k \in 1..l
      <4>1. /\ saved'[k] = saved[k] /\ k \in DOMAIN saved /\ k < Len(saved')
            /\ saved'[k + 1].graph = IF k < l THEN saved[k + 1].graph ELSE w.graph
        BY <1>4, <1>10, <3>1
      <4>2. GraphOK(saved[k].graph, jobs', disk')
        BY <1>3, <1>7, <4>1
      <4>3. Follows(saved'[k + 1].graph, saved[k].graph)
        BY <1>7, <4>1
      <4>4. \A f \in page' : f.step <= k => saved[k].graph.slots[f.slot] = f.rit
        BY <1>3, <1>7, <4>1
      <4> QED
        BY <4>1, <4>2, <4>3, <4>4
    <3>2. CASE k = l + 1
      <4>1. saved'[k].graph = w.graph /\ ~(k < Len(saved'))
        BY <1>4, <1>10, <3>2
      <4>2. GraphOK(w.graph, jobs', disk') /\ PageOK(w)
        BY <1>3, <1>6 DEF WorldOK
      <4>3. Follows(graph', w.graph)
        BY <1>3, FollowsRefl
      <4>4. \A f \in page' : w.graph.slots[f.slot] = f.rit
        BY <1>3, <4>2 DEF PageOK
      <4> QED
        BY <4>1, <4>2, <4>3, <4>4
    <3> QED
      BY <1>4, <1>10, <3>1, <3>2
  <2> QED
    BY <2>1 DEF HistoryOK
<1> QED
  BY <1>8, <1>11, <1>12, <1>13 DEF MediaInv

\* A choice that raises leaves jobs and files behind, and in a store that keeps
\* its objects the rest of what it did, too.
LEMMA ChooseFailsInv ==
    ASSUME MediaInv, NEW n \in Blocks, ChooseFails(n)
    PROVE  MediaInv'
<1>1. cursor \in Blocks /\ n \in ToSet(Exits[cursor])
  BY DEF ChooseFails
<1>2. PICK w : /\ \E silent \in Unheard :
                      w \in Outcomes(World, Hop(n, keeps), n, Len(saved) + 1, silent)
               /\ jobs' = w.jobs /\ disk' = w.disk
               /\ graph' = IF keeps THEN w.graph ELSE graph
               /\ page' = IF keeps THEN w.page ELSE page
  BY DEF ChooseFails
<1>3. /\ cursor' = cursor /\ saved' = saved /\ keeps' = keeps /\ remote' = remote
      /\ undone' = undone \cup Orphans(jobs', graph')
  BY DEF ChooseFails
<1>4. keeps \in BOOLEAN /\ Len(saved) + 1 \in Nat /\ WorldOK(World)
  BY <1>1, ChoiceParts
<1>5. Sound(w) /\ Later(w, World, Len(saved) + 1) /\ (~keeps => w.jobs = jobs)
  BY <1>2, <1>4, HopOK, WorldFields
<1>6. /\ DOMAIN jobs \subseteq DOMAIN w.jobs
      /\ \A k \in DOMAIN saved : GraphOK(saved[k].graph, w.jobs, w.disk)
      /\ \A f \in w.page, k \in DOMAIN saved :
            f.step <= k => saved[k].graph.slots[f.slot] = f.rit
      /\ \A k \in DOMAIN saved :
            Follows(IF k < Len(saved) THEN saved[k + 1].graph ELSE w.graph, saved[k].graph)
  BY <1>5, LaterHistory DEF Sound
<1>7. WorldOK(World)'
  <2>1. CASE keeps
    <3>1. w = [graph |-> w.graph, jobs |-> w.jobs, disk |-> w.disk, page |-> w.page]
      BY <1>5 DEF Sound, WorldType
    <3>2. World' = w
      BY <1>2, <2>1, <3>1 DEF World
    <3>3. Unique(graph, jobs)'
      BY <1>2, <1>3, <1>5, <2>1 DEF Sound, Unique, Orphans
    <3> QED
      BY <1>5, <3>2, <3>3, WorldFields DEF Sound, WorldOK, PageOK, World
  <2>2. CASE ~keeps
    <3>1. /\ graph' = graph /\ page' = page /\ jobs' = jobs /\ disk' = w.disk
          /\ disk \subseteq disk'
      BY <1>2, <1>5, <2>2, WorldFields DEF Later
    <3>2. /\ graph \in GraphType /\ jobs \in Seq(JobRecords) /\ page \subseteq Fragments
          /\ Len(jobs) \in Nat /\ GraphOK(graph, jobs, disk) /\ Unique(graph, jobs)
          /\ PageOK(World)
      BY <1>4, WorldFields, WorldParts DEF WorldOK
    <3>3. World' \in WorldType
      <4>1. disk' \subseteq Entries
        BY <1>5, <3>1, WorldParts DEF Sound
      <4> QED
        BY <3>1, <3>2, <4>1 DEF World, WorldType
    <3>4. GraphOK(graph', jobs', disk')
      <4>1. GraphOK(graph, jobs, disk')
        BY <3>1, <3>2, GraphStays
      <4> QED
        BY <3>1, <4>1
    <3>5. Unique(graph, jobs)'
      BY <1>3, <3>1, <3>2 DEF Unique
    <3>6. PageOK(World)'
      BY <3>1, <3>2, WorldFields DEF PageOK
    <3> QED
      BY <3>3, <3>4, <3>5, <3>6, WorldFields DEF WorldOK
  <2> QED
    BY <2>1, <2>2
<1>8. SessionType'
  BY <1>2, <1>3, <1>6 DEF MediaInv, SessionType, Orphans
<1>9. NothingYet'
  BY <1>1, <1>3 DEF NothingYet
<1>10. HistoryOK'
  <2>1. \A f \in page', k \in DOMAIN saved :
            f.step <= k => saved[k].graph.slots[f.slot] = f.rit
    BY <1>2, <1>6 DEF MediaInv, HistoryOK
  <2>2. \A k \in DOMAIN saved :
            Follows(IF k < Len(saved) THEN saved[k + 1].graph ELSE graph', saved[k].graph)
    <3>1. CASE keeps
      BY <1>2, <1>6, <3>1
    <3>2. CASE ~keeps
      BY <1>2, <3>2 DEF MediaInv, HistoryOK
    <3> QED
      BY <3>1, <3>2
  <2>3. \A k \in DOMAIN saved : GraphOK(saved[k].graph, jobs', disk')
    BY <1>2, <1>6
  <2> QED
    BY <1>3, <2>1, <2>2, <2>3 DEF HistoryOK
<1> QED
  BY <1>7, <1>8, <1>9, <1>10 DEF MediaInv

\* The fragments that were shown by an earlier step go on showing what they
\* did, whether or not they keep hold of the resource.
LEMMA DetachedOK ==
    ASSUME MediaInv, NEW f \in page
    PROVE  /\ Detach(f) \in Fragments
           /\ Detach(f).step = f.step /\ Detach(f).slot = f.slot /\ Detach(f).rit = f.rit
           /\ f.rit # 0 /\ graph.slots[f.slot] = f.rit /\ f.rit \in DOMAIN graph.rits
           /\ Detach(f).was # << >> /\ Detach(f).was[1].status = "resolved" =>
                 <<File(Detach(f).was[1].spec), Detach(f).was[1].spec>> \in disk
<1>1. /\ World \in WorldType /\ GraphOK(graph, jobs, disk) /\ PageOK(World)
  BY WorldFields DEF MediaInv, WorldOK
<1>2. /\ f \in Fragments /\ Len(graph.rits) \in Nat /\ DOMAIN graph.rits = 1..Len(graph.rits)
      /\ \A i \in DOMAIN graph.rits : graph.rits[i] \in RitRecords
  BY <1>1, WorldFields, WorldParts
<1>3. /\ f.rit # 0 /\ graph.slots[f.slot] = f.rit
      /\ f.was # << >> /\ f.was[1].status = "resolved" =>
            <<File(f.was[1].spec), f.was[1].spec>> \in disk
  BY <1>1, WorldFields DEF PageOK
<1>4. f.slot \in Slots /\ f.rit \in DOMAIN graph.rits
  <2>1. f.slot \in Slots
    BY <1>2 DEF Fragments
  <2>2. graph.slots[f.slot] \in 0..Len(graph.rits)
    BY <1>1, <2>1 DEF GraphOK
  <2> QED
    BY <1>2, <1>3, <2>1, <2>2
<1>5. CASE ~(keeps /\ f.was = << >>)
  <2>1. Detach(f) = f
    BY <1>5 DEF Detach
  <2> QED
    BY <1>2, <1>3, <1>4, <2>1
<1>6. CASE keeps /\ f.was = << >>
  <2> DEFINE r == graph.rits[f.rit]
  <2>1. r \in RitRecords /\ RitOK(r, jobs, disk)
    BY <1>1, <1>2, <1>4 DEF GraphOK
  <2>2. f = [step |-> f.step, slot |-> f.slot, rit |-> f.rit, was |-> f.was]
    BY <1>2 DEF Fragments
  <2>3. Detach(f) = [f EXCEPT !.was = <<r>>]
    BY <1>6 DEF Detach
  <2> HIDE DEF r
  <2>4. Detach(f) = [step |-> f.step, slot |-> f.slot, rit |-> f.rit, was |-> <<r>>]
    BY <2>2, <2>3
  <2>5. <<r>> \in Seq(RitRecords) /\ <<r>>[1] = r
    BY <2>1
  <2>6. Detach(f) \in Fragments
    BY <1>2, <2>4, <2>5 DEF Fragments
  <2> QED
    BY <1>3, <1>4, <2>1, <2>4, <2>5, <2>6 DEF RitOK
<1> QED
  BY <1>5, <1>6

\* Going back to an earlier step.
LEMMA RollbackInv ==
    ASSUME MediaInv, NEW k \in 1..MaxSteps, Rollback(k)
    PROVE  MediaInv'
<1>1. /\ saved \in Seq(Steps) /\ Len(saved) \in Nat /\ DOMAIN saved = 1..Len(saved)
      /\ \A l \in 1..Len(saved) : saved[l] \in Steps
  BY LenProperties, ElementOfSeq DEF MediaInv, SessionType
<1>2. k \in 1..(Len(saved) - 1) /\ k \in 1..Len(saved) /\ k \in Nat
  BY <1>1 DEF Rollback
<1>3. /\ saved' = SubSeq(saved, 1, k) /\ graph' = saved[k].graph /\ cursor' = saved[k].at
      /\ page' = {Detach(f) : f \in {e \in page : e.step <= k}}
      /\ undone' = undone \cup Orphans(jobs, graph')
      /\ jobs' = jobs /\ disk' = disk /\ keeps' = keeps /\ remote' = remote
  BY DEF Rollback
<1>4. /\ saved' \in Seq(Steps) /\ Len(saved') = k /\ DOMAIN saved' = 1..k
      /\ \A l \in 1..k : saved'[l] = saved[l]
  BY <1>1, <1>2, <1>3
<1>5. graph' \in GraphType /\ cursor' \in Blocks
  BY <1>1, <1>2, <1>3 DEF Steps
<1>6. GraphOK(graph', jobs', disk')
  BY <1>1, <1>2, <1>3 DEF MediaInv, HistoryOK
<1>7. /\ jobs \in Seq(JobRecords) /\ disk \subseteq Entries /\ Unique(graph, jobs)
  BY WorldFields, WorldParts DEF MediaInv, WorldOK
<1>8. WorldOK(World)'
  <2>1. World' \in WorldType
    <3>1. page' \subseteq Fragments
      BY <1>3, DetachedOK
    <3> QED
      BY <1>3, <1>5, <1>7, <3>1 DEF World, WorldType
  <2>2. Unique(graph, jobs)'
    BY <1>3, <1>7 DEF Unique, Orphans
  <2>3. PageOK(World)'
    <3>1. ASSUME NEW e \in page'
          PROVE  /\ e.rit # 0 /\ graph'.slots[e.slot] = e.rit
                 /\ e.was # << >> /\ e.was[1].status = "resolved" =>
                       <<File(e.was[1].spec), e.was[1].spec>> \in disk'
      <4>1. PICK f \in page : f.step <= k /\ e = Detach(f)
        BY <1>3
      <4>2. graph'.slots[f.slot] = f.rit
        BY <1>1, <1>2, <1>3, <4>1 DEF MediaInv, HistoryOK
      <4> QED
        BY <1>3, <4>1, <4>2, DetachedOK
    <3> QED
      BY <3>1, WorldFields DEF PageOK
  <2> QED
    BY <1>6, <2>1, <2>2, <2>3, WorldFields DEF WorldOK
<1>9. SessionType'
  BY <1>1, <1>2, <1>3, <1>4, <1>5, MediaAssumption DEF MediaInv, SessionType, Orphans
<1>10. NothingYet'
  BY <1>5 DEF NothingYet
<1>11. HistoryOK'
  <2>1. ASSUME NEW l \in DOMAIN saved'
        PROVE  /\ GraphOK(saved'[l].graph, jobs', disk')
               /\ Follows(IF l < Len(saved') THEN saved'[l + 1].graph ELSE graph',
                          saved'[l].graph)
               /\ \A e \in page' : e.step <= l => saved'[l].graph.slots[e.slot] = e.rit
    <3>1. l \in 1..k /\ l \in DOMAIN saved /\ saved'[l] = saved[l]
      BY <1>1, <1>2, <1>4
    <3>2. GraphOK(saved[l].graph, jobs, disk)
      BY <3>1 DEF MediaInv, HistoryOK
    <3>3. Follows(IF l < Len(saved') THEN saved'[l + 1].graph ELSE graph', saved[l].graph)
      <4>1. CASE l < k
        <5>1. Follows(saved[l + 1].graph, saved[l].graph)
          BY <1>1, <1>2, <3>1, <4>1 DEF MediaInv, HistoryOK
        <5>2. saved'[l + 1] = saved[l + 1]
          BY <1>2, <1>4, <3>1, <4>1
        <5> QED
          BY <1>4, <4>1, <5>1, <5>2
      <4>2. CASE l = k
        <5>1. Follows(graph', saved[l].graph)
          BY <1>3, <4>2, FollowsRefl
        <5> QED
          BY <1>2, <1>4, <4>2, <5>1
      <4> QED
        BY <1>2, <3>1, <4>1, <4>2
    <3>4. ASSUME NEW e \in page', e.step <= l
          PROVE  saved[l].graph.slots[e.slot] = e.rit
      <4>1. PICK f \in page : e = Detach(f)
        BY <1>3
      <4> QED
        BY <3>1, <3>4, <4>1, DetachedOK DEF MediaInv, HistoryOK
    <3> QED
      BY <1>3, <3>1, <3>2, <3>3, <3>4
  <2> QED
    BY <2>1 DEF HistoryOK
<1> QED
  BY <1>8, <1>9, <1>10, <1>11 DEF MediaInv

\* The answer to a job changes no job's specification.
LEMMA FinishInv ==
    ASSUME MediaInv, NEW j \in DOMAIN jobs, NEW answer \in Answers, Finish(j, answer)
    PROVE  MediaInv'
<1>1. /\ jobs' = [jobs EXCEPT ![j].result = answer]
      /\ cursor' = cursor /\ graph' = graph /\ saved' = saved /\ page' = page
      /\ disk' = disk /\ keeps' = keeps /\ remote' = remote /\ undone' = undone
  BY DEF Finish
<1>2. /\ World \in WorldType /\ graph \in GraphType /\ jobs \in Seq(JobRecords)
      /\ Len(jobs) \in Nat /\ DOMAIN jobs = 1..Len(jobs)
      /\ \A k \in DOMAIN jobs : jobs[k] \in JobRecords
      /\ disk \subseteq Entries /\ page \subseteq Fragments
  BY WorldFields, WorldParts DEF MediaInv, WorldOK
<1>3. /\ jobs' \in Seq(JobRecords) /\ Len(jobs') = Len(jobs) /\ DOMAIN jobs' = DOMAIN jobs
      /\ \A k \in DOMAIN jobs : jobs'[k].spec = jobs[k].spec
  <2>1. \A k \in DOMAIN jobs : jobs'[k] \in JobRecords /\ jobs'[k].spec = jobs[k].spec
    <3>1. ASSUME NEW k \in DOMAIN jobs
          PROVE  jobs'[k] \in JobRecords /\ jobs'[k].spec = jobs[k].spec
      <4>1. CASE k = j
        <5>1. jobs'[k] = [jobs[j] EXCEPT !.result = answer]
          BY <1>1, <1>2, <4>1
        <5> QED
          BY <1>2, <4>1, <5>1 DEF JobRecords
      <4>2. CASE k # j
        BY <1>1, <1>2, <4>2
      <4> QED
        BY <4>1, <4>2
    <3> QED
      BY <3>1
  <2>2. DOMAIN jobs' = DOMAIN jobs /\ jobs' = [k \in 1..Len(jobs) |-> jobs'[k]]
    BY <1>1, <1>2
  <2> QED
    BY <1>2, <2>1, <2>2
<1>4. ASSUME NEW g, GraphOK(g, jobs, disk)
      PROVE  GraphOK(g, jobs', disk)
  <2>1. Len(jobs) <= Len(jobs') /\ disk \subseteq disk
    BY <1>2, <1>3
  <2> QED
    BY <1>2, <1>3, <1>4, <2>1, GraphStays
<1>5. WorldOK(World)'
  <2>1. GraphOK(graph, jobs, disk) /\ Unique(graph, jobs) /\ PageOK(World)
    BY WorldFields DEF MediaInv, WorldOK
  <2>2. World' \in WorldType
    BY <1>1, <1>2, <1>3 DEF World, WorldType
  <2>3. GraphOK(graph, jobs, disk)'
    BY <1>1, <1>4, <2>1
  <2>4. Unique(graph, jobs)'
    BY <1>1, <1>3, <2>1 DEF Unique
  <2>5. PageOK(World)'
    BY <1>1, <2>1, WorldFields DEF PageOK
  <2> QED
    BY <2>2, <2>3, <2>4, <2>5, WorldFields DEF WorldOK
<1>6. SessionType'
  BY <1>1, <1>3 DEF MediaInv, SessionType
<1>7. NothingYet'
  BY <1>1, <1>3 DEF MediaInv, NothingYet
<1>8. HistoryOK'
  <2>1. \A k \in DOMAIN saved : GraphOK(saved[k].graph, jobs', disk')
    BY <1>1, <1>4 DEF MediaInv, HistoryOK
  <2> QED
    BY <1>1, <2>1 DEF MediaInv, HistoryOK
<1> QED
  BY <1>5, <1>6, <1>7, <1>8 DEF MediaInv

\* Nothing happens.
LEMMA StutterInv ==
    ASSUME MediaInv, UNCHANGED vars
    PROVE  MediaInv'
<1>1. World' = World /\ undone' = undone
  BY DEF vars, World
<1>2. WorldOK(World)'
  BY <1>1, SameFate DEF MediaInv
<1>3. SessionType' /\ NothingYet' /\ HistoryOK'
  BY DEF MediaInv, SessionType, NothingYet, HistoryOK, vars
<1> QED
  BY <1>2, <1>3 DEF MediaInv

\* MediaInv is an invariant of the specification.
LEMMA MediaInvariant == Spec => []MediaInv
<1>1. Init => MediaInv
  BY InitInv
<1>2. MediaInv /\ [Next]_vars => MediaInv'
  <2> SUFFICES ASSUME MediaInv, [Next]_vars PROVE MediaInv'
    OBVIOUS
  <2>1. ASSUME NEW eager \in BOOLEAN, CreateStory(eager) PROVE MediaInv'
    BY <2>1, CreateInv
  <2>2. ASSUME NEW eager \in BOOLEAN, CreateStoryFails(eager) PROVE MediaInv'
    BY <2>2, CreateFailsInv
  <2>3. ASSUME NEW n \in Blocks, Choose(n) PROVE MediaInv'
    BY <2>3, ChooseInv
  <2>4. ASSUME NEW n \in Blocks, ChooseFails(n) PROVE MediaInv'
    BY <2>4, ChooseFailsInv
  <2>5. ASSUME NEW k \in 1..MaxSteps, Rollback(k) PROVE MediaInv'
    BY <2>5, RollbackInv
  <2>6. ASSUME NEW j \in DOMAIN jobs, NEW answer \in Answers, Finish(j, answer)
        PROVE  MediaInv'
    BY <2>6, FinishInv
  <2>7. CASE UNCHANGED vars
    BY <2>7, StutterInv
  <2> QED
    BY <2>1, <2>2, <2>3, <2>4, <2>5, <2>6, <2>7 DEF Next
<1> QED
  BY <1>1, <1>2, PTL DEF Spec

-----------------------------------------------------------------------------
(* What follows from the invariant.                                        *)

\* There are no more resources than specifications.
LEMMA RitsBounded ==
    ASSUME NEW w, WorldOK(w)
    PROVE  Len(w.graph.rits) <= Cardinality(Specs) /\ DOMAIN w.graph.rits \subseteq Rits
<1> DEFINE l == Len(w.graph.rits)
           f == [i \in 1..l |-> w.graph.rits[i].spec]
<1>1. /\ l \in Nat /\ DOMAIN w.graph.rits = 1..l
      /\ \A i \in 1..l : w.graph.rits[i].spec \in Specs
  BY WorldParts DEF WorldOK
<1>2. IsFiniteSet(Specs) /\ Cardinality(Specs) \in Nat
  BY MediaAssumption, FS_CardinalityType
<1>3. \A i, j \in 1..l : w.graph.rits[i].spec = w.graph.rits[j].spec => i = j
  BY <1>1 DEF WorldOK, GraphOK
<1> HIDE DEF l
<1>4. f \in Injection(1..l, Specs)
  BY <1>1, <1>3 DEF Injection, IsInjective
<1> HIDE DEF f
<1>5. Cardinality(1..l) <= Cardinality(Specs)
  BY <1>2, <1>4, FS_Injection
<1>6. Cardinality(1..l) = l
  BY <1>1, FS_Interval
<1> QED
  BY <1>1, <1>2, <1>5, <1>6 DEF Rits, l

\* The variables are of their types: there are no more resources than
\* specifications, and exactly the running ones refer to a job.
THEOREM MediaTypes == Spec => []TypeOK
<1>1. MediaInv => TypeOK
  <2> SUFFICES ASSUME MediaInv PROVE TypeOK
    OBVIOUS
  <2>1. World \in WorldType /\ GraphOK(graph, jobs, disk)
    BY WorldFields DEF MediaInv, WorldOK
  <2>2. /\ graph.rits \in Seq(RitRecords) /\ Len(graph.rits) \in Nat
        /\ DOMAIN graph.rits = 1..Len(graph.rits)
        /\ \A i \in DOMAIN graph.rits : graph.rits[i] \in RitRecords
        /\ graph.slots \in [Slots -> Nat] /\ graph.mood \in Moods
        /\ Len(jobs) \in Nat /\ DOMAIN jobs = 1..Len(jobs)
    BY <2>1, WorldFields, WorldParts
  <2>3. \A i \in DOMAIN graph.rits :
            /\ graph.rits[i] \in [spec: Specs, status: Statuses, job: 0..Len(jobs)]
            /\ graph.rits[i].job # 0 <=> graph.rits[i].status = "running"
    <3>1. ASSUME NEW i \in DOMAIN graph.rits
          PROVE  /\ graph.rits[i] \in [spec: Specs, status: Statuses, job: 0..Len(jobs)]
                 /\ graph.rits[i].job # 0 <=> graph.rits[i].status = "running"
      <4> DEFINE r == graph.rits[i]
      <4>1. r \in RitRecords /\ RitOK(r, jobs, disk)
        BY <2>1, <2>2 DEF GraphOK
      <4> HIDE DEF r
      <4>2. r.job \in 0..Len(jobs) /\ (r.job # 0 <=> r.status = "running")
        BY <2>2, <4>1 DEF RitOK, RitRecords
      <4>3. r \in [spec: Specs, status: Statuses, job: 0..Len(jobs)]
        BY <4>1, <4>2 DEF RitRecords
      <4> QED
        BY <4>2, <4>3 DEF r
    <3> QED
      BY <3>1
  <2>4. graph.rits \in Seq([spec: Specs, status: Statuses, job: 0..Len(jobs)])
    <3> DEFINE S == [spec: Specs, status: Statuses, job: 0..Len(jobs)]
    <3>1. \A i \in 1..Len(graph.rits) : graph.rits[i] \in S
      BY <2>2, <2>3
    <3> HIDE DEF S
    <3>2. graph.rits = [i \in 1..Len(graph.rits) |-> graph.rits[i]]
      BY <2>2
    <3>3. graph.rits \in Seq(S)
      BY <2>2, <3>1, <3>2
    <3> QED
      BY <3>3 DEF S
  <2>5. graph.slots \in [Slots -> 0..Len(graph.rits)]
    BY <2>1, <2>2 DEF GraphOK
  <2>6. Len(graph.rits) <= Cardinality(Specs)
    BY RitsBounded, WorldFields DEF MediaInv
  <2> QED
    BY <2>2, <2>3, <2>4, <2>5, <2>6 DEF TypeOK, MediaInv, SessionType
<1> QED
  BY <1>1, MediaInvariant, PTL

\* A picture is asked of the worker once, however many slots want it and
\* however often choices failed, unless the submission was undone or the session
\* never heard that the worker had taken it; a
\* resource waits for the job of its own specification.
THEOREM PicturesAskedForOnce == Spec => []OneJob
<1>1. MediaInv => OneJob
  <2> SUFFICES ASSUME MediaInv PROVE OneJob
    OBVIOUS
  <2>1. GraphOK(graph, jobs, disk) /\ Unique(graph, jobs)
    BY WorldFields DEF MediaInv, WorldOK
  <2>2. ASSUME NEW i \in DOMAIN graph.rits, Has(graph, i, "running")
        PROVE  jobs[graph.rits[i].job].spec = graph.rits[i].spec
    BY <2>1, <2>2 DEF GraphOK, RitOK, Has
  <2> QED
    BY <2>1, <2>2 DEF OneJob, Unique
<1> QED
  BY <1>1, MediaInvariant, PTL

\* What a step of the session bound is bound to the same resource in every
\* later one, no resource goes back, and each fragment of the journal shows
\* what its slot is bound to, whatever failed or was rolled back in between.
THEOREM BindingsStand == Spec => []ClaimedForGood
<1>1. MediaInv => ClaimedForGood
  BY WorldFields DEF MediaInv, HistoryOK, WorldOK, PageOK, ClaimedForGood
<1> QED
  BY <1>1, MediaInvariant, PTL

\* The client is sent a picture for exactly those fragments whose resource is
\* resolved, and it is the one that was asked for.
THEOREM ClientsSeeWhatWasAsked == Spec => []PictureFits
<1>1. MediaInv => PictureFits
  <2> SUFFICES ASSUME MediaInv, NEW f \in page, NEW policy \in Policies
               PROVE  /\ Served(f, policy)[1] = "picture" <=> RitOf(f).status = "resolved"
                      /\ RitOf(f).status = "resolved" =>
                            Served(f, policy)[2] = {RitOf(f).spec}
    BY DEF PictureFits
  <2> DEFINE r == RitOf(f)
  <2>1. /\ GraphOK(graph, jobs, disk) /\ PageOK(World) /\ disk \subseteq Entries
    BY WorldFields, WorldParts DEF MediaInv, WorldOK
  <2>2. r.status = "resolved" => <<File(r.spec), r.spec>> \in disk
    <3>1. CASE f.was = << >>
      <4>1. f.rit \in DOMAIN graph.rits
        BY DetachedOK
      <4> QED
        BY <2>1, <3>1, <4>1 DEF RitOf, GraphOK, RitOK
    <3>2. CASE f.was # << >>
      BY <2>1, <3>2, WorldFields DEF RitOf, PageOK
    <3> QED
      BY <3>1, <3>2
  <2> HIDE DEF r
  <2>3. r.status = "resolved" => OnDisk(r.spec) = {r.spec}
    <3> SUFFICES ASSUME r.status = "resolved" PROVE OnDisk(r.spec) = {r.spec}
      OBVIOUS
    <3>1. \A e \in disk : e[1] = File(r.spec) => e[2] = r.spec
      BY <2>1 DEF Entries, File
    <3> DEFINE e == <<File(r.spec), r.spec>>
    <3>2. e \in disk /\ e[1] = File(r.spec) /\ e[2] = r.spec
      BY <2>2
    <3> HIDE DEF e
    <3> QED
      BY <3>1, <3>2 DEF OnDisk
  <2>4. CASE r.status = "resolved"
    <3>1. Served(f, policy) = <<"picture", {r.spec}>>
      BY <2>3, <2>4 DEF Served, r
    <3> QED
      BY <2>4, <3>1 DEF r
  <2>5. CASE r.status # "resolved"
    <3>1. Served(f, policy)[1] \in {"poll", "nothing", "static", "text"}
      BY <2>5 DEF Served, r
    <3> QED
      BY <2>5, <3>1 DEF r
  <2> QED
    BY <2>4, <2>5
<1> QED
  BY <1>1, MediaInvariant, PTL

\* A resource that waits for a job that is done is settled by a course that
\* polls it and hears the worker.
LEMMA PolledIsSettled ==
    ASSUME NEW w, WorldOK(w), NEW n \in Blocks, NEW step \in Nat,
           NEW i \in DOMAIN w.graph.rits, Has(w.graph, i, "running"),
           w.jobs[w.graph.rits[i].job].result \in Answers
    PROVE  Run(w, Hop(n, TRUE), n, step, {}).graph.rits[i].status \in {"resolved", "failed"}
<1> DEFINE ops == Hop(n, TRUE)
           c == Course(w, ops, n, step, {})
           x == c[i - 1]
           y == c[i]
           z == c[Len(ops)]
           j == w.graph.rits[i].job
           Settled(v) == i \in DOMAIN v.graph.rits
                            /\ v.graph.rits[i].status \in {"resolved", "failed"}
<1>1. i \in Rits /\ i \in Nat /\ i >= 1
  BY RitsBounded DEF Rits
<1>2. /\ ops \in Seq(Ops) /\ i \in 1..Len(ops) /\ ops[i] = [do |-> "poll", of |-> i]
      /\ Len(ops) \in Nat
  BY <1>1, HopOps, LenProperties
<1> HIDE DEF ops
<1>3. i - 1 \in 0..Len(ops) /\ i \in 0..Len(ops)
  BY <1>1, <1>2
<1>4. WorldOK(x) /\ Later(x, w, step) /\ WorldOK(y)
  BY <1>2, <1>3, CourseOK
<1>5. y = Poll(x, i, {})
  <2>1. y = Step(x, ops[i], n, step, {})
    BY <1>2, CourseSteps
  <2> HIDE DEF x, y
  <2> QED
    BY <1>2, <2>1 DEF Step
<1>6. Later(z, y, step)
  BY <1>2, <1>3, CourseLater
<1> HIDE DEF c, x, y, z
<1>7. /\ i \in DOMAIN x.graph.rits /\ x.graph.rits[i].status \in Statuses
      /\ Rank(w.graph.rits[i].status) <= Rank(x.graph.rits[i].status)
  BY <1>4, WorldParts DEF Later, Follows, WorldOK
<1>8. Settled(y)
  <2>1. Later(y, x, step)
    BY <1>4, <1>5, PollStep
  <2>2. i \in DOMAIN y.graph.rits
    BY <1>7, <2>1 DEF Later, Follows
  <2>3. CASE Has(x.graph, i, "running")
    <3>1. x.graph.rits[i].job = j
      BY <1>4, <2>3 DEF Later
    <3>2. x.jobs[j] = w.jobs[j]
      <4>1. j \in DOMAIN w.jobs
        BY DEF WorldOK, GraphOK, RitOK, Has
      <4> QED
        BY <1>4, <4>1 DEF Later
    <3>3. x.graph.rits[i].job \notin {} /\ x.jobs[x.graph.rits[i].job].result \in Answers
      BY <3>1, <3>2
    <3>4. y.graph.rits[i].status \in {"resolved", "failed"}
      BY <1>4, <1>5, <2>3, <3>3, PollStep
    <3> QED
      BY <2>2, <3>4
  <2>4. CASE ~Has(x.graph, i, "running")
    <3>1. y = x
      BY <1>5, <2>4 DEF Poll
    <3>2. x.graph.rits[i].status \in {"resolved", "failed"}
      BY <1>7, <2>4 DEF Has, Rank, Statuses
    <3> QED
      BY <1>7, <3>1, <3>2
  <2> QED
    BY <2>3, <2>4
<1>9. z.graph.rits[i].status \in {"resolved", "failed"}
  <2>1. Rank(y.graph.rits[i].status) = 2
    BY <1>8 DEF Rank
  <2> QED
    BY <1>6, <1>8, <2>1 DEF Later, Follows
<1>10. Run(w, Hop(n, TRUE), n, step, {}) = z
  BY DEF Run, z, c, ops
<1> QED
  BY <1>9, <1>10

\* A choice of a session whose dispatcher is still with it settles every
\* resource whose job was done, when the worker is at hand.
THEOREM AnswersAreCollected == Spec => ResultsCollected
<1> DEFINE Collects ==
        (cursor \in Blocks /\ Len(saved') > Len(saved) /\ keeps /\ ~remote) =>
          \A i \in DOMAIN graph.rits :
            (Has(graph, i, "running") /\ jobs[graph.rits[i].job].result # "none") => Settles(i)
<1>1. MediaInv /\ [Next]_vars => [Collects]_vars
  <2> SUFFICES ASSUME MediaInv, Next, cursor \in Blocks, Len(saved') > Len(saved),
                      keeps, ~remote, NEW i \in DOMAIN graph.rits,
                      Has(graph, i, "running"), jobs[graph.rits[i].job].result # "none"
               PROVE  Settles(i)
    BY DEF vars
  <2>1. saved \in Seq(Steps) /\ Len(saved) \in Nat /\ keeps = TRUE
    BY LenProperties DEF MediaInv, SessionType
  <2>2. \E n \in Blocks : Choose(n)
    <3>1. \A eager \in BOOLEAN : ~CreateStory(eager)
      BY DEF CreateStory
    <3>2. \A eager \in BOOLEAN : ~CreateStoryFails(eager)
      BY DEF CreateStoryFails
    <3>3. \A n \in Blocks : ~ChooseFails(n)
      <4>1. ~(saved' = saved)
        BY <2>1
      <4> QED
        BY <4>1 DEF ChooseFails
    <3>4. \A k \in 1..MaxSteps : ~Rollback(k)
      <4> SUFFICES ASSUME NEW k \in 1..MaxSteps, Rollback(k) PROVE FALSE
        OBVIOUS
      <4>1. k \in 1..(Len(saved) - 1) /\ saved' = SubSeq(saved, 1, k)
        BY DEF Rollback
      <4>2. Len(saved') = k
        BY <2>1, <4>1
      <4> QED
        BY <2>1, <4>1, <4>2
    <3>5. \A j \in DOMAIN jobs, answer \in Answers : ~Finish(j, answer)
      <4>1. ~(saved' = saved)
        BY <2>1
      <4> QED
        BY <4>1 DEF Finish
    <3> QED
      BY <3>1, <3>2, <3>3, <3>4, <3>5 DEF Next
  <2>3. PICK n \in Blocks : Choose(n)
    BY <2>2
  <2>4. graph' = Run(World, Hop(n, TRUE), n, Len(saved) + 1, {}).graph
    <3>1. Unheard = {{}}
      BY DEF Unheard
    <3> QED
      BY <2>1, <2>3, <3>1 DEF Choose
  <2>5. WorldOK(World) /\ World.graph = graph /\ World.jobs = jobs
    BY WorldFields DEF MediaInv
  <2>6. jobs[graph.rits[i].job].result \in Answers
    <3>1. graph.rits[i].job \in DOMAIN jobs
      BY <2>5 DEF WorldOK, GraphOK, RitOK, Has
    <3>2. jobs[graph.rits[i].job] \in JobRecords
      BY <2>5, <3>1, WorldParts DEF WorldOK
    <3> QED
      BY <3>2 DEF JobRecords
  <2>7. Len(saved) + 1 \in Nat
    BY <2>1
  <2>8. Run(World, Hop(n, TRUE), n, Len(saved) + 1, {}).graph.rits[i].status
            \in {"resolved", "failed"}
    BY <2>3, <2>5, <2>6, <2>7, PolledIsSettled
  <2> QED
    BY <2>4, <2>8 DEF Settles
<1> QED
  BY <1>1, MediaInvariant, PTL DEF Spec, ResultsCollected
=============================================================================
