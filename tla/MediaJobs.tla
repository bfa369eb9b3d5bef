----------------------------- MODULE MediaJobs -----------------------------
(***************************************************************************)
(* Pictures that are made while the story is played (media, service/media, *)
(* journal).  A block's media slot is bound, when the block is planned, to *)
(* a resource of the graph: one that was asked for with the same           *)
(* specification, or a new one, made on the spot or left pending.  A       *)
(* planning pass first polls the jobs of running resources, and submits    *)
(* the pending ones to a worker that shares nothing with the session.      *)
(* Choices fail anywhere, the player rolls back, the worker answers late,  *)
(* badly or never.                                                         *)
(***************************************************************************)
EXTENDS Naturals, Sequences, FiniteSets, SequencesExt, FiniteSetsExt

CONSTANTS
    Start, Exits,   \* the first block; the successors of each block, in order
    Media,          \* the media slots of each block, in order
    Adapted,        \* what each slot asks for, in each mood the story may be in
    Mood, Effect,   \* the mood at first, and the one a visit of a block leaves
    Sync,           \* the specifications that are made on the spot
    Basename,       \* the authored label of each specification
    Fallback,       \* the specifications with a static stand-in
    Keeps,          \* the stores: TRUE keeps live objects, FALSE reloads them
    MaxSteps,       \* bound on the steps of a session
    MaxJobs         \* bound on the jobs after which nothing is undone any more

VARIABLES
    cursor,   \* the block the player is at
    graph,    \* the resources, what each slot is bound to, the mood
    saved,    \* the steps of the session: where, and the graph at its end
    page,     \* the media fragments of the journal
    jobs,     \* the worker's jobs: specification and result
    disk,     \* the story's media directory: files and what they were made for
    keeps,    \* this session's store keeps live objects, its dispatcher with them
    remote,   \* the worker is behind HTTP
    undone    \* history: the jobs whose submission a failure or rollback undid,
              \* or whose acceptance was never heard of

vars == <<cursor, graph, saved, page, jobs, disk, keeps, remote, undone>>

Blocks == DOMAIN Exits
Slots == DOMAIN Adapted
Moods == {Mood} \cup {Effect[b] : b \in Blocks}
Specs == {Adapted[s][m] : s \in Slots, m \in Moods}
Statuses == {"pending", "running", "resolved", "failed"}
Answers == {"made", "failed"}
Rits == 1..Cardinality(Specs)

ASSUME MediaAssumption ==
    /\ Start \in Blocks /\ "nowhere" \notin Blocks
    /\ Exits \in [Blocks -> Seq(Blocks)] /\ Media \in [Blocks -> Seq(Slots)]
    /\ Adapted \in Seq([Moods -> Specs]) /\ IsFiniteSet(Specs)
    /\ Keeps \subseteq BOOLEAN
    /\ MaxSteps \in Nat \ {0} /\ MaxJobs \in Nat

EmptyGraph == [rits |-> <<>>, slots |-> [s \in Slots |-> 0], mood |-> Mood]

-----------------------------------------------------------------------------
(* Resources.                                                              *)

Has(g, i, status) == i \in DOMAIN g.rits /\ g.rits[i].status = status
Asked(g, spec) == {i \in DOMAIN g.rits : g.rits[i].spec = spec}

\* Mutant: the file is named by the label alone.
FileByLabel(spec) == <<Basename[spec], {}>>

\* A file's name carries the fingerprint of the specification it was made for.
File(spec) == <<Basename[spec], {spec}>>
Write(d, spec) == {entry \in d : entry[1] # File(spec)} \cup {<<File(spec), spec>>}

New(g, slot, rit) ==
    [g EXCEPT !.rits = Append(@, rit), !.slots[slot] = Len(g.rits) + 1]

Create(w, slot, spec) ==
    IF spec \in Sync
    THEN [w EXCEPT !.graph = New(@, slot, [spec |-> spec, status |-> "resolved", job |-> 0]),
                   !.disk = Write(@, spec)]
    ELSE [w EXCEPT !.graph = New(@, slot, [spec |-> spec, status |-> "pending", job |-> 0])]

\* Mutant: what was asked for elsewhere is asked for again.
ResolveAnew(w, slot) ==
    IF w.graph.slots[slot] # 0 THEN w ELSE Create(w, slot, Adapted[slot][w.graph.mood])

\* Mutant: a bound slot follows the mood.
ResolveAgain(w, slot) ==
    LET spec == Adapted[slot][w.graph.mood]
        old == Asked(w.graph, spec)
    IN  CASE old # {} -> [w EXCEPT !.graph.slots[slot] = Min(old)]
          [] old = {} /\ w.graph.slots[slot] # 0 -> w
          [] OTHER -> Create(w, slot, spec)

\* A slot that is bound is never looked at again.  What the graph has for the
\* same specification comes first, whatever became of it.
Resolve(w, slot) ==
    LET spec == Adapted[slot][w.graph.mood]
        old == Asked(w.graph, spec)
    IN  CASE w.graph.slots[slot] # 0 -> w
          [] w.graph.slots[slot] = 0 /\ old # {} -> [w EXCEPT !.graph.slots[slot] = Min(old)]
          [] OTHER -> Create(w, slot, spec)

\* Mutant: a job that failed is still written down.
ApplyHalf(w, i, answer) ==
    IF answer = "failed" THEN [w EXCEPT !.graph.rits[i].status = "failed"]
    ELSE [w EXCEPT !.graph.rits[i].status = "resolved", !.graph.rits[i].job = 0,
                   !.disk = Write(@, w.graph.rits[i].spec)]

Apply(w, i, answer) ==
    IF answer = "failed"
    THEN [w EXCEPT !.graph.rits[i].status = "failed", !.graph.rits[i].job = 0]
    ELSE [w EXCEPT !.graph.rits[i].status = "resolved", !.graph.rits[i].job = 0,
                   !.disk = Write(@, w.graph.rits[i].spec)]

\* Mutant: only the resources bound at the player's block are polled.
PollHere(w, i, silent) ==
    LET j == w.graph.rits[i].job
        near == \E s \in Slots : w.graph.slots[s] = i /\ Contains(Media[cursor], s)
    IN  IF Has(w.graph, i, "running") /\ near /\ j \notin silent /\ w.jobs[j].result \in Answers
        THEN Apply(w, i, w.jobs[j].result) ELSE w

\* A job that is not done, or a worker that cannot be reached, answers nothing.
Poll(w, i, silent) ==
    LET j == w.graph.rits[i].job
    IN  IF Has(w.graph, i, "running") /\ j \notin silent /\ w.jobs[j].result \in Answers
        THEN Apply(w, i, w.jobs[j].result) ELSE w

Submit(w, i) ==
    IF Has(w.graph, i, "pending")
    THEN [w EXCEPT !.jobs = Append(@, [spec |-> w.graph.rits[i].spec, result |-> "none"]),
                   !.graph.rits[i].status = "running",
                   !.graph.rits[i].job = Len(w.jobs) + 1]
    ELSE w

\* Behind HTTP a job may be taken and the answer be lost or of no use: the
\* submission raises, and the resource is as pending as before.
Taken(w, i) ==
    IF Has(w.graph, i, "pending") /\ Len(w.jobs) < MaxJobs
    THEN [w EXCEPT !.jobs = Append(@, [spec |-> w.graph.rits[i].spec, result |-> "none"])]
    ELSE w

Update(w, n) == [w EXCEPT !.graph.mood = Effect[n]]

\* A fragment refers to its resource, whatever its status.
Journal(w, n, step) ==
    [w EXCEPT !.page = @ \cup
        {[step |-> step, slot |-> s, rit |-> w.graph.slots[s], was |-> <<>>] :
            s \in {t \in ToSet(Media[n]) : w.graph.slots[t] # 0}}]

-----------------------------------------------------------------------------
(* One hop to a block: the phases as a sequence of steps, each of which    *)
(* may raise.                                                              *)

Each(do, of) == [k \in DOMAIN of |-> [do |-> do, of |-> of[k]]]
Around(n) ==
    LET upto[k \in 0..Len(Exits[n])] ==
            IF k = 0 THEN <<>> ELSE upto[k - 1] \o Media[Exits[n][k]]
    IN  upto[Len(Exits[n])]
EveryRit == [i \in Rits |-> i]

\* The pass over the jobs and the submissions are part of the planning of the
\* cursor; its successors are planned after that.
Hop(n, dispatcher) ==
    (IF dispatcher THEN Each("poll", EveryRit) ELSE <<>>)
    \o Each("resolve", Media[n])
    \o (IF dispatcher THEN Each("submit", EveryRit) ELSE <<>>)
    \o Each("resolve", Around(n))
    \o <<[do |-> "update", of |-> 0], [do |-> "journal", of |-> 0]>>

MayRaise(op) == op.do = "submit" => remote
Step(w, op, n, step, silent) ==
    CASE op.do = "poll" -> Poll(w, op.of, silent)
      [] op.do = "resolve" -> Resolve(w, op.of)
      [] op.do = "submit" -> Submit(w, op.of)
      [] op.do = "update" -> Update(w, n)
      [] op.do = "journal" -> Journal(w, n, step)

\* The worlds that a sequence of steps leads through, from w on.
Course(w, ops, n, step, silent) ==
    LET after[k \in 0..Len(ops)] ==
            IF k = 0 THEN w ELSE Step(after[k - 1], ops[k], n, step, silent)
    IN  after
Run(w, ops, n, step, silent) == Course(w, ops, n, step, silent)[Len(ops)]

\* Where a hop stops when it raises: before the step that raised, or, in a
\* phase that has nothing to do with media, after all of them.  A submission
\* may also raise when the worker has taken the job.
Stops(ops) ==
    {Len(ops)} \cup {k \in 0..(Len(ops) - 1) : MayRaise(ops[k + 1])}
Outcomes(w, ops, n, step, silent) ==
    LET after == Course(w, ops, n, step, silent)
        sent == {k \in Stops(ops) \ {Len(ops)} : ops[k + 1].do = "submit"}
    IN  {after[k] : k \in Stops(ops)} \cup {Taken(after[k], ops[k + 1].of) : k \in sent}

\* A worker behind HTTP may be out of reach for the length of a pass.
Unheard == IF remote THEN {{}, DOMAIN jobs} ELSE {{}}

-----------------------------------------------------------------------------
(* Requests.                                                               *)

World == [graph |-> graph, jobs |-> jobs, disk |-> disk, page |-> page]
AllSlots == [s \in Slots |-> s]
Fresh(eager) ==
    LET w == [graph |-> EmptyGraph, jobs |-> jobs, disk |-> {}, page |-> {}]
    IN  IF eager THEN Run(w, Each("resolve", AllSlots), Start, 1, {}) ELSE w

\* create_story: the only request that gives the ledger a dispatcher.
CreateStory(eager) ==
    /\ cursor \notin Blocks
    /\ LET w == Run(Fresh(eager), Hop(Start, TRUE), Start, 1, {})
       IN  /\ graph' = w.graph /\ jobs' = w.jobs /\ disk' = w.disk /\ page' = w.page
           /\ cursor' = Start
           /\ saved' = <<[at |-> Start, graph |-> w.graph]>>
    /\ UNCHANGED <<keeps, remote, undone>>

\* The jobs that a graph knows nothing of.
Claimed(g) == {g.rits[i].spec : i \in {j \in DOMAIN g.rits : g.rits[j].status # "pending"}}
Orphans(js, g) == {j \in DOMAIN js : js[j].spec \notin Claimed(g)}

\* A story that raises while it is created is not kept; its jobs go on.
CreateStoryFails(eager) ==
    /\ cursor \notin Blocks /\ Len(jobs) < MaxJobs
    /\ \E w \in Outcomes(Fresh(eager), Hop(Start, TRUE), Start, 1, {}) :
          jobs' = w.jobs /\ undone' = DOMAIN w.jobs
    /\ UNCHANGED <<cursor, graph, saved, page, disk, keeps, remote>>

Choose(n) ==
    /\ cursor \in Blocks /\ n \in ToSet(Exits[cursor]) /\ Len(saved) < MaxSteps
    /\ \E silent \in Unheard :
          LET w == Run(World, Hop(n, keeps), n, Len(saved) + 1, silent)
          IN  /\ graph' = w.graph /\ jobs' = w.jobs /\ disk' = w.disk /\ page' = w.page
              /\ saved' = Append(saved, [at |-> n, graph |-> w.graph])
    /\ cursor' = n
    /\ UNCHANGED <<keeps, remote, undone>>

\* A choice that raises: a store that reloads its objects drops what it did to
\* the session, one that keeps them does not; files and jobs stay in any case.
ChooseFails(n) ==
    /\ cursor \in Blocks /\ n \in ToSet(Exits[cursor]) /\ Len(saved) < MaxSteps
    /\ \E w \in UNION {Outcomes(World, Hop(n, keeps), n, Len(saved) + 1, silent) :
                        silent \in Unheard} :
          /\ jobs' = w.jobs /\ disk' = w.disk
          /\ graph' = IF keeps THEN w.graph ELSE graph
          /\ page' = IF keeps THEN w.page ELSE page
    /\ undone' = undone \cup Orphans(jobs', graph')
    /\ UNCHANGED <<cursor, saved, keeps, remote>>

\* Live fragments keep hold of the resources of the graph that is replaced.
Detach(f) == IF keeps /\ f.was = <<>> THEN [f EXCEPT !.was = <<graph.rits[f.rit]>>] ELSE f

Rollback(k) ==
    /\ k \in 1..(Len(saved) - 1) /\ Len(jobs) < MaxJobs
    /\ saved' = SubSeq(saved, 1, k)
    /\ graph' = saved[k].graph
    /\ cursor' = saved[k].at
    /\ page' = {Detach(f) : f \in {e \in page : e.step <= k}}
    /\ undone' = undone \cup Orphans(jobs, graph')
    /\ UNCHANGED <<jobs, disk, keeps, remote>>

\* The worker is done with a job; it may never be.
Finish(j, answer) ==
    /\ j \in DOMAIN jobs /\ jobs[j].result = "none"
    /\ jobs' = [jobs EXCEPT ![j].result = answer]
    /\ UNCHANGED <<cursor, graph, saved, page, disk, keeps, remote, undone>>

Init ==
    /\ cursor = "nowhere" /\ graph = EmptyGraph
    /\ saved = <<>> /\ page = {} /\ jobs = <<>> /\ disk = {} /\ undone = {}
    /\ keeps \in Keeps /\ remote \in BOOLEAN

Next ==
    \/ \E eager \in BOOLEAN : CreateStory(eager) \/ CreateStoryFails(eager)
    \/ \E n \in Blocks : Choose(n) \/ ChooseFails(n)
    \/ \E k \in 1..MaxSteps : Rollback(k)
    \/ \E j \in DOMAIN jobs, answer \in Answers : Finish(j, answer)

Spec == Init /\ [][Next]_vars
-----------------------------------------------------------------------------
(* What the client is sent for a fragment (service/media).                 *)

Policies == {"poll", "discard", "fallback"}
RitOf(f) == IF f.was = <<>> THEN graph.rits[f.rit] ELSE f.was[1]
OnDisk(spec) == {entry[2] : entry \in {e \in disk : e[1] = File(spec)}}
Served(f, policy) ==
    LET r == RitOf(f)
    IN  IF r.status = "resolved" /\ OnDisk(r.spec) # {} THEN <<"picture", OnDisk(r.spec)>>
        ELSE IF r.status \in {"pending", "running"} /\ policy = "poll" THEN <<"poll", {}>>
        ELSE IF policy = "discard" THEN <<"nothing", {}>>
        ELSE IF r.spec \in Fallback THEN <<"static", {}>>
        ELSE <<"text", {}>>

-----------------------------------------------------------------------------
TypeOK ==
    /\ cursor \in Blocks \cup {"nowhere"}
    /\ graph.rits \in Seq([spec : Specs, status : Statuses, job : 0..Len(jobs)])
    /\ graph.slots \in [Slots -> 0..Len(graph.rits)] /\ graph.mood \in Moods
    /\ Len(graph.rits) <= Cardinality(Specs)
    /\ \A i \in DOMAIN graph.rits :
          graph.rits[i].job # 0 <=> graph.rits[i].status = "running"
    /\ Len(saved) <= MaxSteps /\ undone \subseteq DOMAIN jobs

\* "No duplicate jobs" (GENERATIVE_MEDIA_DESIGN.md): a picture is asked of the
\* worker once, however many slots want it and however often choices failed,
\* unless the submission was undone, or the session never heard that the worker
\* had taken it, and the job a resource waits for is the one for its specification.
OneJob ==
    /\ \A j, k \in DOMAIN jobs \ undone : jobs[j].spec = jobs[k].spec => j = k
    /\ \A i \in DOMAIN graph.rits :
          Has(graph, i, "running") => jobs[graph.rits[i].job].spec = graph.rits[i].spec

\* "Once a dep's provider_id is set, that dep is claimed": what an earlier step
\* bound stays bound to the same resource, a resource never goes back to an
\* earlier status nor from one end to the other, and every fragment the journal
\* has kept finds its resource where a reload looks for it.
Rank(status) == IF status = "pending" THEN 0 ELSE IF status = "running" THEN 1 ELSE 2
Follows(new, old) ==
    /\ \A s \in Slots : old.slots[s] # 0 => new.slots[s] = old.slots[s]
    /\ \A i \in DOMAIN old.rits :
          /\ i \in DOMAIN new.rits /\ new.rits[i].spec = old.rits[i].spec
          /\ Rank(old.rits[i].status) <= Rank(new.rits[i].status)
          /\ Rank(old.rits[i].status) = 2 => new.rits[i].status = old.rits[i].status
ClaimedForGood ==
    /\ \A k \in DOMAIN saved :
          Follows(IF k < Len(saved) THEN saved[k + 1].graph ELSE graph, saved[k].graph)
    /\ \A f \in page : graph.slots[f.slot] = f.rit

\* The client is sent a picture for exactly those fragments whose resource is
\* resolved, and it is the picture that was asked for, also after the session
\* went back to before the file was written and wrote it again.
PictureFits ==
    \A f \in page, policy \in Policies :
        LET r == RitOf(f)
        IN  /\ Served(f, policy)[1] = "picture" <=> r.status = "resolved"
            /\ r.status = "resolved" => Served(f, policy)[2] = {r.spec}

\* "Poll async worker jobs once per planning pass and update story RITs"
\* (reconcile_media_jobs): a choice settles every resource whose job was done.
Settles(i) == graph'.rits[i].status \in {"resolved", "failed"}
EveryPassPolls ==
    [][ (cursor \in Blocks /\ Len(saved') > Len(saved) /\ ~remote) =>
          \A i \in DOMAIN graph.rits :
            (Has(graph, i, "running") /\ jobs[graph.rits[i].job].result # "none") => Settles(i)
      ]_vars

\* The same of a session whose dispatcher is still with it.
ResultsCollected ==
    [][ (cursor \in Blocks /\ Len(saved') > Len(saved) /\ keeps /\ ~remote) =>
          \A i \in DOMAIN graph.rits :
            (Has(graph, i, "running") /\ jobs[graph.rits[i].job].result # "none") => Settles(i)
      ]_vars
=============================================================================
