-------------------------------- MODULE Ledger --------------------------------
(***************************************************************************)
(* The ledger (vm/runtime/ledger.py): the long-lived state of one          *)
(* traversal.  It runs frames, writes their results back, records every    *)
(* hop for replay, and rolls back by replaying the recorded deltas from a  *)
(* checkpoint (vm/replay/engine.py, vm/replay/patch.py).                   *)
(***************************************************************************)
EXTENDS Frame

CONSTANTS
    Entry,              \* the node the story starts at
    checkpoint_cadence, \* choices between two checkpoints
    Primed,             \* the service seeds the entry's journal (create_story)
    KeepsRejected,      \* choices are found by query: a rejected one is saved
    NativeStore,        \* the store holds the object itself (native_in_mem)
    MaxSteps,           \* bound: no choice starts at or beyond this step
    MaxStream,          \* bound: nor with this many records in the stream
    DebugTools,         \* tools may break causality between choices
    MarkSteps,          \* explicit steps a bookmark may be set at
    RollbackSteps       \* steps a rollback may be asked for

ASSUME LedgerAssumption ==
    /\ Entry \in Nodes
    /\ checkpoint_cadence \in Nat \ {0}
    /\ Primed \in BOOLEAN /\ KeepsRejected \in BOOLEAN
    /\ NativeStore \in BOOLEAN /\ DebugTools \in BOOLEAN
    /\ MaxSteps \in Nat /\ MaxStream \in Nat
    /\ MarkSteps \subseteq Nat /\ RollbackSteps \subseteq Nat

VARIABLES
    cursor_id, cursor_history, cursor_steps, choice_steps, reentrant_steps,
    call_stack_ids, current_update_start_step

ledgerVars == <<cursor_id, cursor_history, cursor_steps, choice_steps,
                reentrant_steps, call_stack_ids, current_update_start_step>>
vars == <<frameVars, ledgerVars>>

Idle == frame.at = "idle"

\* No frame runs, and the service has primed the ledger if it does so: a new
\* ledger holds its first checkpoint alone.
Ready == Idle /\ (Primed => Len(output_stream) > 1)

\* The records that get_journal returns.
IsJournal(r) == r.kind \in {"fragment", "section", "bookmark"}

\* from_graph: counters, then the checkpoint of step 0.
Init ==
    /\ graph = AuthoredGraph
    /\ output_stream = <<CheckpointRecord(0, AuthoredGraph, Entry, <<>>)>>
    /\ causality_mode = CLEAN
    /\ frame = IdleFrame
    /\ cursor_id = Entry /\ cursor_history = <<Entry>>
    /\ cursor_steps = 0 /\ choice_steps = 0 /\ reentrant_steps = 0
    /\ call_stack_ids = <<>> /\ current_update_start_step = 0

-----------------------------------------------------------------------------
\* _provision_selected_destination: an edge left open is bound to what its
\* destination dependency resolves to, before any frame exists.
ProvisionDestination(g, e) ==
    IF g.successor[e] = NoNode THEN [g EXCEPT !.successor[e] = Destination[e]] ELSE g

\* resolve_choice up to the frame: any edge of the graph may be named.
BeginChoice(e) ==
    /\ Ready
    /\ cursor_steps < MaxSteps /\ Len(output_stream) < MaxStream
    /\ graph' = ProvisionDestination(graph, e)
    /\ frame' = StartFrame(AlongEdge(graph', e), cursor_id, call_stack_ids,
                           cursor_steps, TRUE)
    /\ UNCHANGED <<output_stream, causality_mode, ledgerVars>>

\* Moves that stay on the same node, counted along a trace from `from`.
Reentries(from, trace) ==
    Cardinality({i \in 1..Len(trace) :
                    trace[i] = IF i = 1 THEN from ELSE trace[i - 1]})

Checkpoint(due, s, cursor, stack) ==
    AppendIf(output_stream, CheckpointRecord(s, Stored(graph), cursor, stack), due)

\* A request ends with a save, and the next one loads what was written.
Persisted(g) == IF NativeStore THEN g ELSE Stored(g)

Due(choices) == choices % checkpoint_cadence = 0

\* What _sync_from_frame and _prime_initial_update write back alike.
SyncFromFrame ==
    /\ cursor_steps' = cursor_steps + frame.cursor_steps
    /\ reentrant_steps' = reentrant_steps
          + Reentries(cursor_history[Len(cursor_history)], frame.cursor_trace)
    /\ cursor_id' = frame.cursor
    /\ cursor_history' = cursor_history \o frame.cursor_trace
    /\ call_stack_ids' = frame.return_stack
    /\ output_stream' = Checkpoint(Due(choice_steps'), cursor_steps', cursor_id',
                                   call_stack_ids')
    /\ graph' = Persisted(graph)
    /\ frame' = IdleFrame
    /\ UNCHANGED causality_mode

\* Mutant: the update starts at the step the choice was made from.
UpdateStartEarly == cursor_steps

\* The watermark of get_current_update: the first step of the choice.
UpdateStart == cursor_steps + 1

\* resolve_choice after the frame: _commit_frame_choice and the watermark.
CommitChoice ==
    /\ frame.at = "done" /\ frame.observed
    /\ choice_steps' = choice_steps + 1
    /\ current_update_start_step' = UpdateStart
    /\ SyncFromFrame

\* Mutant: the object is not dropped, only its graph is loaded again.
ReloadGraphOnly ==
    /\ graph' = frame.loaded.graph
    /\ UNCHANGED <<output_stream, causality_mode>>

\* The object is dropped without a save, and the ledger loaded again.
Reload ==
    /\ graph' = frame.loaded.graph
    /\ output_stream' = frame.loaded.stream
    /\ causality_mode' = frame.loaded.mode

\* What a failed choice has done so far stays: the object is the stored one, or
\* a find-edge request answers the ValueError itself and saves the object.
Kept == frame.observed /\ (NativeStore \/ (KeepsRejected /\ ~DepthExceeded))

\* resolve_choice raises.  Nothing is written back to the counters, but the
\* graph is mutated and the records appended so far stay with the object: they
\* are gone only if the object is dropped and the ledger loaded again.  When
\* the priming hop raises there is no ledger yet, and it is created anew.
FailChoice ==
    /\ ResolveRaises
    /\ frame' = IdleFrame
    /\ \/ /\ Kept /\ graph' = Persisted(graph)
          /\ UNCHANGED <<output_stream, causality_mode>>
       \/ ~(NativeStore /\ frame.observed) /\ Reload
    /\ UNCHANGED ledgerVars

-----------------------------------------------------------------------------
\* ServiceManager._prime_initial_update: goto_node(cursor), unobserved, on the
\* ledger create_story has just made, which has no journal yet.
Prime ==
    /\ Idle /\ ~Ready
    /\ frame' = StartFrame([edge |-> NoEdge, to |-> cursor_id, entry |-> PLANNING],
                           cursor_id, call_stack_ids, cursor_steps, FALSE)
    /\ UNCHANGED <<graph, output_stream, causality_mode, ledgerVars>>

CommitPrime ==
    /\ frame.at = "done" /\ ~frame.observed
    /\ UNCHANGED <<choice_steps, current_update_start_step>>
    /\ SyncFromFrame

-----------------------------------------------------------------------------
\* A transition of the causality mode, stamped with the step the ledger last
\* committed.  Handlers reach it through the phase context, tools directly.
Escalate(to) ==
    /\ \/ Ready /\ DebugTools
       \/ frame.at \in InPhase /\ frame.cursor \in Dirtying
    /\ causality_mode < to
    /\ to = SOFT_DIRTY => causality_mode = CLEAN
    /\ causality_mode' = to
    /\ output_stream' = Append(output_stream, CausalityTransition(cursor_steps, to))
    /\ UNCHANGED <<graph, frame, ledgerVars>>

\* set_bookmark, at the current step unless another is given; a name can be
\* used once.
SetBookmark(name, s) ==
    /\ Ready
    /\ \A i \in DOMAIN output_stream :
          output_stream[i].kind = "bookmark" => output_stream[i].name # name
    /\ output_stream' = Append(output_stream, Bookmark(s, name))
    /\ UNCHANGED <<graph, causality_mode, frame, ledgerVars>>

-----------------------------------------------------------------------------
(* Rollback.  Records are named by their place in the stream, which also   *)
(* gives the order in which records of one kind were created (their seq).  *)

\* Records of one kind are sorted by (step, seq).
Before(i, j) == \/ output_stream[i].step < output_stream[j].step
                \/ output_stream[i].step = output_stream[j].step /\ i <= j
Earliest(places) == CHOOSE i \in places : \A j \in places : Before(i, j)
Latest(places)   == CHOOSE i \in places : \A j \in places : Before(j, i)
Rank(places, i)  == Cardinality({j \in places : Before(j, i)})
Ordered(places)  ==
    [k \in 1..Cardinality(places) |-> CHOOSE i \in places : Rank(places, i) = k]

PlacesUpTo(kind, n) ==
    {i \in DOMAIN output_stream : /\ output_stream[i].kind = kind
                                  /\ output_stream[i].step <= n}

\* Mutant: the step rolled back to is left out.
StepsBefore(n) == {i \in PlacesUpTo("step", n) : output_stream[i].step < n}

\* _step_records(upto_step=n), and the checkpoints a rollback to n can use.
StepsUpTo(n) == PlacesUpTo("step", n)
CheckpointsUpTo(n) == PlacesUpTo("checkpoint", n)

\* The n-th smallest of a set of numbers.
Nth(numbers, n) ==
    CHOOSE k \in numbers : Cardinality({j \in numbers : j <= k}) = n

\* build_delta and Event.apply: what the events of a patch make of `members`.
\* Deleted ones go, the others keep their places, and the created ones, which
\* are one batch, follow by their uids, whatever the order they were added in.
Ascending(b) ==
    [b EXCEPT !.uids = [k \in DOMAIN b.uids |-> Nth({b.uids[i] : i \in DOMAIN b.uids}, k)]]
Patched(before, after) ==
    LET stay == {k \in DOMAIN before : \E m \in DOMAIN after : after[m] = before[k]}
        kept == [n \in 1..Cardinality(stay) |-> before[Nth(stay, n)]]
    IN  kept \o [k \in 1..(Len(after) - Len(kept)) |-> Ascending(after[Len(kept) + k])]

\* Patch.apply checks the graph's hash before and after: a delta applies only
\* to the very graph it was built from, if its events make it the very graph
\* it was built to.
Applies(delta, g) ==
    /\ delta.initial = g
    /\ Patched(g.built, delta.final.built) = delta.final.built

Chain(from, deltas) ==
    \A k \in DOMAIN deltas :
        Applies(deltas[k], IF k = 1 THEN from ELSE deltas[k - 1].final)

\* Mutant: the hop that ends at the checkpoint is replayed once more.
IsReplayedInclusive(base, r) == base.step <= r.step /\ r.delta_id # 0

\* The deltas replayed over a checkpoint are those of the hops after it.
IsReplayed(base, r) == base.step < r.step /\ r.delta_id # 0

\* Mutant: the restored graph is never put in place of the live one.
RestoredGraphForgotten(base, deltas) == graph

RestoredGraph(base, deltas) ==
    IF deltas = <<>> THEN base.payload ELSE deltas[Len(deltas)].final

\* Mutant: cursor and call stack are always the checkpoint's.
LandsAtCheckpoint(base, steps) == base

\* Cursor and call stack come from the last step record, if there is one.
LandsAt(base, steps) == IF steps = {} THEN base ELSE output_stream[Latest(steps)]

\* The deltas of the hops at some places, in order.
DeltasAt(places) ==
    [k \in 1..Cardinality(places) |->
        output_stream[output_stream[Ordered(places)[k]].delta_id]]

\* What rollback_to_step(n) computes before it assigns anything: the graph
\* from the last checkpoint and the deltas after it, the rest from all the
\* step records up to n.
Replay(n) ==
    LET base   == output_stream[Latest(CheckpointsUpTo(n))]
        first  == output_stream[Earliest(CheckpointsUpTo(n))]
        steps  == StepsUpTo(n)
        deltas == DeltasAt({i \in steps : IsReplayed(base, output_stream[i])})
        cursors == [k \in 1..Cardinality(steps) |->
                       output_stream[Ordered(steps)[k]].cursor_id]
    IN  [applies |-> Chain(base.payload, deltas),
         graph |-> RestoredGraph(base, deltas),
         cursor_id |-> LandsAt(base, steps).cursor_id,
         call_stack_ids |-> LandsAt(base, steps).call_stack_ids,
         history |-> <<first.cursor_id>> \o cursors,
         choices |-> Cardinality({i \in steps : output_stream[i].was_choice})]

\* Mutant: one step too many is kept.
CutoffLate(n) ==
    LET kept == {i \in DOMAIN output_stream :
                    HasStep(output_stream[i]) /\ output_stream[i].step <= n + 1}
    IN  CHOOSE i \in kept : \A j \in kept : j <= i

\* Everything up to the last record whose step is not beyond n is kept.
Cutoff(n) ==
    LET kept == {i \in DOMAIN output_stream :
                    HasStep(output_stream[i]) /\ output_stream[i].step <= n}
    IN  CHOOSE i \in kept : \A j \in kept : j <= i

\* rollback_to_step; when a delta does not apply it raises and changes nothing.
RollbackToStep(n) ==
    /\ Ready
    /\ n < cursor_steps
    /\ LET past == Replay(n)
       IN  /\ past.applies
           /\ graph' = past.graph
           /\ cursor_id' = past.cursor_id
           /\ call_stack_ids' = past.call_stack_ids
           /\ cursor_history' = past.history
           /\ reentrant_steps' = Reentries(past.history[1], Tail(past.history))
           /\ choice_steps' = past.choices
    /\ cursor_steps' = n
    /\ output_stream' = Append(SubSeq(output_stream, 1, Cutoff(n)),
                               RollbackRecord(n, cursor_steps))
    /\ UNCHANGED <<causality_mode, current_update_start_step, frame>>

-----------------------------------------------------------------------------
Next ==
    \/ \E e \in Edges : BeginChoice(e)
    \/ FrameStep /\ UNCHANGED ledgerVars
    \/ CommitChoice
    \/ FailChoice
    \/ Prime
    \/ CommitPrime
    \/ \E to \in {SOFT_DIRTY, HARD_DIRTY} : Escalate(to)
    \/ \E name \in BookmarkNames, s \in MarkSteps \cup {cursor_steps} :
          SetBookmark(name, s)
    \/ \E n \in RollbackSteps : RollbackToStep(n)

Spec == Init /\ [][Next]_vars

\* A choice runs as one synchronous call: once begun it is never left standing.
RunsOn == (FrameStep /\ UNCHANGED ledgerVars) \/ CommitChoice \/ FailChoice \/ CommitPrime
FairSpec == Spec /\ WF_vars(RunsOn)

-----------------------------------------------------------------------------
TypeOK ==
    /\ FrameTypeOK
    /\ cursor_id \in Nodes
    /\ cursor_history \in Seq(Nodes) /\ cursor_history # <<>>
    /\ cursor_steps \in Nat /\ choice_steps \in Nat /\ reentrant_steps \in Nat
    /\ call_stack_ids \in Seq(CallEdges)
    /\ current_update_start_step \in Nat

\* A rollback removes every step record beyond its target (rollback_to_step,
\* "destructive truncation").
RollbackTruncates ==
    [][\A n \in RollbackSteps : RollbackToStep(n) =>
          \A i \in DOMAIN output_stream' :
              output_stream'[i].kind = "step" => output_stream'[i].step <= n]_vars

\* A rollback leaves the cursor history it had at the target step: the one
\* recomputed from checkpoint and step records is a prefix of the one played
\* (rollback_to_step against _sync_from_frame).
RollbackKeepsHistory ==
    [][\A n \in RollbackSteps :
          RollbackToStep(n) => cursor_history' = SubSeq(cursor_history, 1, n + 1)]_vars

\* Every call made during a choice has returned when the choice commits, also
\* one left open by a rollback into the middle of an earlier choice: the frame
\* ends only on an empty return stack (_next_resolve_edge, _sync_from_frame).
CallsReturn == [][CommitChoice => call_stack_ids' = <<>>]_vars

\* Between choices no record in the stream belongs to a step the ledger has
\* not reached: rollback truncation and failed choices leave no future behind
\* (rollback_to_step, resolve_choice).
NoRecordAhead ==
    Idle => \A i \in DOMAIN output_stream :
                HasStep(output_stream[i]) => output_stream[i].step <= cursor_steps

\* After a choice, get_current_update returns the journal of exactly the hops
\* of that choice: everything it appended, nothing that was there before.
UpdateSlice(stream) ==
    {i \in DOMAIN stream : /\ IsJournal(stream[i])
                           /\ stream[i].step >= current_update_start_step'
                           /\ stream[i].step <= cursor_steps'}
UpdateIsLastChoice ==
    [][CommitChoice =>
        UpdateSlice(output_stream') =
            {i \in DOMAIN output_stream' : /\ i > Len(frame.loaded.stream)
                                           /\ IsJournal(output_stream'[i])}]_vars

\* A node is marked visited only for arrivals of the cursor, and never for the
\* ones a prereq redirect or a late entry phase cut short: the visit counts of
\* the graph stay within those of the cursor history (mark_visited against
\* get_visit_count).
VisitsWithinHistory ==
    Idle => \A n \in Nodes :
        graph.visits[n] <= Cardinality({i \in DOMAIN cursor_history : cursor_history[i] = n})

\* A choice that begins is committed or fails: redirects and returns cannot
\* keep the frame running for ever (MAX_RESOLVE_DEPTH).
ChoicesSettle == (frame.at = "follow") ~> Idle
=============================================================================
