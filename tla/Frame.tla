-------------------------------- MODULE Frame --------------------------------
(***************************************************************************)
(* The frame of one player action (vm/runtime/frame.py): resolve_choice    *)
(* follows an edge, runs the phase pipeline at its destination, and goes   *)
(* on with the redirect or with the return edge of the innermost call,     *)
(* until neither is left.  Every phase is a step, so that a handler may    *)
(* raise between any two of them.                                          *)
(***************************************************************************)
EXTENDS StoryGraph

CONSTANTS
    MAX_RESOLVE_DEPTH,  \* hops one resolve_choice may take
    Dirtying,           \* nodes whose handlers may break causality
    Faulty,             \* nodes whose handlers may raise
    BookmarkNames       \* names a bookmark may be given

ASSUME FrameAssumption == MAX_RESOLVE_DEPTH \in Nat \ {0}

VARIABLES
    graph,           \* the live graph, shared by ledger and frame
    output_stream,   \* the records and fragments appended so far
    causality_mode,  \* CLEAN, SOFT_DIRTY or HARD_DIRTY
    frame            \* the frame in flight; frame.at = "idle" when there is none

frameVars == <<graph, output_stream, causality_mode, frame>>

CLEAN == 0
SOFT_DIRTY == 1
HARD_DIRTY == 2

\* Where the frame stands: between two hops, before a phase, or at its end.
InPhase == {"planning", "prereqs", "update", "journal", "finalize", "postreqs"}
Places == InPhase \cup {"idle", "follow", "next", "done"}

IdleFrame ==
    [at |-> "idle", observed |-> FALSE, step_base |-> 0,
     cursor |-> NoNode, cursor_steps |-> 0, cursor_trace |-> <<>>,
     return_stack |-> <<>>, hop |-> NoHop, redirect |-> NoHop,
     was_choice |-> FALSE, depth |-> 0, before |-> AuthoredGraph,
     loaded |-> [graph |-> AuthoredGraph, stream |-> <<>>, mode |-> CLEAN]]

\* get_frame followed by the call of resolve_choice on one edge.  `loaded` is
\* what the action started from: the state a reload would bring back.
StartFrame(hop, cursor, stack, base, observed) ==
    [IdleFrame EXCEPT !.at = "follow", !.observed = observed,
        !.step_base = base, !.cursor = cursor, !.return_stack = stack,
        !.hop = hop, !.was_choice = TRUE,
        !.loaded = [graph |-> graph, stream |-> output_stream,
                    mode |-> causality_mode]]

Step == frame.step_base + frame.cursor_steps

AppendIf(s, r, cond) == IF cond THEN Append(s, r) ELSE s

-----------------------------------------------------------------------------
(* The records of the output stream.  Only deltas and rollback monuments   *)
(* have no step; a step record names its delta by its place in the stream. *)

Fragment(s)  == [kind |-> "fragment", step |-> s]
Receipt(s)   == [kind |-> "receipt", step |-> s]
Section(s)   == [kind |-> "section", step |-> s]
Bookmark(s, name) == [kind |-> "bookmark", step |-> s, name |-> name]
Delta(g, h)  == [kind |-> "delta", initial |-> g, final |-> h]
\* Mutant: redirect hops are recorded as choices.
StepRecordAsChoice(s, cursor, choice, delta, stack) ==
    [kind |-> "step", step |-> s, cursor_id |-> cursor, was_choice |-> TRUE,
     delta_id |-> delta, call_stack_ids |-> stack]

StepRecord(s, cursor, choice, delta, stack) ==
    [kind |-> "step", step |-> s, cursor_id |-> cursor, was_choice |-> choice,
     delta_id |-> delta, call_stack_ids |-> stack]
CheckpointRecord(s, g, cursor, stack) ==
    [kind |-> "checkpoint", step |-> s, payload |-> g, cursor_id |-> cursor,
     call_stack_ids |-> stack]
CausalityTransition(s, to) ==
    [kind |-> "transition", step |-> s, to_mode |-> to]
RollbackRecord(resumed, prior) ==
    [kind |-> "rollback", resumed_step |-> resumed, prior_step |-> prior]

HasStep(r) == r.kind \notin {"delta", "rollback"}

\* Ledger._record_step: what the step observer appends after a hop that took
\* the graph from `before`, a snapshot, to what a snapshot has of it now.
StepTrace(stream, choice, stack) ==
    LET changed == frame.before # Stored(graph)
        withDelta == AppendIf(stream, Delta(frame.before, Stored(graph)), changed)
        delta == IF changed THEN Len(withDelta) ELSE 0
        withMarker == AppendIf(withDelta, Section(Step), frame.cursor \in Sections)
    IN  Append(withMarker, StepRecord(Step, frame.cursor, choice, delta, stack))

Records ==
    [kind: {"fragment", "receipt", "section"}, step: Nat]
      \cup [kind: {"bookmark"}, step: Nat, name: BookmarkNames]
      \cup [kind: {"delta"}, initial: GraphValues, final: GraphValues]
      \cup [kind: {"step"}, step: Nat, cursor_id: Nodes, was_choice: BOOLEAN,
            delta_id: Nat, call_stack_ids: Seq(CallEdges)]
      \cup [kind: {"checkpoint"}, step: Nat, payload: GraphValues,
            cursor_id: Nodes, call_stack_ids: Seq(CallEdges)]
      \cup [kind: {"transition"}, step: Nat, to_mode: {SOFT_DIRTY, HARD_DIRTY}]
      \cup [kind: {"rollback"}, resumed_step: Nat, prior_step: Nat]

FrameType ==
    [at: Places, observed: BOOLEAN, step_base: Nat, cursor: Nodes \cup {NoNode},
     cursor_steps: Nat, cursor_trace: Seq(Nodes), return_stack: Seq(CallEdges),
     hop: Hops, redirect: Hops, was_choice: BOOLEAN, depth: Nat,
     before: GraphValues,
     loaded: [graph: GraphValues, stream: Seq(Records),
              mode: {CLEAN, SOFT_DIRTY, HARD_DIRTY}]]

FrameTypeOK ==
    /\ graph \in GraphValues
    /\ output_stream \in Seq(Records)
    /\ causality_mode \in {CLEAN, SOFT_DIRTY, HARD_DIRTY}
    /\ frame \in FrameType
    /\ frame.at # "idle" => frame.cursor \in Nodes

-----------------------------------------------------------------------------
\* Availability is permissive once causality is hard-dirty.
LiveGates == IF causality_mode = HARD_DIRTY THEN {} ELSE Gated

\* A hop that enters at a later phase skips the phases before it.
Runs(phase) == frame.hop.entry <= phase
Goto(at) == frame' = [frame EXCEPT !.at = at]

\* _prepare_follow_edge: validate against the old cursor, then move.
PrepareFollowEdge ==
    /\ frame.at = "follow"
    /\ frame.depth < MAX_RESOLVE_DEPTH
    /\ MayValidate(frame.hop)
    /\ frame' = [frame EXCEPT !.at = "planning", !.before = Stored(graph),
                    !.cursor = frame.hop.to,
                    !.cursor_steps = @ + 1,
                    !.cursor_trace = Append(@, frame.hop.to)]
    /\ UNCHANGED <<graph, output_stream, causality_mode>>

PlanningPhase ==
    /\ frame.at = "planning"
    /\ LET used == UidsOf(graph.built) \cup UidsOf(frame.before.built)
       IN  IF Runs(PLANNING)
           THEN \E found \in SUBSET Open(graph, frame.cursor),
                   uids \in NewUids(Projects[frame.cursor], used) :
                    graph' = Project(Provision(graph, found), frame.cursor, uids)
           ELSE graph' = graph
    /\ Goto("prereqs")
    /\ UNCHANGED <<output_stream, causality_mode>>

\* A redirect ends the hop at once: UPDATE, JOURNAL, FINALIZE and POSTREQS of
\* this node do not run.
PrereqsPhase ==
    /\ frame.at = "prereqs"
    /\ \E redirect \in IF Runs(PREREQS) THEN PrereqRedirects(graph, frame.cursor, LiveGates)
                                        ELSE {NoHop} :
          frame' = [frame EXCEPT
              !.at = IF redirect = NoHop THEN "update" ELSE "next",
              !.redirect = redirect]
    /\ UNCHANGED <<graph, output_stream, causality_mode>>

UpdatePhase ==
    /\ frame.at = "update"
    /\ graph' = IF Runs(UPDATE) THEN MarkVisited(graph, frame.cursor) ELSE graph
    /\ Goto("journal")
    /\ UNCHANGED <<output_stream, causality_mode>>

JournalPhase ==
    /\ frame.at = "journal"
    /\ output_stream' = AppendIf(output_stream, Fragment(Step),
                                Runs(JOURNAL) /\ frame.cursor \in Voiced)
    /\ Goto("finalize")
    /\ UNCHANGED <<graph, causality_mode>>

FinalizePhase ==
    /\ frame.at = "finalize"
    /\ output_stream' = AppendIf(output_stream, Receipt(Step),
                                Runs(FINALIZE) /\ frame.cursor \in Recording)
    /\ Goto("postreqs")
    /\ UNCHANGED <<graph, causality_mode>>

PostreqsPhase ==
    /\ frame.at = "postreqs"
    /\ \E redirect \in IF Runs(POSTREQS) THEN PostreqRedirects(graph, frame.cursor, LiveGates)
                                         ELSE {NoHop} :
          frame' = [frame EXCEPT !.at = "next", !.redirect = redirect]
    /\ UNCHANGED <<graph, output_stream, causality_mode>>

-----------------------------------------------------------------------------
\* _push_call_edge_if_needed: the call is pushed once its hop has run.
Pushed == AppendIf(frame.return_stack, frame.hop.edge, IsCall(frame.hop))

\* Mutant: the call is popped, but its return edge is not followed.
NextHopWithoutReturn(stack) == frame.redirect

\* _next_resolve_edge: the redirect, else the return edge of the last call,
\* which is popped.
NextStack(stack) ==
    IF frame.redirect = NoHop /\ stack # <<>> THEN SubSeq(stack, 1, Len(stack) - 1)
                                              ELSE stack
NextHop(stack) ==
    IF frame.redirect = NoHop /\ stack # <<>> THEN ReturnEdge(stack[Len(stack)])
                                              ELSE frame.redirect

\* The end of _run_resolve_iteration: push, pick the next edge, and only then
\* emit the step trace, which carries the stack as it is after both.
NextResolveEdge ==
    /\ frame.at = "next"
    /\ output_stream' =
          IF frame.observed
          THEN StepTrace(output_stream, frame.was_choice, NextStack(Pushed))
          ELSE output_stream
    /\ frame' = [frame EXCEPT
          !.at = IF NextHop(Pushed) = NoHop THEN "done" ELSE "follow",
          !.return_stack = NextStack(Pushed), !.hop = NextHop(Pushed),
          !.redirect = NoHop, !.was_choice = FALSE, !.depth = @ + 1]
    /\ UNCHANGED <<graph, causality_mode>>

FrameStep ==
    \/ PrepareFollowEdge \/ PlanningPhase \/ PrereqsPhase
    \/ UpdatePhase \/ JournalPhase \/ FinalizePhase \/ PostreqsPhase
    \/ NextResolveEdge

-----------------------------------------------------------------------------
\* Mutant: reaching the limit raises nothing.
DepthLimitSilent == FALSE

\* What makes resolve_choice raise: the depth limit (RecursionError), a failed
\* validation (ValueError, before the cursor moves), a handler of a phase.
DepthExceeded == frame.at = "follow" /\ frame.depth >= MAX_RESOLVE_DEPTH
ValidationFails ==
    /\ frame.at = "follow"
    /\ \/ frame.hop.entry <= VALIDATE /\ MayReject(frame.hop, LiveGates)
       \/ frame.hop.to = NoNode
HandlerFails ==
    /\ frame.at \in InPhase
    /\ frame.cursor \in Faulty
ResolveRaises == DepthExceeded \/ ValidationFails \/ HandlerFails
=============================================================================
