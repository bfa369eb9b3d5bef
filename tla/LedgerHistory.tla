----------------------------- MODULE LedgerHistory -----------------------------
(***************************************************************************)
(* The ledger with a history variable: `lived` keeps the moment in which   *)
(* every hop ended, as it was when it was played, so that what the records *)
(* restore can be compared with it.                                        *)
(***************************************************************************)
EXTENDS Ledger

VARIABLE lived

hvars == <<vars, lived>>

\* The journal content of step n, by its places in the stream.
ContentOf(stream, n) ==
    LET places == {i \in DOMAIN stream : IsJournal(stream[i]) /\ stream[i].step = n}
    IN  [i \in places |-> stream[i]]

\* Of the graph a moment keeps what can be stored.
MomentAt(g, cursor, stack, stream, n) ==
    [graph |-> Stored(g), cursor |-> cursor, stack |-> stack,
     content |-> ContentOf(stream, n)]

Start == MomentAt(AuthoredGraph, Entry, <<>>, <<>>, 0)

HInit == Init /\ lived = <<Start>>

\* A hop that ends adds its moment.  Between choices only the moments of the
\* committed steps remain: a failed choice and a rollback drop the others.
Remember ==
    lived' = IF frame.at = "next"
             THEN Append(lived, MomentAt(graph, frame.cursor, frame'.return_stack,
                                         output_stream', Step))
             ELSE IF frame'.at = "idle" THEN SubSeq(lived, 1, cursor_steps' + 1)
             ELSE lived

HNext == Next /\ Remember

HSpec == HInit /\ [][HNext]_hvars

-----------------------------------------------------------------------------
\* The moment of step n as the records restore it, and the live one.
Restored(n) ==
    LET past == Replay(n)
    IN  MomentAt(past.graph, past.cursor_id, past.call_stack_ids, output_stream, n)
Live == MomentAt(graph, cursor_id, call_stack_ids, output_stream, cursor_steps)

\* Between choices every step played so far can be rolled back to, and the
\* records restore its cursor, its call stack, its content and all that can be
\* stored of its graph as they were: checkpoints, deltas and step records agree
\* (save_snapshot, _record_step, rollback_to_step, Patch._validate_registry_pre).
RestoresEveryStep ==
    Idle => \A n \in 0..cursor_steps :
                Replay(n).applies /\ Restored(n) = lived[n + 1]

\* The counters are those of the hops lived: history, reentrant and choice
\* counts are what rollback_to_step would recompute from the records
\* (_sync_from_frame and rollback_to_step compute them in two ways).
CountersMatchRecords ==
    Idle => LET past == Replay(cursor_steps)
            IN  /\ cursor_history = past.history
                /\ Len(cursor_history) = cursor_steps + 1
                /\ choice_steps = past.choices
                /\ reentrant_steps = Reentries(past.history[1], Tail(past.history))

\* The ledger implements the timeline: choices only add moments, rollbacks
\* only cut them off, and the ledger stands at the last one.  Of a graph all
\* this says what can be stored.
Line == INSTANCE Timeline WITH
    Start <- Start,
    moments <- SubSeq(lived, 1, cursor_steps + 1),
    now <- IF Idle THEN Live ELSE lived[cursor_steps + 1]
ImplementsTimeline == Line!Spec
=============================================================================
