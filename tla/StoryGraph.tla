------------------------------ MODULE StoryGraph ------------------------------
(***************************************************************************)
(* The story graph as the VM sees it: traversable nodes and edges, the     *)
(* part of the graph's value that traversal changes, and the built-in      *)
(* handlers that decide where the cursor may go next.                      *)
(* (vm/traversable.py, vm/resolution_phase.py, vm/system_handlers.py)      *)
(***************************************************************************)
EXTENDS Naturals, Sequences, FiniteSets

CONSTANTS
    Nodes,        \* traversable nodes
    NoNode,       \* "no node": a destination that is not resolved
    Edges,        \* persistent traversable edges (they have a uid)
    NoEdge,       \* the missing uid of an anonymous edge
    EdgeAt,       \* edge -> [pred, trigger, entry, ret], its authored fields
    Authored,     \* edge -> its authored successor, NoNode when left open
    Destination,  \* edge -> what its destination dependency resolves to
    Entries,      \* node -> the members it may be entered at; {} for a leaf
    Gated,        \* nodes that may be unavailable, by their own predicates or,
                  \* for a container, those of the member it is entered at
    Dependent,    \* nodes with a dependency that PLANNING may satisfy
    Voiced,       \* nodes whose JOURNAL handlers emit content
    Projects,     \* node -> how many items its PLANNING handlers build anew
    Recording,    \* nodes whose FINALIZE handlers return a record
    Sections,     \* containers that mark a section when entered
    Stateful      \* nodes that are authored with locals of their own

\* The phases of one hop, in the order they run.
VALIDATE == 10
PLANNING == 20
PREREQS  == 30
UPDATE   == 40
JOURNAL  == 50
FINALIZE == 60
POSTREQS == 70
Phases == {VALIDATE, PLANNING, PREREQS, UPDATE, JOURNAL, FINALIZE, POSTREQS}

\* An unset trigger_phase or return_phase.
UNSET == 0

EdgeShape == [pred: Nodes, trigger: {UNSET, PREREQS, POSTREQS},
              entry: Phases, ret: Phases \cup {UNSET}]

ASSUME StoryAssumption ==
    /\ NoNode \notin Nodes
    /\ NoEdge \notin Edges
    /\ EdgeAt \in [Edges -> EdgeShape]
    /\ Authored \in [Edges -> Nodes \cup {NoNode}]
    /\ Destination \in [Edges -> Nodes \cup {NoNode}]
    /\ Entries \in [Nodes -> SUBSET Nodes]
    /\ Dependent \subseteq Nodes
    /\ Projects \in [Nodes -> Nat]

-----------------------------------------------------------------------------
\* The members that come and go, dynamic actions say, are built for a node all
\* at once: their uids, in the order in which they were added.
Batches == [at: Nodes, uids: Seq(Nat)]

\* The graph's value: locals['_visit_count'] of every node, the successor of
\* every edge, the nodes whose dependencies have a provider, and the batches in
\* the order of `members`, which value_hash tells apart (Registry.unstructure).
GraphValues == [visits: [Nodes -> Nat],
                successor: [Edges -> Nodes \cup {NoNode}],
                provided: SUBSET Dependent, built: Seq(Batches)]

AuthoredGraph == [visits |-> [n \in Nodes |-> 0],
                  successor |-> Authored,
                  provided |-> {}, built |-> <<>>]

\* What unstructure writes of a graph, and so what a snapshot, a value hash, a
\* checkpoint or a save has of it: fields that were never set are left out, and
\* mark_visited changes the default of `locals` in place.  The visits of a node
\* without authored locals are in the live graph alone.
Stored(g) ==
    [g EXCEPT !.visits = [n \in Nodes |-> IF n \in Stateful THEN g.visits[n] ELSE 0]]

IsContainer(n) == Entries[n] # {}

Successors(g, n) ==
    {g.successor[e] : e \in {x \in Edges : EdgeAt[x].pred = n}} \ {NoNode}

\* mark_visited, in place, with the arrival effects it is registered after.
MarkVisited(g, n) == [g EXCEPT !.visits[n] = @ + 1]

\* PLANNING: the resolver satisfies some of the open dependencies of a node
\* and of its successors.
Provision(g, found) == [g EXCEPT !.provided = @ \cup found]
\* PLANNING: a projector removes what it built for a node before and adds new
\* members at the end; their uids are new and in no order.
UidsOf(built) == UNION {{b.uids[i] : i \in DOMAIN b.uids} : b \in {built[k] : k \in DOMAIN built}}
NewUids(k, used) ==
    {s \in [1..k -> 1..(Cardinality(used) + k)] :
        /\ \A i, j \in 1..k : s[i] = s[j] => i = j
        /\ \A i \in 1..k : s[i] \notin used}
Cleared(built, n) ==
    IF \A k \in DOMAIN built : built[k].at # n THEN built
    ELSE LET k == CHOOSE k \in DOMAIN built : built[k].at = n
         IN  SubSeq(built, 1, k - 1) \o SubSeq(built, k + 1, Len(built))
Project(g, n, uids) ==
    IF uids = <<>> THEN g
    ELSE [g EXCEPT !.built = Append(Cleared(@, n), [at |-> n, uids |-> uids])]

\* The dependencies of a node and its successors that are open.
Open(g, n) == (({n} \cup Successors(g, n)) \cap Dependent) \ g.provided

-----------------------------------------------------------------------------
\* What the frame follows: a persistent edge, or an anonymous one without uid.
Hops == [edge: Edges \cup {NoEdge}, to: Nodes \cup {NoNode}, entry: Phases]
NoHop == [edge |-> NoEdge, to |-> NoNode, entry |-> VALIDATE]

AlongEdge(g, e) == [edge |-> e, to |-> g.successor[e], entry |-> EdgeAt[e].entry]
Descent(n)      == [edge |-> NoEdge, to |-> n, entry |-> VALIDATE]
\* Mutant: the return edge enters at the call's trigger phase.
ReturnEdgeAtTrigger(e) ==
    [edge |-> NoEdge, to |-> EdgeAt[e].pred, entry |-> EdgeAt[e].trigger]
ReturnEdge(e)   == [edge |-> NoEdge, to |-> EdgeAt[e].pred, entry |-> EdgeAt[e].ret]

\* Only edges with a return_phase are calls (push_call, get_return_edge).
CallEdges == {e \in Edges : EdgeAt[e].ret # UNSET}
IsCall(hop) == hop.edge \in CallEdges

\* validate_successor_exists: the destination resolves and is available.  Only
\* a node whose predicates are live (in `gated`) may turn out unavailable.
MayValidate(hop) == hop.to # NoNode
MayReject(hop, gated) == hop.to = NoNode \/ hop.to \in gated

\* The redirects a phase may return: a triggered edge with a destination, the
\* first one available; none only if each of them may be unavailable.
Triggered(g, n, phase) ==
    {e \in Edges : /\ EdgeAt[e].pred = n
                   /\ EdgeAt[e].trigger = phase
                   /\ g.successor[e] # NoNode}

FollowTriggered(g, n, phase, gated) ==
    LET edges == Triggered(g, n, phase)
        none == IF \A e \in edges : g.successor[e] \in gated THEN {NoHop} ELSE {}
    IN  {AlongEdge(g, e) : e \in edges} \cup none

\* descend_into_container takes precedence over prereq edges.
PrereqRedirects(g, n, gated) ==
    IF IsContainer(n) THEN {Descent(m) : m \in Entries[n]}
                      ELSE FollowTriggered(g, n, PREREQS, gated)

PostreqRedirects(g, n, gated) == FollowTriggered(g, n, POSTREQS, gated)
=============================================================================
