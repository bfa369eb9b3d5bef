---------------------------- MODULE Provisioning ----------------------------
(***************************************************************************)
(* How a story's graph comes to be (vm/provision, story/fabula).  The      *)
(* templates of a world are turned into nodes all at once, or only when a  *)
(* choice, a role or a menu asks for them: a requirement gathers offers,   *)
(* the best one is accepted, the scenes missing on the way to its place    *)
(* are built, every new node is wired with its own roles and choices and   *)
(* is validated before it is bound.  What a choice promises is previewed   *)
(* on the same graph without changing it.  A path is a sequence of names.  *)
(***************************************************************************)
EXTENDS Naturals, Sequences, FiniteSets, SequencesExt, FiniteSetsExt

CONSTANTS
    Templates,    \* the world's templates, in the order of its registry
    StartsAt,     \* the template of the entry block
    KeepsFailed   \* a store that keeps live objects keeps what a failed choice did

VARIABLES
    graph,    \* nodes, their dependencies, choices and menus
    cursor,   \* the node the player is at, 0 before the story is opened
    dirty,    \* causality is hard-dirty: stubs are accepted
    shown,    \* the choices the last journal offers as available
    last      \* the choice taken last: whether it was shown, and where it led

vars == <<graph, cursor, dirty, shown, last>>

Episodes == {"scene", "block", "menu"}      \* kinds of TraversableNode
Concepts == {"actor", "location"}
EmptyGraph == [nodes |-> <<>>, deps |-> <<>>, actions |-> <<>>,
               fanouts |-> <<>>, wired |-> {}, frozen |-> FALSE]

Label(t) == <<Last(Templates[t].path)>>
Node(t) ==
    [templ |-> t, label |-> Label(t), kind |-> Templates[t].kind,
     tags |-> Templates[t].tags, parent |-> 0, source |-> 0]

\* What is built while a node's frontier is resolved is validated by resolving
\* its own frontier, and arriving at a container arrives at its entry.
RECURSIVE Frontier(_, _, _)
RECURSIVE Descend(_, _, _)

\* The nodes of a graph are numbered in the order they were added.
Nodes(g) == DOMAIN g.nodes
Children(g, p) == {i \in Nodes(g) : g.nodes[i].parent = p}
IsContainer(g, i) == g.nodes[i].source # 0
First(S) == IF S = {} THEN 0 ELSE Min(S)
Ordered(S) ==
    [k \in 1..Cardinality(S) |-> CHOOSE x \in S : Cardinality({y \in S : y < x}) = k - 1]

RECURSIVE PathOf(_, _)
PathOf(g, i) ==
    LET n == g.nodes[i]
    IN  IF n.parent = 0 THEN n.label ELSE PathOf(g, n.parent) \o n.label

RECURSIVE Ancestors(_, _)
Ancestors(g, i) ==
    IF i = 0 THEN <<>> ELSE <<i>> \o Ancestors(g, g.nodes[i].parent)

\* Segment by segment from the top; 0 when a segment is missing.
RECURSIVE FindPath(_, _)
FindPath(g, path) ==
    LET p == IF Len(path) > 1 THEN FindPath(g, Front(path)) ELSE 0
    IN  IF path = <<>> \/ (Len(path) > 1 /\ p = 0) THEN 0
        ELSE First({i \in Children(g, p) : g.nodes[i].label = <<Last(path)>>})

-----------------------------------------------------------------------------
(* Requirements and what satisfies them.                                   *)

\* An authored reference to a destination was made canonical by the compiler:
\* a path of two names, or one name that is absolute.
Destination(link) ==
    [ident |-> link.to, absolute |-> Len(link.to) = 1, qualified |-> link.qualified,
     kinds |-> Episodes, tags |-> {}, policy |-> {"EXISTING", "CREATE"}, hard |-> TRUE]
RoleOf(spec) ==
    [ident |-> <<spec.ref>>, absolute |-> FALSE, qualified |-> FALSE,
     kinds |-> {spec.kind}, tags |-> {}, policy |-> spec.policy, hard |-> spec.hard]
MenuItems(tags) ==
    [ident |-> <<>>, absolute |-> FALSE, qualified |-> FALSE, kinds |-> Episodes,
     tags |-> tags, policy |-> {"EXISTING", "CREATE"}, hard |-> FALSE]

SatisfiedBy(req, g, i) ==
    /\ g.nodes[i].kind \in req.kinds
    /\ req.tags \subseteq g.nodes[i].tags
    /\ req.ident \in {<<>>, g.nodes[i].label, PathOf(g, i)}
Satisfied(dep) == dep.provider # 0 \/ ~dep.req.hard
DepsOf(g, holder) == {d \in DOMAIN g.deps : g.deps[d].holder = holder}

\* Mutant: an absolute name is looked for around the requester.
TargetContextsRelative(req, at) ==
    IF req.ident = <<>> THEN <<at>>
    ELSE IF Len(req.ident) > 1 THEN <<req.ident>>
    ELSE [k \in 1..(Len(at) + 1) |-> SubSeq(at, 1, Len(at) + 1 - k) \o req.ident]

\* The places a provider may be put, the nearest to the requester first.
TargetContexts(req, at) ==
    IF req.ident = <<>> THEN <<at>>
    ELSE IF Len(req.ident) > 1 \/ req.absolute THEN <<req.ident>>
    ELSE [k \in 1..(Len(at) + 1) |-> SubSeq(at, 1, Len(at) + 1 - k) \o req.ident]

Identifiers(t) == {Templates[t].path, Label(t)}
Candidates(req) ==
    {t \in DOMAIN Templates :
        /\ Templates[t].kind \in req.kinds
        /\ req.tags \subseteq Templates[t].tags
        /\ req.ident \in {<<>>} \cup Identifiers(t)}
TemplateFor(ref) == First({t \in DOMAIN Templates : ref \in Identifiers(t)})

\* How far a node is from the cursor: linked to it, among the children of one
\* of its ancestors, or elsewhere.
Linked(g, i) ==
    {i} \cup {g.actions[a].succ : a \in {b \in DOMAIN g.actions : g.actions[b].src = i}}
        \cup {g.actions[a].src : a \in {b \in DOMAIN g.actions : g.actions[b].succ = i}}
        \cup {g.deps[d].provider : d \in DepsOf(g, <<"node", i>>)}
        \cup UNION {g.fanouts[f].providers :
                    f \in {e \in DOMAIN g.fanouts : g.fanouts[e].src = i}}
Distance(g, at, i) ==
    LET up == Ancestors(g, at)
        near == {k \in DOMAIN up : g.nodes[i].parent = up[k]}
    IN  IF at = 0 \/ i \in Linked(g, at) THEN 0
        ELSE IF near # {} THEN Min(near) ELSE Len(up) + 1

Existing(g, req) == {i \in Nodes(g) : SatisfiedBy(req, g, i)}
Nearest(far) ==
    CHOOSE i \in DOMAIN far : \A j \in DOMAIN far :
        far[i] < far[j] \/ (far[i] = far[j] /\ i <= j)

\* The offer that is accepted: what exists before what can be created, and a
\* stub only when nothing else is on offer.
NoOffer == [policy |-> "NONE", candidate |-> 0, target |-> <<>>]
Best(far, create, place, stubs) ==
    IF DOMAIN far # {} THEN [policy |-> "EXISTING", candidate |-> Nearest(far), target |-> place]
    ELSE IF create # {} THEN [policy |-> "CREATE", candidate |-> Min(create), target |-> place]
    ELSE IF stubs THEN [NoOffer EXCEPT !.policy = "STUB"]
    ELSE NoOffer
Accepted(g, req, at, stubs) ==
    Best([i \in {j \in Existing(g, req) : "EXISTING" \in req.policy} |-> Distance(g, at, i)],
         {t \in Candidates(req) : "CREATE" \in req.policy},
         TargetContexts(req, IF at = 0 THEN <<>> ELSE PathOf(g, at))[1], stubs)

-----------------------------------------------------------------------------
(* Wiring.                                                                 *)

AttachChild(g, p, i) ==
    IF p = 0 THEN g
    ELSE [g EXCEPT !.nodes[i].parent = p,
                   !.nodes[p].source = IF @ = 0 /\ g.nodes[p].kind = "scene" THEN i ELSE @]
AddNode(g, n, p) ==
    AttachChild([g EXCEPT !.nodes = Append(@, n)], p, Len(g.nodes) + 1)

\* By path, by identifier, or by the template it was made from.
FindRuntimeEntity(g, ref, kinds) ==
    LET Of == {i \in Nodes(g) : g.nodes[i].kind \in kinds}
        paths == {i \in Of : PathOf(g, i) = ref}
        labels == {i \in Of : g.nodes[i].label = ref}
        made == {i \in Of : g.nodes[i].templ # 0 /\ g.nodes[i].templ = TemplateFor(ref)}
    IN  First(IF paths # {} THEN paths ELSE IF labels # {} THEN labels ELSE made)

AddDep(g, holder, req, provider) ==
    [g EXCEPT !.deps = Append(@, [holder |-> holder, req |-> req, provider |-> provider])]

WireRole(g, i, spec) ==
    AddDep(g, <<"node", i>>, RoleOf(spec), FindRuntimeEntity(g, <<spec.ref>>, {spec.kind}))

\* A destination that is not there yet becomes a dependency of its choice.  At
\* run time exactly one template must be able to provide it; otherwise wiring
\* stops with the choice already in the graph.
WireAction(done, i, link, eager) ==
    LET succ == FindRuntimeEntity(done.g, link.to, Episodes)
        g1 == [done.g EXCEPT !.actions = Append(@, [src |-> i, succ |-> succ])]
        req == Destination(link)
    IN  IF ~done.ok THEN done
        ELSE IF succ # 0 THEN [g |-> g1, ok |-> TRUE]
        ELSE IF ~eager /\ Cardinality(Candidates(req)) # 1 THEN [g |-> g1, ok |-> FALSE]
        ELSE [g |-> AddDep(g1, <<"action", Len(g1.actions)>>, req, 0), ok |-> TRUE]

MarkWired(i, done) == [done EXCEPT !.g.wired = IF done.ok THEN @ \cup {i} ELSE @]
WireNode(g, i, eager) ==
    LET t == Templates[g.nodes[i].templ]
        roles == FoldLeft(LAMBDA h, spec : WireRole(h, i, spec), g, t.roles)
        fan == [src |-> i, req |-> MenuItems(t.items), providers |-> {}, choices |-> {}]
        menus == [roles EXCEPT !.fanouts = IF t.kind = "menu" THEN Append(@, fan) ELSE @]
    IN  MarkWired(i, FoldLeft(LAMBDA d, link : WireAction(d, i, link, eager),
                              [g |-> menus, ok |-> TRUE], t.links))

\* Mutant: a node that is met again is wired again.
IsWiredNever(g, i) == FALSE

\* Any edge out of a node is taken as the sign that it was wired.
IsWired(g, i) ==
    \/ i \in g.wired
    \/ DepsOf(g, <<"node", i>>) # {}
    \/ \E a \in DOMAIN g.actions : g.actions[a].src = i
    \/ \E f \in DOMAIN g.fanouts : g.fanouts[f].src = i

ChildTemplates(t) ==
    {c \in DOMAIN Templates : /\ Templates[c].kind \in Episodes
                              /\ Front(Templates[c].path) = Templates[t].path}
\* The child that is marked as the start, else the first.
EntryTemplate(t) ==
    LET marked == {c \in ChildTemplates(t) : Templates[c].start}
    IN  First(IF marked # {} THEN marked ELSE ChildTemplates(t))

\* story_post_materialize: a container gets its entry, which is wired first.
WireFirst(g, todo, eager) ==
    FoldLeft(LAMBDA done, i : IF ~done.ok \/ IsWired(done.g, i) THEN done
                              ELSE WireNode(done.g, i, eager),
             [g |-> g, ok |-> TRUE], todo)
WithEntry(g, i, e, there) ==
    WireFirst(IF e = 0 \/ there # {} THEN g ELSE AddNode(g, Node(e), i),
              IF e = 0 THEN <<i>> ELSE <<Min(there \cup {Len(g.nodes) + 1}), i>>, FALSE)
PostMaterialize(g, i) ==
    LET e == IF g.nodes[i].templ = 0 THEN 0 ELSE EntryTemplate(g.nodes[i].templ)
    IN  IF g.nodes[i].kind \notin Episodes \/ IsWired(g, i) THEN [g |-> g, ok |-> TRUE]
        ELSE WithEntry(g, i, e, {c \in Children(g, i) : g.nodes[c].templ = e})

-----------------------------------------------------------------------------
(* Preview: the same choice of offers, without touching the graph.         *)

ConceptViable(g, req, stubs) ==
    Accepted(g, req, 0, stubs).policy # "NONE"
HardRoles(t) == {Templates[t].roles[k] : k \in DOMAIN Templates[t].roles}
Immediate(g, t, stubs) ==
    \A spec \in HardRoles(t) : spec.hard => ConceptViable(g, RoleOf(spec), stubs)

\* The scenes a qualified destination still needs, as lengths of its path.
Missing(g, req, target) ==
    IF ~(req.qualified /\ req.kinds = Episodes) THEN {}
    ELSE {k \in 1..(Len(target) - 1) : FindPath(g, SubSeq(target, 1, k)) = 0}
Structural(path) ==
    First({t \in DOMAIN Templates : /\ path \in Identifiers(t)
                                    /\ Templates[t].kind \in Episodes})
PlanResolvable(plan, target) == \A k \in plan : Structural(SubSeq(target, 1, k)) # 0

\* Mutant: the scenes on the way are not asked what they need.
ViableLeaf(g, req, offer, plan, stubs) ==
    \/ offer.policy \in {"EXISTING", "STUB"}
    \/ /\ offer.policy = "CREATE" /\ PlanResolvable(plan, offer.target)
       /\ \E t \in Candidates(req) : Immediate(g, t, stubs)

Viable(g, req, offer, plan, stubs) ==
    \/ offer.policy \in {"EXISTING", "STUB"}
    \/ /\ offer.policy = "CREATE" /\ PlanResolvable(plan, offer.target)
       /\ \E t \in Candidates(req) :
             \A new \in {t} \cup {Structural(SubSeq(offer.target, 1, k)) : k \in plan} :
                 Immediate(g, new, stubs)
Previewed(g, req, offer, stubs) == Viable(g, req, offer, Missing(g, req, offer.target), stubs)
PreviewRequirement(g, req, at, stubs) ==
    Previewed(g, req, Accepted(g, req, at, stubs), stubs)

RECURSIVE PreviewFrontier(_, _, _)
PreviewFrontier(g, i, stubs) ==
    /\ \A d \in DepsOf(g, <<"node", i>>) :
          Satisfied(g.deps[d]) \/ PreviewRequirement(g, g.deps[d].req, i, stubs)
    /\ IsContainer(g, i) => PreviewFrontier(g, g.nodes[i].source, stubs)

-----------------------------------------------------------------------------
(* Acceptance: the chain of missing scenes, the provider, its place, its   *)
(* wiring and its validation.  What was added before a step fails stays.   *)

\* _validate_runtime_entity, of a node that was just created.
Validated(done, i, stubs) ==
    IF done.g.nodes[i].kind \in Concepts \/ ~done.ok THEN done
    ELSE Frontier(done.g, i, stubs)
Finish(g, i, stubs) == Validated(PostMaterialize(g, i), i, stubs)

BuildChain(g, target, stubs) ==
    LET Segment(done, k) ==
            LET path == SubSeq(target, 1, k)
                there == FindPath(done.g, path)
            IN  IF ~done.ok \/ there # 0 THEN done
                ELSE Finish(AddNode(done.g, Node(Structural(path)), FindPath(done.g, Front(path))),
                            Len(done.g.nodes) + 1, stubs)
    IN  FoldLeft(Segment, [g |-> g, ok |-> TRUE], [k \in 1..(Len(target) - 1) |-> k])

\* _attach_and_finalize_provider: a node already at the place is used instead
\* of a new one; whoever is not where the requirement wants it is moved there.
Attached(done, req, i) ==
    [g |-> done.g, provider |-> i, ok |-> done.ok /\ SatisfiedBy(req, done.g, i)]
Attach(g, req, offer, stubs) ==
    LET p == FindPath(g, IF offer.target = <<>> THEN <<>> ELSE Front(offer.target))
        there == FindPath(g, offer.target)
        creates == offer.policy = "CREATE"
        reused == creates /\ there # 0 /\ SatisfiedBy(req, g, there)
        g1 == IF creates /\ ~reused THEN AddNode(g, Node(offer.candidate), 0) ELSE g
        i == IF reused THEN there ELSE IF creates THEN Len(g1.nodes) ELSE offer.candidate
        g2 == IF g1.nodes[i].parent = p THEN g1 ELSE AttachChild(g1, p, i)
    IN  Attached(IF creates THEN Finish(g2, i, stubs) ELSE [g |-> g2, ok |-> TRUE], req, i)

Stub(req) ==
    [templ |-> 0, label |-> req.ident, kind |-> IF req.kinds = Episodes THEN "block"
        ELSE CHOOSE k \in req.kinds : TRUE, tags |-> req.tags, parent |-> 0, source |-> 0]

Bound(done, d) ==
    IF done.ok THEN [done.g EXCEPT !.deps[d].provider = done.provider] ELSE done.g
Accept(chain, d, offer, stubs) ==
    IF chain.ok THEN Bound(Attach(chain.g, chain.g.deps[d].req, offer, stubs), d) ELSE chain.g

Resolve(g, d, offer, plan, stubs) ==
    CASE offer.policy = "NONE" -> g
      [] offer.policy = "STUB" ->
            [AddNode(g, Stub(g.deps[d].req), 0) EXCEPT !.deps[d].provider = Len(g.nodes) + 1]
      [] offer.policy = "CREATE" /\ ~PlanResolvable(plan, offer.target) -> g
      [] OTHER -> Accept(IF offer.policy = "CREATE" /\ plan # {}
                         THEN BuildChain(g, offer.target, stubs)
                         ELSE [g |-> g, ok |-> TRUE], d, offer, stubs)
ResolveOffer(g, d, offer, stubs) ==
    Resolve(g, d, offer, Missing(g, g.deps[d].req, offer.target), stubs)
ResolveDependency(g, d, at, stubs) ==
    ResolveOffer(g, d, Accepted(g, g.deps[d].req, at, stubs), stubs)

\* A fanout's items, found or made; one that fails its validation is skipped.
MadeItem(done, r) ==
    [g |-> r.g, found |-> done.found \cup IF r.ok THEN {r.provider} ELSE {}]
Filled(done, f) == [done.g EXCEPT !.fanouts[f].providers = done.found]
NewItem(done, req, t, at, stubs) ==
    MadeItem(done, Attach(done.g, req, [policy |-> "CREATE", candidate |-> t, target |-> at], stubs))

\* Mutant: only the items made this time are providers.
ResolveFanoutMade(g, f, stubs) ==
    LET fan == g.fanouts[f]
        Make(done, t) ==
            IF \E i \in Nodes(done.g) : done.g.nodes[i].templ = t THEN done
            ELSE NewItem(done, fan.req, t, PathOf(g, fan.src), stubs)
    IN  Filled(FoldLeft(Make, [g |-> g, found |-> {}], Ordered(Candidates(fan.req))), f)

\* Every node that fits is a provider; for a template without a node one is
\* created beside the menu.
ResolveFanout(g, f, stubs) ==
    LET fan == g.fanouts[f]
        Make(done, t) ==
            LET made == {i \in Nodes(done.g) : \/ done.g.nodes[i].templ = t
                                               \/ PathOf(done.g, i) = Templates[t].path}
            IN  IF made # {} \/ SatisfiedBy(fan.req, g, fan.src) THEN done
                ELSE NewItem(done, fan.req, t, PathOf(g, fan.src), stubs)
    IN  Filled(FoldLeft(Make, [g |-> g, found |-> Existing(g, fan.req)],
                        Ordered(Candidates(fan.req))), f)

\* resolve_frontier_node: open dependencies, then menus, then the verdict.
Verdict(g, i, stubs) ==
    [g |-> g,
     ok |-> /\ \A d \in DepsOf(g, <<"node", i>>) : Satisfied(g.deps[d])
            /\ IsContainer(g, i) => PreviewFrontier(g, g.nodes[i].source, stubs)]
Frontier(g, i, stubs) ==
    LET open == {d \in DepsOf(g, <<"node", i>>) : g.deps[d].provider = 0}
        g1 == FoldLeft(LAMBDA h, d : ResolveDependency(h, d, i, stubs), g, Ordered(open))
        menus == {f \in DOMAIN g.fanouts : g.fanouts[f].src = i /\ ~g.frozen}
    IN  Verdict(FoldLeft(LAMBDA h, f : ResolveFanout(h, f, stubs), g1, Ordered(menus)), i, stubs)

Projected(fan) == [fan EXCEPT !.choices = fan.providers]

\* project_menu_affordances: the choices of a menu are cleared and made anew.
Project(g, i) ==
    [g EXCEPT !.fanouts = [f \in DOMAIN @ |->
        IF @[f].src = i /\ ~g.frozen THEN Projected(@[f]) ELSE @[f]]]
Provision(g, i, stubs) == Project(Frontier(g, i, stubs).g, i)

Successors(g, i) ==
    {j \in Linked(g, i) \ {0} :
        /\ g.nodes[j].kind \in Episodes
        /\ \/ \E a \in DOMAIN g.actions : g.actions[a] = [src |-> i, succ |-> j]
           \/ \E f \in DOMAIN g.fanouts : g.fanouts[f].src = i /\ j \in g.fanouts[f].providers}

\* The planning phase: the cursor's node, then every node it leads to.
RECURSIVE PlanAhead(_, _, _, _)
Planned(g, i, rest, stubs) ==
    PlanAhead(g, 0, IF i = 0 THEN rest ELSE Ordered(Successors(g, i)), stubs)
PlanAhead(g, i, todo, stubs) ==
    IF todo = <<>> THEN g
    ELSE Planned(Provision(g, Head(todo), stubs), i, Tail(todo), stubs)
PlanningPhase(g, i, stubs) == PlanAhead(g, i, <<i>>, stubs)

-----------------------------------------------------------------------------
(* Creation of the story.                                                  *)

Built(S) ==
    FoldLeft(LAMBDA g, t : AddNode(g, Node(t), FindPath(g, Front(Templates[t].path))),
             EmptyGraph, Ordered(S))
WireAll(g, eager) ==
    WireFirst(g, Ordered({i \in Nodes(g) : g.nodes[i].kind \in Episodes}), eager)

\* Eager creation refuses a story that leaves a hard dependency open; a frozen
\* shape also has its menus filled for good.
Frozen(g) ==
    [FoldLeft(LAMBDA h, f : ResolveFanout(h, f, FALSE), g, Ordered(DOMAIN g.fanouts))
     EXCEPT !.fanouts = [f \in DOMAIN @ |-> Projected(@[f])], !.frozen = TRUE]
Raised(g) == \E d \in DOMAIN g.deps : ~Satisfied(g.deps[d])
EagerOrFrozen(g) == IF Raised(g) THEN {} ELSE {g, Frozen(g)}
Eager == EagerOrFrozen(WireAll(Built(DOMAIN Templates), TRUE).g)
\* Lazy creation builds the entry block and the scenes around it.
LazyShell(done) == IF done.ok THEN {done.g} ELSE {}
Lazy ==
    LazyShell(WireAll(Built({t \in DOMAIN Templates :
                             IsPrefix(Templates[t].path, Templates[StartsAt].path)}), FALSE))

-----------------------------------------------------------------------------
(* A session.                                                              *)

\* A choice is an authored one or one projected by a menu.
ChoicesAt(g, i) ==
    {<<"action", a>> : a \in {b \in DOMAIN g.actions : g.actions[b].src = i}}
      \cup UNION {{<<"item", j>> : j \in g.fanouts[f].choices} :
                  f \in {e \in DOMAIN g.fanouts : g.fanouts[e].src = i}}
Target(g, c) == IF c[1] = "item" THEN c[2] ELSE g.actions[c[2]].succ
DestinationDep(g, c) == First(DepsOf(g, <<"action", c[2]>>))

\* _choice_unavailable_reason, as the journal asks it for every choice.
Available(g, i, c, stubs) ==
    LET j == Target(g, c)
        d == DestinationDep(g, c)
    IN  IF j = 0 THEN /\ d # 0 /\ ~Satisfied(g.deps[d])
                      /\ PreviewRequirement(g, g.deps[d].req, i, stubs)
        ELSE /\ IsContainer(g, j) => PreviewFrontier(g, j, stubs)
             /\ \A e \in DepsOf(g, <<"node", j>>) : Satisfied(g.deps[e])

\* Planning at the node, and on into a container's entry.
Arrive(g, i, stubs) == Descend(PlanningPhase(g, i, stubs), i, stubs)
Descend(g, i, stubs) ==
    IF IsContainer(g, i) THEN Arrive(g, g.nodes[i].source, stubs) ELSE [g |-> g, at |-> i]

\* _provision_selected_destination: only a choice without a successor is
\* provisioned, and only selecting it does so.
Linking(g, c, d) == [g EXCEPT !.actions[c[2]].succ = g.deps[d].provider]
Selected(g, c) ==
    LET d == DestinationDep(g, c)
    IN  IF Target(g, c) # 0 \/ d = 0 \/ Satisfied(g.deps[d]) THEN g
        ELSE Linking(ResolveDependency(g, d, cursor, dirty), c, d)

\* Mutant: the journal lists the choices of the node that is left.
JournalListed(there) ==
    shown' = {c \in ChoicesAt(there.g, cursor) : Available(there.g, cursor, c, dirty')}

Journal(there) ==
    shown' = {c \in ChoicesAt(there.g, there.at) : Available(there.g, there.at, c, dirty')}

\* A handler of the node may break causality between planning and journal.
Stand(there) ==
    /\ dirty' \in {dirty, TRUE}
    /\ graph' = there.g
    /\ cursor' = there.at
    /\ Journal(there)
MoveTo(g, i) == Stand(Arrive(g, i, dirty))

Entry == First({i \in Nodes(graph) : graph.nodes[i].templ = StartsAt})

Open ==
    /\ cursor = 0
    /\ MoveTo(graph, Entry)
    /\ UNCHANGED last

Take(g, c) ==
    IF Target(g, c) # 0
    THEN /\ MoveTo(g, Target(g, c))
         /\ last' = [shown |-> c \in shown, taken |-> TRUE]
    ELSE /\ graph' = IF KeepsFailed THEN g ELSE graph
         /\ last' = [shown |-> c \in shown, taken |-> FALSE]
         /\ UNCHANGED <<cursor, shown, dirty>>

Choose(c) == cursor # 0 /\ Take(Selected(graph, c), c)

Init ==
    /\ graph \in Lazy \cup Eager
    /\ cursor = 0 /\ dirty = FALSE /\ shown = {} /\ last = [shown |-> FALSE, taken |-> FALSE]

Next ==
    \/ Open
    \/ \E c \in ChoicesAt(graph, cursor) : Choose(c)

Spec == Init /\ [][Next]_vars

-----------------------------------------------------------------------------
(* Properties.                                                             *)

\* Type correctness.
TypeOK ==
    /\ \A i \in Nodes(graph) : /\ graph.nodes[i].parent \in Nodes(graph) \cup {0}
                               /\ graph.nodes[i].source \in Nodes(graph) \cup {0}
    /\ \A d \in DOMAIN graph.deps : graph.deps[d].provider \in Nodes(graph) \cup {0}
    /\ \A a \in DOMAIN graph.actions : graph.actions[a].succ \in Nodes(graph) \cup {0}
    /\ cursor \in Nodes(graph) \cup {0}
    /\ shown \subseteq ChoicesAt(graph, cursor)

\* Whatever was built in whatever order, by choices, roles and menus: no scene
\* or block of the world exists twice, and one that was built on demand stands
\* where its template says.
EpisodesInPlace ==
    \A i \in Nodes(graph) :
        graph.nodes[i].kind \in Episodes =>
            /\ graph.nodes[i].templ # 0 => PathOf(graph, i) = Templates[graph.nodes[i].templ].path
            /\ \A j \in Nodes(graph) \ {i} :
                  graph.nodes[j].kind \in Episodes =>
                      /\ graph.nodes[i].templ = 0 \/ graph.nodes[i].templ # graph.nodes[j].templ
                      /\ PathOf(graph, i) # PathOf(graph, j)

\* A node that is wired offers all its template's choices, and each of them has
\* a successor or a dependency that still waits for one.
WiredWhole ==
    \A i \in graph.wired :
        LET mine == {a \in DOMAIN graph.actions : graph.actions[a].src = i}
        IN  /\ Cardinality(mine) = Len(Templates[graph.nodes[i].templ].links)
            /\ \A a \in mine : graph.actions[a].succ # 0 \/ DepsOf(graph, <<"action", a>>) # {}
            /\ IsContainer(graph, i) =>
                  graph.nodes[graph.nodes[i].source].templ = EntryTemplate(graph.nodes[i].templ)

\* A choice the journal showed as available, taken at once, leads somewhere,
\* and to a node that has all it must have.
ShownIsTaken ==
    last.shown =>
        /\ last.taken
        /\ ~dirty => \A d \in DepsOf(graph, <<"node", cursor>>) : Satisfied(graph.deps[d])

\* Planning again at the node where the player stands changes nothing, and a
\* menu there lists every node that fits, also those that were built while its
\* other successors were planned.
Settled ==
    /\ (cursor # 0 /\ ~dirty) => PlanningPhase(graph, cursor, FALSE) = graph
    /\ \A f \in DOMAIN graph.fanouts :
          (graph.fanouts[f].src = cursor /\ ~graph.frozen)
            => graph.fanouts[f].choices = Existing(graph, graph.fanouts[f].req)
=============================================================================
