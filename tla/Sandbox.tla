------------------------------ MODULE Sandbox ------------------------------
(***************************************************************************)
(* The open world (mechanics/sandbox): places with fixtures and things,    *)
(* mobs that keep a schedule, a clock that every action advances, lamps    *)
(* that burn down, events of a time and a place.  When the player arrives  *)
(* somewhere the projectors turn all this into dynamic choices, in the     *)
(* PLANNING phase; the effect of the chosen action comes later, in UPDATE. *)
(* A choice whose effect raises fails, and the session is as before.       *)
(***************************************************************************)
EXTENDS Naturals, FiniteSets

CONSTANT Worlds  \* the sandboxes that are played, one of them at a time

VARIABLES
    world,     \* the sandbox
    cursor,    \* a place, or the block of an event
    turn,      \* world_turn, within a day
    held,      \* who holds what: pairs of a holder and an asset
    lit,       \* assets that are switched on
    charge,    \* what is left of the charge of each asset that has one
    locked,    \* fixtures that are locked
    opened,    \* fixtures that are open
    unsealed,  \* containers, fixtures' and assets', whose is_open is set
    visited,   \* blocks that were visited
    menu,      \* the dynamic choices of the cursor
    pending,   \* the event the player is led to, or the place of a return
    raised     \* the last choice, shown as available, raised

things == <<turn, held, lit, charge, locked, opened, unsealed>>
vars == <<world, cursor, things, visited, menu, pending, raised>>

PeriodsPerDay == 4
Period == turn + 1

\* What a sandbox is: names stand for one thing each, ways lead to places and
\* events to blocks, and at first every asset is in one place, not in itself.
HoldersOf(w) ==
    w.places \cup {"player"} \cup DOMAIN w.mobs
    \cup {a \in DOMAIN w.assets : w.assets[a].bag.max > 0}
    \cup {f \in DOMAIN w.fixtures : w.fixtures[f].bag.max > 0}
NamesApart(w) ==
    LET others == w.places \cup {"player"} \cup DOMAIN w.mobs
                  \cup {w.events[e].target : e \in DOMAIN w.events}
    IN  /\ DOMAIN w.assets \cap (DOMAIN w.fixtures \cup others) = {}
        /\ DOMAIN w.fixtures \cap others = {}
OpensTidy(w) ==
    /\ w.held \subseteq HoldersOf(w) \X DOMAIN w.assets
    /\ \A a \in DOMAIN w.assets : \E h \in HoldersOf(w) : {p \in w.held : p[2] = a} = {<<h, a>>}
    /\ \A p, q \in w.held : ~(p[1] = q[2] /\ q[1] = p[2])
ASSUME WorldsAssumption ==
    \A w \in Worlds :
        /\ NamesApart(w) /\ OpensTidy(w)
        /\ w.home \in w.places /\ \A x \in w.exits : x.to \in w.places
        /\ \A e \in DOMAIN w.events : w.events[e].target \notin w.places
        /\ \A a \in DOMAIN w.assets : w.assets[a].charge \in Nat
Places == world.places
Assets == DOMAIN world.assets
Fixtures == DOMAIN world.fixtures
Mobs == DOMAIN world.mobs
Rest == <<"rest", "none">>

Held(h) == {p[2] : p \in {q \in held : q[1] = h}}
Carried == Held("player")
FixturesAt(l) == {f \in Fixtures : world.fixtures[f].at = l}
PresentMobs(l) == {m \in Mobs : world.mobs[m][Period] = l}

-----------------------------------------------------------------------------
(* What can be reached, opened, received.                                  *)

Bag(c) == IF c \in Assets THEN world.assets[c].bag ELSE world.fixtures[c].bag
Bags == {c \in Assets \cup Fixtures : Bag(c).max > 0}

\* Mutant: a fixture that is shut is reached into when its container is open.
AccessibleUnsealed(f) == f \in Bags \ locked /\ f \in unsealed

\* container_accessible, of a fixture.
Accessible(f) ==
    /\ f \in Bags \ locked
    /\ IF world.fixtures[f].openable THEN f \in opened ELSE f \in unsealed

\* ContainerFacet.can_accept_asset
CanAccept(c, a) ==
    /\ c \in unsealed
    /\ Cardinality(Held(c)) < Bag(c).max
    /\ a \in Bags => Bag(c).nested
    /\ Bag(c).accepts = {} \/ Bag(c).accepts \cap world.assets[a].traits # {}

BagReceives(c, a) == c \in Bags \cap Carried /\ CanAccept(c, a)
FixtureReceives(f, a) == Accessible(f) /\ CanAccept(f, a)

Charged == {a \in Assets : world.assets[a].charge > 0}
CanSwitchOn(a) == a \in Charged => charge[a] > 0

\* The default rule of darkness: only a source of light in hand lifts it.
Illuminates(a) == world.assets[a].light /\ (world.assets[a].switch => a \in lit)
Dark(l) == l \in world.dark /\ ~\E a \in Carried : Illuminates(a)

-----------------------------------------------------------------------------
(* The projectors: the dynamic choices of a place.                         *)

Offer(verb, on, item) == [verb |-> verb, on |-> on, item |-> item]

LocationLinks(l) ==
    {Offer("go", x.to, x.through) : x \in {y \in world.exits : y.from = l}}

LocationAssets(l) ==
    {Offer("take", a, l) : a \in {b \in Held(l) : world.assets[b].portable}}

\* A lamp that is off and empty is passed over, whatever else it is good for.
Spent(a) == world.assets[a].switch /\ a \notin lit /\ ~CanSwitchOn(a)
CarriedAssets(l) ==
    {Offer(IF a \in lit THEN "turn off" ELSE "turn on", a, l) :
        a \in {b \in Carried : world.assets[b].switch /\ ~Spent(b)}}
    \cup {Offer(IF c \in unsealed THEN "close bag" ELSE "open bag", c, l) :
            c \in {b \in Carried \cap Bags : ~Spent(b)}}
    \cup {Offer("drop", a, l) : a \in {b \in Carried : ~Dark(l) /\ ~Spent(b)}}

AssetContainers ==
    UNION {{Offer("put in bag", c, a) : a \in Carried \ {c}}
           \cup {Offer("take from bag", c, a) : a \in {b \in Held(c) : c \in unsealed}} :
           c \in Carried \cap Bags}

FixtureContainers(l) ==
    UNION {{Offer("put", f, a) : a \in Carried}
           \cup {Offer("take from", f, a) : a \in {b \in Held(f) : Accessible(f)}} :
           f \in FixturesAt(l) \cap Bags}

Unlocks(l) ==
    {Offer(IF f \in locked THEN "unlock" ELSE "lock", f, l) :
        f \in {g \in FixturesAt(l) : world.fixtures[g].lockable}}

FixtureActions(l) ==
    {Offer(IF f \in opened THEN "close" ELSE "open", f, l) :
        f \in {g \in FixturesAt(l) : world.fixtures[g].openable}}

MobActions(l) ==
    UNION {{Offer("give", m, a) : a \in Carried}
           \cup {Offer("take from mob", m, a) : a \in Held(m)} : m \in PresentMobs(l)}

\* Who contributes an event: the scope, the place, a fixture, a mob or a thing
\* that is there and seen.
Sponsors(l) ==
    {"scope", l}
    \cup IF Dark(l) THEN {} ELSE FixturesAt(l) \cup PresentMobs(l) \cup Held(l) \cup Carried

\* Mutant: an event that happens once is offered again.
ScheduledEventsAgain(l) ==
    {Offer("event", e, l) :
        e \in {f \in DOMAIN world.events :
            LET event == world.events[f]
            IN  /\ event.sponsor \in Sponsors(l)
                /\ event.period \in {0, Period}
                /\ event.at \in {"anywhere", l}
                /\ event.actor \in {"nobody"} \cup PresentMobs(l)}}

ScheduledEvents(l) ==
    {Offer("event", e, l) :
        e \in {f \in DOMAIN world.events :
            LET event == world.events[f]
            IN  /\ event.sponsor \in Sponsors(l)
                /\ event.period \in {0, Period}
                /\ event.at \in {"anywhere", l}
                /\ event.actor \in {"nobody"} \cup PresentMobs(l)
                /\ ~(event.once /\ event.target \in visited)}}

Wait(l) == {Offer("wait", l, l)}

\* All that PLANNING projects at a place; a block only has its own way out.
Projected(l) ==
    IF l \notin Places THEN {Offer("leave", world.home, "none")}
    ELSE LocationLinks(l) \cup Wait(l) \cup ScheduledEvents(l)
         \cup CarriedAssets(l) \cup AssetContainers
         \cup IF Dark(l) THEN {}
              ELSE LocationAssets(l) \cup FixtureContainers(l) \cup Unlocks(l)
                   \cup FixtureActions(l) \cup MobActions(l)

\* Mutant: a mob is offered things wherever it is.
AvailableAnywhere(o) ==
    CASE o.verb = "put in bag" -> BagReceives(o.on, o.item) /\ o.item \in Carried
      [] o.verb = "put" -> FixtureReceives(o.on, o.item) /\ o.item \in Carried
      [] o.verb = "unlock" -> o.on \in locked /\ world.fixtures[o.on].key \in Carried
      [] o.verb = "lock" -> o.on \notin locked \cup opened /\ world.fixtures[o.on].key \in Carried
      [] o.verb = "open" -> o.on \notin opened \cup locked
      [] o.verb = "close" -> o.on \in opened
      [] o.verb = "give" -> o.item \in Carried
      [] o.verb = "take from mob" -> o.item \in Held(o.on)
      [] o.verb = "go" -> o.item \in {"nothing"} \cup opened
      [] OTHER -> TRUE

\* The predicates that some choices carry; they are evaluated when the journal
\* lists the choice and again when it is chosen.
Available(o) ==
    CASE o.verb = "put in bag" -> BagReceives(o.on, o.item) /\ o.item \in Carried
      [] o.verb = "put" -> FixtureReceives(o.on, o.item) /\ o.item \in Carried
      [] o.verb = "unlock" -> o.on \in locked /\ world.fixtures[o.on].key \in Carried
      [] o.verb = "lock" -> o.on \notin locked \cup opened /\ world.fixtures[o.on].key \in Carried
      [] o.verb = "open" -> o.on \notin opened \cup locked
      [] o.verb = "close" -> o.on \in opened
      [] o.verb = "give" -> o.on \in PresentMobs(cursor) /\ o.item \in Carried
      [] o.verb = "take from mob" -> o.on \in PresentMobs(cursor) /\ o.item \in Held(o.on)
      [] o.verb = "go" -> o.item \in {"nothing"} \cup opened
      [] OTHER -> TRUE

\* What stops the effect of a choice with an error.
Raises(o) ==
    CASE o.verb = "take" -> o.on \notin Held(cursor)
      [] o.verb \in {"drop", "turn off", "open bag", "close bag"} -> o.on \notin Carried
      [] o.verb = "turn on" -> o.on \notin Carried \/ ~CanSwitchOn(o.on)
      [] o.verb = "put in bag" -> o.item \notin Carried \/ ~BagReceives(o.on, o.item)
      [] o.verb = "take from bag" -> o.on \notin Carried \cap unsealed \/ o.item \notin Held(o.on)
      [] o.verb = "put" -> o.item \notin Carried \/ ~FixtureReceives(o.on, o.item)
      [] o.verb = "take from" -> ~Accessible(o.on) \/ o.item \notin Held(o.on)
      [] o.verb = "lock" -> o.on \in opened
      [] o.verb = "give" -> o.on \notin PresentMobs(cursor) \/ o.item \notin Carried
      [] o.verb = "take from mob" -> o.on \notin PresentMobs(cursor) \/ o.item \notin Held(o.on)
      [] OTHER -> FALSE

-----------------------------------------------------------------------------
(* UPDATE: the effect of the choice, then the clock.                       *)

\* AssetTransactionManager.give_asset
Give(a, from, to) == (held \ {<<from, a>>}) \cup {<<to, a>>}

HeldAfter(o) ==
    CASE o.verb = "take" -> Give(o.on, cursor, "player")
      [] o.verb = "drop" -> Give(o.on, "player", cursor)
      [] o.verb \in {"put in bag", "put", "give"} -> Give(o.item, "player", o.on)
      [] o.verb \in {"take from bag", "take from", "take from mob"} ->
            Give(o.item, o.on, "player")
      [] OTHER -> held
LitAfter(o) ==
    CASE o.verb = "turn on" -> lit \cup {o.on}
      [] o.verb = "turn off" -> lit \ {o.on}
      [] OTHER -> lit
UnsealedAfter(o) ==
    CASE o.verb = "open bag" \/ (o.verb = "open" /\ o.on \in Bags) -> unsealed \cup {o.on}
      [] o.verb \in {"close bag", "close"} -> unsealed \ {o.on}
      [] OTHER -> unsealed

\* Mutant: a lamp goes out a turn too late.
TickLate(on) ==
    LET burning == {a \in on \cap Charged : charge[a] > 0}
    IN  /\ turn' = (turn + 1) % PeriodsPerDay
        /\ charge' = [a \in Charged |-> IF a \in burning THEN charge[a] - 1 ELSE charge[a]]
        /\ lit' = on \ {a \in burning : charge[a] = 0}

\* One tick: what is on burns its charge, and goes out when it is spent.
Tick(on) ==
    LET burning == {a \in on \cap Charged : charge[a] > 0}
    IN  /\ turn' = (turn + 1) % PeriodsPerDay
        /\ charge' = [a \in Charged |-> IF a \in burning THEN charge[a] - 1 ELSE charge[a]]
        /\ lit' = on \ {a \in burning : charge[a] = 1 /\ world.assets[a].switch}

Update(o) ==
    /\ held' = HeldAfter(o)
    /\ locked' = IF o.verb = "unlock" THEN locked \ {o.on}
                 ELSE IF o.verb = "lock" THEN locked \cup {o.on} ELSE locked
    /\ opened' = IF o.verb = "open" THEN opened \cup {o.on}
                 ELSE IF o.verb = "close" THEN opened \ {o.on} ELSE opened
    /\ unsealed' = UnsealedAfter(o)
    /\ Tick(LitAfter(o))

-----------------------------------------------------------------------------
(* A hop: PLANNING projects, an event may redirect before UPDATE or after. *)

Triggered(planned, phase) ==
    {<<"to", o.on>> : o \in {p \in planned : p.verb = "event" /\ world.events[p.on].phase = phase}}
Redirects(planned) ==
    IF Triggered(planned, "PREREQS") # {} THEN Triggered(planned, "PREREQS")
    ELSE IF Triggered(planned, "POSTREQS") # {} THEN Triggered(planned, "POSTREQS")
    ELSE {Rest}
Listed(planned) ==
    {o \in planned : o.verb = "event" => world.events[o.on].phase = "choice"}

\* The player comes to a place without an action of the sandbox.
Come(l) ==
    /\ cursor' = l
    /\ menu' = Listed(Projected(l))
    /\ pending' \in Redirects(Projected(l))
    /\ UNCHANGED things

Chosen(o) == pending = Rest /\ o \in menu /\ Available(o) /\ UNCHANGED <<world, visited>>

\* An action of the sandbox.  An event that comes first takes its place: its
\* effect and its time are lost.
Act(o) ==
    LET to == IF o.verb = "go" THEN o.on ELSE cursor
        planned == Projected(to)
        intercepted == Triggered(planned, "PREREQS") # {}
    IN  /\ Chosen(o) /\ o.verb \notin {"event", "leave"}
        /\ intercepted \/ ~Raises(o)
        /\ cursor' = to /\ menu' = Listed(planned) /\ pending' \in Redirects(planned)
        /\ raised' = FALSE
        /\ IF intercepted THEN UNCHANGED things ELSE Update(o)

Fail(o) ==
    /\ Chosen(o) /\ Raises(o) /\ Triggered(Projected(cursor), "PREREQS") = {}
    /\ raised' = TRUE
    /\ UNCHANGED <<cursor, things, menu, pending>>

Attend(o) ==
    /\ Chosen(o) /\ o.verb = "event"
    /\ pending' = <<"to", o.on>>
    /\ raised' = FALSE
    /\ UNCHANGED <<cursor, things, menu>>

Leave(o) == Chosen(o) /\ o.verb = "leave" /\ raised' = FALSE /\ Come(o.on)

\* The hop to the block of an event.
Follow ==
    /\ pending[1] = "to"
    /\ LET event == world.events[pending[2]]
       IN  /\ cursor' = event.target
           /\ visited' = visited \cup {event.target}
           /\ pending' = IF event.returns THEN <<"back", cursor>> ELSE Rest
    /\ menu' = Projected(cursor')
    /\ UNCHANGED <<world, things, raised>>

Return == pending[1] = "back" /\ Come(pending[2]) /\ UNCHANGED <<world, visited, raised>>

Init ==
    /\ world \in Worlds
    /\ cursor = world.home /\ turn = 0
    /\ held = world.held
    /\ lit = {} /\ charge = [a \in Charged |-> world.assets[a].charge]
    /\ locked = {f \in Fixtures : world.fixtures[f].lockable}
    /\ opened = {} /\ unsealed = Bags
    /\ visited = {}
    /\ menu = Listed(Projected(world.home)) /\ pending \in Redirects(Projected(world.home))
    /\ raised = FALSE

Next ==
    \/ \E o \in menu : Act(o) \/ Fail(o) \/ Attend(o) \/ Leave(o)
    \/ Follow
    \/ Return

Spec == Init /\ [][Next]_vars

-----------------------------------------------------------------------------
(* Properties.                                                             *)

Holders == Places \cup {"player"} \cup Mobs \cup Bags

\* Type correctness, and the flags that belong together: nothing is open and
\* locked, and no lamp burns without charge.
TypeOK ==
    /\ cursor \in Places \cup {world.events[e].target : e \in DOMAIN world.events}
    /\ turn \in 0..(PeriodsPerDay - 1)
    /\ held \subseteq Holders \X Assets
    /\ locked \cap opened = {}
    /\ \A a \in lit : world.assets[a].switch /\ CanSwitchOn(a)
    /\ \A a \in Charged : charge[a] \in 0..world.assets[a].charge

\* What planning would project now and the predicates let through, can be done;
\* and a choice that carries a predicate can be done whenever the predicate
\* holds, however old the menu is.
OffersSound ==
    pending = Rest =>
        \A o \in menu \cup Projected(cursor) :
            (Available(o) /\ Raises(o))
              => o \notin Projected(cursor)
                 /\ o.verb \in {"take", "drop", "turn on", "turn off", "open bag",
                                "close bag", "take from bag", "take from"}

\* However things are taken, dropped, put into each other and given away, from
\* menus of an earlier moment too: everything is in one place and never inside
\* itself, and nothing gets into or out of a bag that is closed, or a fixture
\* that is shut or locked.
HeldOnce ==
    /\ \A a \in Assets : Cardinality({p \in held : p[2] = a}) = 1
    /\ \A c \in Bags \cap Assets : c \notin UNION {Held(b) : b \in Held(c) \cup {c}}
Shut(c) ==
    IF c \notin Fixtures THEN c \notin unsealed
    ELSE c \in locked \/ c \notin IF world.fixtures[c].openable THEN opened ELSE unsealed
ThingsKept == []HeldOnce /\ [][\A c \in Bags : Shut(c) => Held(c)' = Held(c)]_vars

\* An event that happens once leads the player to its block only the first time.
OnceOnly ==
    [][\A e \in DOMAIN world.events :
         (pending' = <<"to", e>> /\ pending # pending' /\ world.events[e].once)
           => world.events[e].target \notin visited]_vars

\* What the journal shows as available can be done (see the finding).
ShownCanBeDone == ~raised
=============================================================================
