---------------------------- MODULE SandboxProofs ----------------------------
(***************************************************************************)
(* In every sandbox things stay where they are put: each is in one place,  *)
(* in no circle of bags, and passes no closed lid; and what happens once   *)
(* happens once.  The choices of a menu are older than the state they are  *)
(* taken in, so the invariant says what remains true of them.              *)
(***************************************************************************)
EXTENDS Sandbox, FiniteSetTheorems, TLAPS

Blocks == {world.events[e].target : e \in DOMAIN world.events}

\* What an offer of the place l was when it was projected, and still is.
OfferOK(o, l) ==
    /\ o.verb = "go" => o.on \in Places
    /\ o.verb = "leave" => o.on \in Places
    /\ o.verb = "drop" => o.on \in Assets /\ l \in Places
    /\ o.verb = "take" => o.on \in Assets
    /\ o.verb = "turn on" => o.on \in Assets /\ world.assets[o.on].switch
    /\ o.verb \in {"put in bag", "take from bag"} =>
          o.on \in Bags \cap Assets /\ o.item \in Assets /\ o.on # o.item
    /\ o.verb \in {"put", "take from"} => o.on \in Bags \cap Fixtures /\ o.item \in Assets
    /\ o.verb \in {"give", "take from mob"} => o.on \in Mobs /\ o.item \in Assets
    /\ o.verb = "event" =>
          /\ o.on \in DOMAIN world.events
          /\ world.events[o.on].once => world.events[o.on].target \notin visited

Pendings ==
    {Rest} \cup {<<"to", e>> : e \in DOMAIN world.events}
           \cup {<<"back", l>> : l \in Places \cup Blocks}

\* Every asset has one holder, and no two assets hold each other.
InOnePlace == \A a \in Assets : \E h \in Holders : {p \in held : p[2] = a} = {<<h, a>>}
NoCircle == \A p, q \in held : ~(p[1] = q[2] /\ q[1] = p[2])

MenuOK == \A o \in menu : OfferOK(o, cursor)

IInv ==
    /\ world \in Worlds
    /\ TypeOK
    /\ InOnePlace
    /\ NoCircle
    /\ pending \in Pendings
    /\ MenuOK

-----------------------------------------------------------------------------
(* Where things are.                                                       *)

LEMMA PairsOf == ASSUME TypeOK, NEW p \in held
                 PROVE  p = <<p[1], p[2]>> /\ p[1] \in Holders /\ p[2] \in Assets
BY DEF TypeOK

LEMMA HeldMeans == ASSUME TypeOK, NEW h, NEW a PROVE a \in Held(h) <=> <<h, a>> \in held
BY PairsOf DEF Held

LEMMA OneHolder == ASSUME TypeOK, InOnePlace, NEW h, NEW g, NEW a,
                          <<h, a>> \in held, <<g, a>> \in held
                   PROVE  h = g
<1>1. a \in Assets
  BY PairsOf
<1>2. PICK x : {p \in held : p[2] = a} = {<<x, a>>}
  BY <1>1 DEF InOnePlace
<1> QED
  BY <1>2

\* The invariant gives the form in which the properties say it.
LEMMA TidyIsOnce == ASSUME TypeOK, InOnePlace, NoCircle PROVE HeldOnce
<1>1. ASSUME NEW a \in Assets PROVE Cardinality({p \in held : p[2] = a}) = 1
  BY FS_Singleton DEF InOnePlace
<1>2. ASSUME NEW c, NEW b \in Held(c) \cup {c}, c \in Held(b) PROVE FALSE
  <2>1. <<b, c>> \in held
    BY <1>2, HeldMeans
  <2>2. b # c => <<c, b>> \in held
    BY <1>2, HeldMeans
  <2> QED
    BY <2>1, <2>2 DEF NoCircle
<1> QED
  BY <1>1, <1>2 DEF HeldOnce

-----------------------------------------------------------------------------
(* What is projected is sound in the state it is projected in.             *)

LEMMA AssetsHeld == ASSUME TypeOK, NEW h PROVE Held(h) \subseteq Assets
<1>1. ASSUME NEW a \in Held(h) PROVE a \in Assets
  <2>1. <<h, a>> \in held
    BY <1>1, HeldMeans
  <2>2. <<h, a>>[2] \in Assets
    BY <2>1, PairsOf
  <2> QED
    BY <2>2
<1> QED
  BY <1>1

LEMMA NotInItself == ASSUME TypeOK, NoCircle, NEW c, NEW a \in Held(c) PROVE a # c
<1>1. <<c, a>> \in held
  BY HeldMeans
<1> QED
  BY <1>1 DEF NoCircle

LEMMA Projections ==
    ASSUME world \in Worlds, TypeOK, NoCircle, NEW l, NEW o \in Projected(l)
    PROVE  OfferOK(o, l)
<1>0. /\ world.home \in Places /\ \A x \in world.exits : x.to \in Places
      /\ \A h : Held(h) \subseteq Assets
  BY WorldsAssumption, AssetsHeld DEF Places
<1>1. CASE l \notin Places
  <2>1. o = Offer("leave", world.home, "none")
    BY <1>1 DEF Projected
  <2> QED
    BY <1>0, <2>1 DEF Offer, OfferOK
<1>2. CASE l \in Places
  <2>1. CASE o \in LocationLinks(l) \cup Wait(l)
    <3>1. CASE o \in Wait(l)
      <4>1. o = Offer("wait", l, l)
        BY <3>1 DEF Wait
      <4> QED
        BY <4>1 DEF Offer, OfferOK
    <3>2. CASE o \in LocationLinks(l)
      <4>1. PICK x \in world.exits : o = Offer("go", x.to, x.through)
        BY <3>2 DEF LocationLinks
      <4> QED
        BY <1>0, <4>1 DEF Offer, OfferOK
    <3> QED
      BY <2>1, <3>1, <3>2
  <2>2. CASE o \in ScheduledEvents(l)
    <3>1. PICK e \in DOMAIN world.events :
            /\ o = Offer("event", e, l)
            /\ ~(world.events[e].once /\ world.events[e].target \in visited)
      BY <2>2 DEF ScheduledEvents
    <3> QED
      BY <3>1 DEF Offer, OfferOK
  <2>3. CASE o \in CarriedAssets(l)
    <3>1. CASE \E a \in Carried : world.assets[a].switch /\
                  o = Offer(IF a \in lit THEN "turn off" ELSE "turn on", a, l)
      <4>1. PICK a \in Carried, v \in {"turn off", "turn on"} :
              world.assets[a].switch /\ o = Offer(v, a, l)
        BY <3>1
      <4> QED
        BY <1>0, <4>1 DEF Carried, Offer, OfferOK
    <3>2. CASE \E c \in Carried :
                  o = Offer(IF c \in unsealed THEN "close bag" ELSE "open bag", c, l)
      <4>1. PICK c \in Carried, v \in {"close bag", "open bag"} : o = Offer(v, c, l)
        BY <3>2
      <4> QED
        BY <4>1 DEF Offer, OfferOK
    <3>3. CASE \E a \in Carried : o = Offer("drop", a, l)
      BY <1>0, <1>2, <3>3 DEF Carried, Offer, OfferOK
    <3> QED
      BY <2>3, <3>1, <3>2, <3>3 DEF CarriedAssets
  <2>4. CASE o \in AssetContainers
    <3>1. PICK c \in Carried \cap Bags :
            o \in {Offer("put in bag", c, a) : a \in Carried \ {c}}
                  \cup {Offer("take from bag", c, a) : a \in {b \in Held(c) : c \in unsealed}}
      BY <2>4 DEF AssetContainers
    <3>2. c \in Bags \cap Assets
      BY <1>0, <3>1 DEF Carried
    <3>3. CASE o \in {Offer("put in bag", c, a) : a \in Carried \ {c}}
      <4>1. PICK a \in Carried \ {c} : o = Offer("put in bag", c, a)
        BY <3>3
      <4> QED
        BY <1>0, <3>2, <4>1 DEF Carried, Offer, OfferOK
    <3>4. CASE o \in {Offer("take from bag", c, a) : a \in {b \in Held(c) : c \in unsealed}}
      <4>1. PICK a \in Held(c) : o = Offer("take from bag", c, a)
        BY <3>4
      <4>2. a # c
        BY NotInItself
      <4> QED
        BY <1>0, <3>2, <4>1, <4>2 DEF Offer, OfferOK
    <3> QED
      BY <3>1, <3>3, <3>4
  <2>5. CASE o \in LocationAssets(l)
    <3>1. PICK a \in Held(l) : o = Offer("take", a, l)
      BY <2>5 DEF LocationAssets
    <3> QED
      BY <1>0, <3>1 DEF Offer, OfferOK
  <2>6. CASE o \in FixtureContainers(l)
    <3>1. PICK f \in FixturesAt(l) \cap Bags :
            o \in {Offer("put", f, a) : a \in Carried}
                  \cup {Offer("take from", f, a) : a \in {b \in Held(f) : Accessible(f)}}
      BY <2>6 DEF FixtureContainers
    <3>2. f \in Bags \cap Fixtures
      BY <3>1 DEF FixturesAt
    <3> QED
      <4>1. PICK a \in Carried \cup Held(f), v \in {"put", "take from"} :
              o = Offer(v, f, a)
        BY <3>1
      <4>2. a \in Assets
        BY <1>0 DEF Carried
      <4> QED
        BY <3>2, <4>1, <4>2 DEF Offer, OfferOK
  <2>7. CASE o \in Unlocks(l) \cup FixtureActions(l)
    <3>1. PICK f \in Fixtures, v \in {"lock", "unlock", "open", "close"} : o = Offer(v, f, l)
      BY <2>7 DEF Unlocks, FixtureActions, FixturesAt
    <3> QED
      BY <3>1 DEF Offer, OfferOK
  <2>8. CASE o \in MobActions(l)
    <3>1. PICK m \in PresentMobs(l) :
            o \in {Offer("give", m, a) : a \in Carried}
                  \cup {Offer("take from mob", m, a) : a \in Held(m)}
      BY <2>8 DEF MobActions
    <3>2. m \in Mobs
      BY <3>1 DEF PresentMobs
    <3> QED
      <4>1. PICK a \in Carried \cup Held(m), v \in {"give", "take from mob"} :
              o = Offer(v, m, a)
        BY <3>1
      <4>2. a \in Assets
        BY <1>0 DEF Carried
      <4> QED
        BY <3>2, <4>1, <4>2 DEF Offer, OfferOK
  <2> QED
    BY <1>2, <2>1, <2>2, <2>3, <2>4, <2>5, <2>6, <2>7, <2>8 DEF Projected
<1> QED
  BY <1>1, <1>2

-----------------------------------------------------------------------------
(* What an effect moves.                                                   *)

\* An asset goes from its holder to another, which is not in it.
Moves(new) ==
    \E a, from, to :
        /\ new = Give(a, from, to)
        /\ <<from, a>> \in held /\ to \in Holders
        /\ to \in Assets => to # a /\ <<"player", to>> \in held /\ from = "player"
        /\ \A c \in Bags : Shut(c) => c # from /\ c # to

LEMMA NobodyIsShut ==
    ASSUME world \in Worlds, TypeOK, NEW c \in Bags
    PROVE  /\ c # "player" /\ c \notin Mobs /\ c \notin Places /\ cursor # c
           /\ c \in Assets => c \notin Fixtures
<1>1. NamesApart(world) /\ c \in Assets \cup Fixtures
  BY WorldsAssumption DEF Bags
<1> QED
  BY <1>1 DEF NamesApart, TypeOK, Assets, Fixtures, Places, Mobs

LEMMA Apart ==
    ASSUME world \in Worlds
    PROVE  /\ "player" \notin Assets /\ Places \cap Assets = {} /\ Mobs \cap Assets = {}
           /\ Fixtures \cap Assets = {}
BY WorldsAssumption DEF NamesApart, Assets, Places, Mobs, Fixtures

LEMMA Effects ==
    ASSUME world \in Worlds, TypeOK, NoCircle, NEW o, OfferOK(o, cursor), ~Raises(o)
    PROVE  HeldAfter(o) = held \/ Moves(HeldAfter(o))
<1>0. "player" \in Holders /\ Places \subseteq Holders /\ Mobs \subseteq Holders
      /\ Bags \subseteq Holders
  BY DEF Holders
<1>1. CASE o.verb = "take"
  <2>1. <<cursor, o.on>> \in held
    BY <1>1, HeldMeans DEF Raises
  <2>2. HeldAfter(o) = Give(o.on, cursor, "player")
    BY <1>1 DEF HeldAfter
  <2> QED
    BY <1>0, <2>1, <2>2, NobodyIsShut, Apart DEF Moves
<1>2. CASE o.verb = "drop"
  <2>1. <<"player", o.on>> \in held
    BY <1>2, HeldMeans DEF Raises, Carried
  <2>2. HeldAfter(o) = Give(o.on, "player", cursor)
    BY <1>2 DEF HeldAfter
  <2>3. cursor \in Places
    BY <1>2 DEF OfferOK
  <2> QED
    BY <1>0, <2>1, <2>2, <2>3, NobodyIsShut, Apart DEF Moves
<1>3. CASE o.verb = "put in bag"
  <2>1. /\ <<"player", o.item>> \in held /\ <<"player", o.on>> \in held
        /\ o.on \in Bags /\ o.on \in unsealed
    BY <1>3, HeldMeans DEF Raises, Carried, BagReceives, CanAccept
  <2>2. HeldAfter(o) = Give(o.item, "player", o.on)
    BY <1>3 DEF HeldAfter
  <2>3. o.on \in Assets /\ o.on # o.item
    BY <1>3 DEF OfferOK
  <2>4. ASSUME NEW c \in Bags, Shut(c) PROVE c # "player" /\ c # o.on
    BY <2>1, <2>3, <2>4, NobodyIsShut DEF Shut
  <2> QED
    BY <1>0, <2>1, <2>2, <2>3, <2>4 DEF Moves
<1>4. CASE o.verb = "put"
  <2>1. <<"player", o.item>> \in held /\ Accessible(o.on)
    BY <1>4, HeldMeans DEF Raises, Carried, FixtureReceives
  <2>2. HeldAfter(o) = Give(o.item, "player", o.on)
    BY <1>4 DEF HeldAfter
  <2>3. o.on \in Bags /\ o.on \in Fixtures
    BY <1>4 DEF OfferOK
  <2>4. ASSUME NEW c \in Bags, Shut(c) PROVE c # "player" /\ c # o.on
    BY <2>1, <2>3, <2>4, NobodyIsShut DEF Shut, Accessible
  <2> QED
    BY <1>0, <2>1, <2>2, <2>3, <2>4, Apart DEF Moves
<1>5. CASE o.verb = "give"
  <2>1. <<"player", o.item>> \in held
    BY <1>5, HeldMeans DEF Raises, Carried
  <2>2. HeldAfter(o) = Give(o.item, "player", o.on)
    BY <1>5 DEF HeldAfter
  <2>3. o.on \in Mobs
    BY <1>5 DEF OfferOK
  <2> QED
    BY <1>0, <2>1, <2>2, <2>3, NobodyIsShut, Apart DEF Moves
<1>6. CASE o.verb = "take from bag"
  <2>1. <<o.on, o.item>> \in held /\ o.on \in unsealed
    BY <1>6, HeldMeans DEF Raises
  <2>2. HeldAfter(o) = Give(o.item, o.on, "player")
    BY <1>6 DEF HeldAfter
  <2>3. o.on \in Assets
    BY <1>6 DEF OfferOK
  <2>4. ASSUME NEW c \in Bags, Shut(c) PROVE c # "player" /\ c # o.on
    BY <2>1, <2>3, <2>4, NobodyIsShut DEF Shut
  <2> QED
    BY <1>0, <2>1, <2>2, <2>4, Apart DEF Moves
<1>7. CASE o.verb = "take from"
  <2>1. <<o.on, o.item>> \in held /\ Accessible(o.on)
    BY <1>7, HeldMeans DEF Raises
  <2>2. HeldAfter(o) = Give(o.item, o.on, "player")
    BY <1>7 DEF HeldAfter
  <2>3. o.on \in Fixtures
    BY <1>7 DEF OfferOK
  <2>4. ASSUME NEW c \in Bags, Shut(c) PROVE c # "player" /\ c # o.on
    BY <2>1, <2>3, <2>4, NobodyIsShut DEF Shut, Accessible
  <2> QED
    BY <1>0, <2>1, <2>2, <2>4, Apart DEF Moves
<1>8. CASE o.verb = "take from mob"
  <2>1. <<o.on, o.item>> \in held
    BY <1>8, HeldMeans DEF Raises
  <2>2. HeldAfter(o) = Give(o.item, o.on, "player")
    BY <1>8 DEF HeldAfter
  <2>3. o.on \in Mobs
    BY <1>8 DEF OfferOK
  <2> QED
    BY <1>0, <2>1, <2>2, <2>3, NobodyIsShut, Apart DEF Moves
<1>9. CASE o.verb \notin {"take", "drop", "put in bag", "put", "give", "take from bag",
                          "take from", "take from mob"}
  BY <1>9 DEF HeldAfter
<1> QED
  BY <1>1, <1>2, <1>3, <1>4, <1>5, <1>6, <1>7, <1>8, <1>9

LEMMA MovesKeep ==
    ASSUME world \in Worlds, TypeOK, InOnePlace, NoCircle, Moves(held'), world' = world
    PROVE  /\ held' \subseteq Holders \X Assets
           /\ InOnePlace' /\ NoCircle'
           /\ \A c \in Bags : Shut(c) => Held(c)' = Held(c)
<1>1. PICK a, from, to :
        /\ held' = Give(a, from, to)
        /\ <<from, a>> \in held /\ to \in Holders
        /\ to \in Assets => to # a /\ <<"player", to>> \in held /\ from = "player"
        /\ \A c \in Bags : Shut(c) => c # from /\ c # to
  BY DEF Moves
<1>2. /\ held' = (held \ {<<from, a>>}) \cup {<<to, a>>}
      /\ a \in Assets
  BY <1>1, PairsOf DEF Give
<1>3. held' \subseteq Holders \X Assets
  BY <1>1, <1>2 DEF TypeOK
<1>4. Assets' = Assets /\ Holders' = Holders
  BY DEF Assets, Holders, Places, Mobs, Bags, Bag, Fixtures
<1>5. InOnePlace'
  <2>1. ASSUME NEW b \in Assets
        PROVE  \E h \in Holders : {p \in held' : p[2] = b} = {<<h, b>>}
    <3>1. PICK g \in Holders : {p \in held : p[2] = b} = {<<g, b>>}
      BY DEF InOnePlace
    <3>2. CASE b # a
      <4>1. {p \in held' : p[2] = b} = {p \in held : p[2] = b}
        BY <1>2, <3>2
      <4> QED
        BY <3>1, <4>1
    <3>3. CASE b = a
      <4>1. {p \in held : p[2] = a} = {<<from, a>>}
        BY <1>1, <3>1, <3>3
      <4>2. {p \in held' : p[2] = a} = {<<to, a>>}
        BY <1>2, <4>1
      <4> QED
        BY <1>1, <3>3, <4>2
    <3> QED
      BY <3>2, <3>3
  <2> QED
    BY <1>4, <2>1 DEF InOnePlace
<1>6. NoCircle'
  <2> SUFFICES ASSUME NEW p \in held', NEW q \in held', p[1] = q[2], q[1] = p[2] PROVE FALSE
    BY DEF NoCircle
  <2>1. /\ p \in held \/ p = <<to, a>>
        /\ q \in held \/ q = <<to, a>>
    BY <1>2
  <2>2. p[1] \in Assets /\ q[1] \in Assets
    BY <1>3
  <2>3. CASE p \in held /\ q \in held
    BY <2>3 DEF NoCircle
  <2>4. CASE p = <<to, a>> /\ q = <<to, a>>
    BY <1>1, <2>2, <2>4
  <2>5. ASSUME NEW r \in held, r[1] = a, r[2] = to, to \in Assets PROVE FALSE
    <3>1. r = <<a, to>>
      BY <2>5, PairsOf
    <3>2. <<"player", to>> \in held
      BY <1>1, <2>5
    <3>3. a = "player"
      BY <2>5, <3>1, <3>2, OneHolder
    <3> QED
      BY <1>2, <3>3, Apart
  <2>6. CASE p = <<to, a>> /\ q \in held
    BY <2>2, <2>5, <2>6
  <2>7. CASE q = <<to, a>> /\ p \in held
    BY <2>2, <2>5, <2>7
  <2> QED
    BY <2>1, <2>3, <2>4, <2>6, <2>7
<1>7. ASSUME NEW c \in Bags, Shut(c) PROVE Held(c)' = Held(c)
  <2>1. c # from /\ c # to
    BY <1>1, <1>7
  <2>2. {q \in held' : q[1] = c} = {q \in held : q[1] = c}
    BY <1>2, <2>1
  <2> QED
    BY <2>2 DEF Held
<1> QED
  BY <1>3, <1>5, <1>6, <1>7

-----------------------------------------------------------------------------
(* The rest of a step.                                                     *)

LEMMA SameWorld ==
    ASSUME world' = world
    PROVE  /\ Places' = Places /\ Assets' = Assets /\ Fixtures' = Fixtures /\ Mobs' = Mobs
           /\ Bags' = Bags /\ Holders' = Holders /\ Blocks' = Blocks /\ Charged' = Charged
           /\ Pendings' = Pendings
BY DEF Places, Assets, Fixtures, Mobs, Bags, Bag, Holders, Blocks, Charged, Pendings, Rest

LEMMA FreshMenu ==
    ASSUME world \in Worlds, TypeOK, NoCircle, world' = world, visited' = visited,
           menu' \subseteq Projected(cursor')
    PROVE  MenuOK'
<1>1. ASSUME NEW o \in menu' PROVE OfferOK(o, cursor')
  BY <1>1, Projections
<1> QED
  BY <1>1, SameWorld DEF MenuOK, OfferOK

LEMMA Led ==
    ASSUME world \in Worlds, TypeOK, NoCircle, NEW l, NEW next \in Redirects(Projected(l))
    PROVE  /\ next \in Pendings
           /\ \A e : next = <<"to", e>> =>
                 /\ e \in DOMAIN world.events
                 /\ world.events[e].once => world.events[e].target \notin visited
<1>1. CASE next = Rest
  BY <1>1 DEF Pendings, Rest
<1>2. CASE next # Rest
  <2>1. PICK o \in Projected(l) : o.verb = "event" /\ next = <<"to", o.on>>
    BY <1>2 DEF Redirects, Triggered
  <2>2. OfferOK(o, l)
    BY Projections
  <2> QED
    BY <2>1, <2>2 DEF OfferOK, Pendings
<1> QED
  BY <1>1, <1>2

LEMMA Still ==
    ASSUME TypeOK, InOnePlace, NoCircle, world' = world, UNCHANGED things,
           cursor' \in Places \cup Blocks
    PROVE  TypeOK' /\ InOnePlace' /\ NoCircle'
<1>1. TypeOK'
  BY SameWorld DEF TypeOK, things, Blocks, CanSwitchOn
<1> QED
  BY <1>1, SameWorld DEF things, InOnePlace, NoCircle

LEMMA Clock ==
    ASSUME world \in Worlds, TypeOK, world' = world, NEW o, OfferOK(o, cursor),
           Available(o), ~Raises(o), Update(o)
    PROVE  /\ turn' \in 0..(PeriodsPerDay - 1)
           /\ (locked \cap opened)' = {}
           /\ \A a \in lit' : world.assets[a].switch /\ CanSwitchOn(a)'
           /\ \A a \in Charged : charge'[a] \in 0..world.assets[a].charge
<1> DEFINE on == LitAfter(o)
           burning == {a \in on \cap Charged : charge[a] > 0}
<1>1. /\ turn' = (turn + 1) % PeriodsPerDay
      /\ charge' = [a \in Charged |-> IF a \in burning THEN charge[a] - 1 ELSE charge[a]]
      /\ lit' = on \ {a \in burning : charge[a] = 1 /\ world.assets[a].switch}
  BY DEF Update, Tick
<1>2. turn' \in 0..(PeriodsPerDay - 1)
  BY <1>1 DEF TypeOK, PeriodsPerDay
<1>3. (locked \cap opened)' = {}
  <2>1. CASE o.verb = "lock"
    BY <2>1 DEF Update, Available, TypeOK
  <2>2. CASE o.verb = "open"
    BY <2>2 DEF Update, Available, TypeOK
  <2>3. CASE o.verb \notin {"lock", "open"}
    BY <2>3 DEF Update, TypeOK
  <2> QED
    BY <2>1, <2>2, <2>3
<1>4. ASSUME NEW a \in Charged
      PROVE  charge[a] \in 0..world.assets[a].charge /\ world.assets[a].charge \in Nat
  BY WorldsAssumption DEF TypeOK, Charged, Assets
<1>5. ASSUME NEW a \in on PROVE world.assets[a].switch /\ CanSwitchOn(a)
  <2>1. CASE o.verb = "turn on"
    <3>1. a \in lit \/ a = o.on
      BY <1>5, <2>1 DEF LitAfter
    <3> QED
      BY <2>1, <3>1 DEF TypeOK, Raises, OfferOK
  <2>2. CASE o.verb # "turn on"
    BY <1>5, <2>2 DEF LitAfter, TypeOK
  <2> QED
    BY <2>1, <2>2
<1>6. ASSUME NEW a \in lit' PROVE world.assets[a].switch /\ CanSwitchOn(a)'
  <2>1. a \in on /\ ~(a \in burning /\ charge[a] = 1 /\ world.assets[a].switch)
    BY <1>1, <1>6
  <2>2. world.assets[a].switch /\ CanSwitchOn(a)
    BY <1>5, <2>1
  <2>3. ASSUME a \in Charged PROVE charge'[a] > 0
    <3>1. charge[a] > 0 /\ a \in burning
      BY <2>1, <2>2, <2>3 DEF CanSwitchOn
    <3>2. charge[a] \in Nat /\ charge[a] # 1
      BY <1>4, <2>1, <2>2, <2>3, <3>1
    <3>3. charge'[a] = charge[a] - 1
      BY <1>1, <2>3, <3>1
    <3> QED
      BY <3>1, <3>2, <3>3
  <2> QED
    BY <2>2, <2>3, SameWorld DEF CanSwitchOn
<1>7. ASSUME NEW a \in Charged PROVE charge'[a] \in 0..world.assets[a].charge
  <2>1. charge'[a] = IF a \in burning THEN charge[a] - 1 ELSE charge[a]
    BY <1>1
  <2>2. a \in burning => charge[a] > 0
    OBVIOUS
  <2> HIDE DEF burning
  <2> QED
    BY <1>4, <2>1, <2>2
<1> QED
  BY <1>2, <1>3, <1>6, <1>7

LEMMA Opening == Init => IInv
<1> SUFFICES ASSUME Init PROVE IInv
  OBVIOUS
<1>1. /\ world \in Worlds /\ OpensTidy(world) /\ world.home \in Places
      /\ \A a \in Assets : world.assets[a].charge \in Nat
  BY WorldsAssumption DEF Init, Places, Assets
<1>2. HoldersOf(world) = Holders
  <2>1. Bags = {a \in Assets : world.assets[a].bag.max > 0}
               \cup {f \in Fixtures : world.fixtures[f].bag.max > 0}
    <3>1. Fixtures \cap Assets = {}
      BY <1>1, Apart
    <3> QED
      BY <3>1 DEF Bags, Bag
  <2> QED
    BY <2>1 DEF HoldersOf, Holders, Places, Mobs, Assets, Fixtures
<1>3. TypeOK
  <2>1. held \subseteq Holders \X Assets
    BY <1>1, <1>2 DEF Init, OpensTidy, Assets
  <2>2. \A a \in Charged : charge[a] \in 0..world.assets[a].charge
    BY <1>1 DEF Init, Charged
  <2> QED
    BY <1>1, <2>1, <2>2 DEF Init, TypeOK, PeriodsPerDay
<1>4. InOnePlace /\ NoCircle
  BY <1>1, <1>2 DEF Init, OpensTidy, InOnePlace, NoCircle, Assets
<1>5. pending \in Pendings
  BY <1>1, <1>3, <1>4, Led DEF Init
<1>6. MenuOK
  <2>1. menu \subseteq Projected(cursor)
    BY DEF Init, Listed
  <2> QED
    BY <1>1, <1>3, <1>4, <2>1, Projections DEF MenuOK
<1> QED
  BY <1>1, <1>3, <1>4, <1>5, <1>6 DEF IInv

-----------------------------------------------------------------------------
(* Every step.                                                             *)

LEMMA Acts ==
    ASSUME IInv, NEW o \in menu, Act(o)
    PROVE  IInv' /\ \A c \in Bags : Shut(c) => Held(c)' = Held(c)
<1> DEFINE to == IF o.verb = "go" THEN o.on ELSE cursor
<1>1. /\ world \in Worlds /\ TypeOK /\ InOnePlace /\ NoCircle
      /\ OfferOK(o, cursor) /\ Available(o)
      /\ world' = world /\ visited' = visited
  BY DEF IInv, MenuOK, Act, Chosen
<1>2. /\ cursor' = to
      /\ menu' \subseteq Projected(to) /\ pending' \in Redirects(Projected(to))
      /\ UNCHANGED things \/ (~Raises(o) /\ Update(o))
  BY DEF Act, Listed
<1>3. MenuOK' /\ (pending \in Pendings)'
  <2>1. MenuOK'
    BY <1>1, <1>2, FreshMenu
  <2>2. pending' \in Pendings
    BY <1>1, <1>2, Led
  <2> QED
    BY <1>1, <2>1, <2>2, SameWorld
<1>4. cursor' \in Places \cup Blocks
  <2>1. CASE o.verb = "go"
    BY <1>1, <1>2, <2>1 DEF OfferOK
  <2>2. CASE o.verb # "go"
    BY <1>1, <1>2, <2>2 DEF TypeOK, Blocks
  <2> QED
    BY <2>1, <2>2
<1>5. CASE UNCHANGED things
  <2>1. TypeOK' /\ InOnePlace' /\ NoCircle'
    BY <1>1, <1>4, <1>5, Still
  <2>2. \A c \in Bags : Held(c)' = Held(c)
    BY <1>5 DEF things, Held
  <2> QED
    BY <1>1, <1>3, <2>1, <2>2 DEF IInv
<1>6. CASE ~Raises(o) /\ Update(o)
  <2>1. held' = HeldAfter(o)
    BY <1>6 DEF Update
  <2>2. held' = held \/ Moves(held')
    BY <1>1, <1>6, <2>1, Effects
  <2>3. /\ held' \subseteq Holders \X Assets
        /\ InOnePlace' /\ NoCircle'
        /\ \A c \in Bags : Shut(c) => Held(c)' = Held(c)
    <3>1. CASE held' = held
      BY <1>1, <3>1, SameWorld DEF TypeOK, InOnePlace, NoCircle, Held
    <3>2. CASE Moves(held')
      BY <1>1, <3>2, MovesKeep
    <3> QED
      BY <2>2, <3>1, <3>2
  <2>4. /\ turn' \in 0..(PeriodsPerDay - 1)
        /\ (locked \cap opened)' = {}
        /\ \A a \in lit' : world.assets[a].switch /\ CanSwitchOn(a)'
        /\ \A a \in Charged : charge'[a] \in 0..world.assets[a].charge
    BY <1>1, <1>6, Clock
  <2>5. TypeOK'
    BY <1>1, <1>4, <2>3, <2>4, SameWorld DEF TypeOK, Blocks, PeriodsPerDay
  <2> QED
    BY <1>1, <1>3, <2>3, <2>5 DEF IInv
<1> QED
  BY <1>2, <1>5, <1>6

\* Whatever else happens, no thing moves.
LEMMA Others ==
    ASSUME IInv,
           \/ \E o \in menu : Fail(o) \/ Attend(o) \/ Leave(o)
           \/ Follow \/ Return \/ UNCHANGED vars
    PROVE  IInv' /\ held' = held
<1>1. world \in Worlds /\ TypeOK /\ InOnePlace /\ NoCircle /\ pending \in Pendings /\ MenuOK
  BY DEF IInv
<1>2. world' = world /\ UNCHANGED things
  BY DEF Fail, Attend, Leave, Follow, Return, vars, Chosen, Come
<1>3. SUFFICES /\ cursor' \in Places \cup Blocks
               /\ pending' \in Pendings
               /\ MenuOK'
  BY <1>1, <1>2, Still, SameWorld DEF IInv, things
<1>4. ASSUME UNCHANGED <<cursor, menu, visited>>, pending' \in Pendings
      PROVE  cursor' \in Places \cup Blocks /\ pending' \in Pendings /\ MenuOK'
  BY <1>1, <1>2, <1>4, SameWorld DEF TypeOK, Blocks, MenuOK, OfferOK
<1>5. ASSUME NEW l \in Places \cup Blocks, Come(l), visited' = visited
      PROVE  cursor' \in Places \cup Blocks /\ pending' \in Pendings /\ MenuOK'
  <2>1. cursor' = l /\ menu' \subseteq Projected(l) /\ pending' \in Redirects(Projected(l))
    BY <1>5 DEF Come, Listed
  <2>2. MenuOK'
    BY <1>1, <1>2, <1>5, <2>1, FreshMenu
  <2>3. pending' \in Pendings
    BY <1>1, <2>1, Led
  <2> QED
    BY <1>5, <2>1, <2>2, <2>3
<1>6. ASSUME NEW o \in menu, Fail(o)
      PROVE  cursor' \in Places \cup Blocks /\ pending' \in Pendings /\ MenuOK'
  BY <1>1, <1>4, <1>6 DEF Fail, Chosen
<1>7. ASSUME NEW o \in menu, Attend(o)
      PROVE  cursor' \in Places \cup Blocks /\ pending' \in Pendings /\ MenuOK'
  <2>1. o.on \in DOMAIN world.events
    BY <1>1, <1>7 DEF Attend, MenuOK, OfferOK
  <2>2. pending' \in Pendings
    BY <1>7, <2>1 DEF Attend, Pendings
  <2> QED
    BY <1>4, <1>7, <2>2 DEF Attend, Chosen
<1>8. ASSUME NEW o \in menu, Leave(o)
      PROVE  cursor' \in Places \cup Blocks /\ pending' \in Pendings /\ MenuOK'
  <2>1. o.on \in Places
    BY <1>1, <1>8 DEF Leave, MenuOK, OfferOK
  <2> QED
    BY <1>5, <1>8, <2>1 DEF Leave, Chosen
<1>9. ASSUME Follow
      PROVE  cursor' \in Places \cup Blocks /\ pending' \in Pendings /\ MenuOK'
  <2> DEFINE event == world.events[pending[2]]
  <2>1. pending[2] \in DOMAIN world.events
    BY <1>1, <1>9 DEF Follow, Pendings, Rest
  <2>2. /\ cursor' = event.target
        /\ pending' = <<"back", cursor>> \/ pending' = Rest
        /\ menu' = Projected(cursor')
    BY <1>9 DEF Follow
  <2>3. cursor' \in Blocks /\ cursor' \notin Places
    BY <1>1, <2>1, <2>2, WorldsAssumption DEF Blocks, Places
  <2>4. pending' \in Pendings
    BY <1>1, <2>2 DEF Pendings, TypeOK, Blocks
  <2>5. menu' = {Offer("leave", world.home, "none")}
    BY <2>2, <2>3 DEF Projected
  <2>6. world.home \in Places
    BY <1>1, WorldsAssumption DEF Places
  <2>7. MenuOK'
    <3>1. ASSUME NEW o \in menu' PROVE o.verb = "leave" /\ o.on \in Places
      BY <2>5, <2>6, <3>1 DEF Offer
    <3> QED
      BY <1>2, <3>1, SameWorld DEF MenuOK, OfferOK
  <2> QED
    BY <2>3, <2>4, <2>7
<1>10. ASSUME Return
       PROVE  cursor' \in Places \cup Blocks /\ pending' \in Pendings /\ MenuOK'
  <2>1. pending[2] \in Places \cup Blocks
    BY <1>1, <1>10 DEF Return, Pendings, Rest
  <2> QED
    BY <1>5, <1>10, <2>1 DEF Return
<1>11. CASE UNCHANGED vars
  BY <1>1, <1>4, <1>11 DEF vars
<1> QED
  BY <1>6, <1>7, <1>8, <1>9, <1>10, <1>11

LEMMA Steps ==
    ASSUME IInv, [Next]_vars
    PROVE  IInv' /\ \A c \in Bags : Shut(c) => Held(c)' = Held(c)
<1>1. CASE \E o \in menu : Act(o)
  BY <1>1, Acts
<1>2. CASE ~\E o \in menu : Act(o)
  <2>1. IInv' /\ held' = held
    BY <1>2, Others DEF Next
  <2> QED
    BY <2>1 DEF Held
<1> QED
  BY <1>1, <1>2

LEMMA Invariant == Spec => []IInv
<1>1. IInv /\ [Next]_vars => IInv'
  BY Steps
<1> QED
  BY Opening, <1>1, PTL DEF Spec

-----------------------------------------------------------------------------
(* What follows.                                                           *)

\* Type correctness, with what belongs together: nothing is open and locked,
\* and no lamp burns without charge (components.py, time.py, handlers.py).
THEOREM SandboxTypeCorrect == Spec => []TypeOK
<1>1. IInv => TypeOK
  BY DEF IInv
<1> QED
  BY Invariant, <1>1, PTL

\* Whatever is chosen from however old a menu, each thing is in one place and
\* not inside itself, and no closed, shut or locked bag changes its content
\* (the inventory effects of handlers.py over give_asset).
THEOREM ThingsKeptAlways == Spec => ThingsKept
<1>1. IInv => HeldOnce
  BY TidyIsOnce DEF IInv
<1>2. IInv /\ [Next]_vars => [\A c \in Bags : Shut(c) => Held(c)' = Held(c)]_vars
  BY Steps
<1> QED
  BY Invariant, <1>1, <1>2, PTL DEF Spec, ThingsKept

\* An event that happens once leads the player to its block only while the
\* block is not visited (_event_available, is_first_visit).
THEOREM OnceOnlyAlways == Spec => OnceOnly
<1>1. ASSUME IInv, [Next]_vars, NEW e \in DOMAIN world.events,
             pending' = <<"to", e>>, pending # pending', world.events[e].once
      PROVE  world.events[e].target \notin visited
  <2>1. world \in Worlds /\ TypeOK /\ NoCircle /\ MenuOK
    BY <1>1 DEF IInv
  <2>2. CASE \E l : pending' \in Redirects(Projected(l))
    BY <1>1, <2>1, <2>2, Led
  <2>3. CASE \E o \in menu : Attend(o)
    <3>1. PICK o \in menu : Attend(o)
      BY <2>3
    <3>2. o.verb = "event" /\ pending' = <<"to", o.on>> /\ OfferOK(o, cursor)
      BY <2>1, <3>1 DEF Attend, MenuOK
    <3> QED
      BY <1>1, <3>2 DEF OfferOK
  <2>4. CASE Follow
    BY <1>1, <2>4 DEF Follow, Rest
  <2>5. pending' \in Redirects(Projected(cursor')) \/ (\E o \in menu : Attend(o)) \/ Follow
    BY <1>1 DEF Next, vars, Act, Fail, Leave, Return, Come
  <2> QED
    BY <2>2, <2>3, <2>4, <2>5
<1>2. IInv /\ [Next]_vars =>
        [\A e \in DOMAIN world.events :
           (pending' = <<"to", e>> /\ pending # pending' /\ world.events[e].once)
             => world.events[e].target \notin visited]_vars
  BY <1>1
<1> QED
  BY Invariant, <1>2, PTL DEF Spec, OnceOnly

-----------------------------------------------------------------------------
(* What is offered can be done.                                            *)

\* A choice of an earlier menu fails, if its predicate still holds, only where
\* it has none.
LEMMA PredicatesSuffice ==
    ASSUME NEW o, Available(o), Raises(o)
    PROVE  o.verb \in {"take", "drop", "turn on", "turn off", "open bag", "close bag",
                       "take from bag", "take from"}
BY DEF Available, Raises

\* What is projected now does not fail if it is available: each projector looks
\* at what the effect will ask for.
LEMMA ProjectedCanBeDone ==
    ASSUME NEW o \in Projected(cursor), Available(o)
    PROVE  ~Raises(o)
<1>1. CASE o.verb \in {"leave", "go", "wait", "event", "unlock", "open", "close"}
  BY <1>1 DEF Raises
<1>2. CASE o.verb = "put in bag"
  BY <1>2 DEF Available, Raises
<1>3. CASE o.verb = "put"
  BY <1>3 DEF Available, Raises
<1>4. CASE o.verb = "lock"
  BY <1>4 DEF Available, Raises
<1>5. CASE o.verb = "give"
  BY <1>5 DEF Available, Raises
<1>6. CASE o.verb = "take from mob"
  BY <1>6 DEF Available, Raises
<1>7. CASE o \in CarriedAssets(cursor)
  <2>1. CASE \E a \in Carried : world.assets[a].switch /\ ~Spent(a) /\
                o = Offer(IF a \in lit THEN "turn off" ELSE "turn on", a, cursor)
    <3>1. PICK a \in Carried : world.assets[a].switch /\ ~Spent(a) /\
                o = Offer(IF a \in lit THEN "turn off" ELSE "turn on", a, cursor)
      BY <2>1
    <3>2. CASE a \in lit
      <4>1. o.verb = "turn off" /\ o.on \in Carried
        BY <3>1, <3>2 DEF Offer
      <4> QED
        BY <4>1 DEF Raises
    <3>3. CASE a \notin lit
      <4>1. o.verb = "turn on" /\ o.on \in Carried /\ CanSwitchOn(o.on)
        BY <3>1, <3>3 DEF Offer, Spent
      <4> QED
        BY <4>1 DEF Raises
    <3> QED
      BY <3>2, <3>3
  <2>2. CASE \E c \in Carried :
                o = Offer(IF c \in unsealed THEN "close bag" ELSE "open bag", c, cursor)
    <3>1. PICK c \in Carried, v \in {"close bag", "open bag"} : o = Offer(v, c, cursor)
      BY <2>2
    <3>2. o.verb = v /\ o.on \in Carried
      BY <3>1 DEF Offer
    <3>3. CASE v = "close bag"
      BY <3>2, <3>3 DEF Raises
    <3>4. CASE v = "open bag"
      BY <3>2, <3>4 DEF Raises
    <3> QED
      BY <3>3, <3>4
  <2>3. CASE \E a \in Carried : o = Offer("drop", a, cursor)
    <3>1. o.verb = "drop" /\ o.on \in Carried
      BY <2>3 DEF Offer
    <3> QED
      BY <3>1 DEF Raises
  <2> QED
    BY <1>7, <2>1, <2>2, <2>3 DEF CarriedAssets
<1>8. CASE o \in AssetContainers
  <2>1. PICK c \in Carried \cap Bags :
          o \in {Offer("put in bag", c, a) : a \in Carried \ {c}}
                \cup {Offer("take from bag", c, a) : a \in {b \in Held(c) : c \in unsealed}}
    BY <1>8 DEF AssetContainers
  <2>2. CASE o \in {Offer("put in bag", c, a) : a \in Carried \ {c}}
    <3>1. PICK a \in Carried : o = Offer("put in bag", c, a)
      BY <2>2
    <3>2. o.verb = "put in bag"
      BY <3>1 DEF Offer
    <3> QED
      BY <1>2, <3>2
  <2>3. CASE o \in {Offer("take from bag", c, a) : a \in {b \in Held(c) : c \in unsealed}}
    <3>1. PICK a \in Held(c) : c \in unsealed /\ o = Offer("take from bag", c, a)
      BY <2>3
    <3>2. o.verb = "take from bag" /\ o.on = c /\ o.item = a
      BY <3>1 DEF Offer
    <3> QED
      BY <2>1, <3>1, <3>2 DEF Raises
  <2> QED
    BY <2>1, <2>2, <2>3
<1>9. CASE o \in LocationAssets(cursor)
  <2>1. o.verb = "take" /\ o.on \in Held(cursor)
    BY <1>9 DEF LocationAssets, Offer
  <2> QED
    BY <2>1 DEF Raises
<1>10. CASE o \in FixtureContainers(cursor)
  <2>1. PICK f \in FixturesAt(cursor) \cap Bags :
          o \in {Offer("put", f, a) : a \in Carried}
                \cup {Offer("take from", f, a) : a \in {b \in Held(f) : Accessible(f)}}
    BY <1>10 DEF FixtureContainers
  <2>2. CASE o \in {Offer("put", f, a) : a \in Carried}
    <3>1. o.verb = "put"
      BY <2>2 DEF Offer
    <3> QED
      BY <1>3, <3>1
  <2>3. CASE o \in {Offer("take from", f, a) : a \in {b \in Held(f) : Accessible(f)}}
    <3>1. PICK a \in Held(f) : Accessible(f) /\ o = Offer("take from", f, a)
      BY <2>3
    <3>2. o.verb = "take from" /\ o.on = f /\ o.item = a
      BY <3>1 DEF Offer
    <3> QED
      BY <3>1, <3>2 DEF Raises
  <2> QED
    BY <2>1, <2>2, <2>3
<1>11. CASE o \in LocationLinks(cursor) \cup Wait(cursor) \cup ScheduledEvents(cursor)
  <2>1. o.verb \in {"go", "wait", "event"}
    BY <1>11 DEF LocationLinks, Wait, ScheduledEvents, Offer
  <2> QED
    BY <1>1, <2>1
<1>12. CASE o \in Unlocks(cursor) \cup FixtureActions(cursor)
  <2>1. o.verb \in {"unlock", "lock", "open", "close"}
    BY <1>12 DEF Unlocks, FixtureActions, Offer
  <2> QED
    BY <1>1, <1>4, <2>1
<1>13. CASE o \in MobActions(cursor)
  <2>1. PICK m \in PresentMobs(cursor) :
          o \in {Offer("give", m, a) : a \in Carried}
                \cup {Offer("take from mob", m, a) : a \in Held(m)}
    BY <1>13 DEF MobActions
  <2>2. PICK a \in Carried \cup Held(m), v \in {"give", "take from mob"} :
          o = Offer(v, m, a)
    BY <2>1
  <2>3. o.verb = v
    BY <2>2 DEF Offer
  <2> QED
    BY <1>5, <1>6, <2>3
<1>14. CASE cursor \notin Places
  <2>1. o.verb = "leave"
    BY <1>14 DEF Projected, Offer
  <2> QED
    BY <1>1, <2>1
<1> QED
  BY <1>7, <1>8, <1>9, <1>10, <1>11, <1>12, <1>13, <1>14 DEF Projected

\* What is projected now and available can be done, and a choice that carries a
\* predicate can be done whenever it holds, however old the menu is (the
\* projectors, the availability predicates and the effects of handlers.py).
THEOREM OffersAlwaysSound == Spec => []OffersSound
<1>1. OffersSound
  BY PredicatesSuffice, ProjectedCanBeDone DEF OffersSound
<1> QED
  BY <1>1, PTL
=============================================================================
