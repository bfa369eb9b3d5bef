------------------------------ MODULE MCSandbox ------------------------------
(* Three small sandboxes, each for some of the projectors.                  *)
EXTENDS Sandbox

CONSTANTS road, cave, hall, lamp, keys, pouch, sack, grate, chest, gnome, ambush, chat, pit

NoBag == [max |-> 0, accepts |-> {}, nested |-> FALSE]
Thing(bag, traits) ==
    [portable |-> TRUE, switch |-> FALSE, light |-> FALSE, charge |-> 0, bag |-> bag,
     traits |-> traits]
Way(from, to, through) == [from |-> from, to |-> to, through |-> through]
Event(target, phase, once, returns) ==
    [target |-> target, phase |-> phase, once |-> once, returns |-> returns,
     period |-> 0, at |-> "anywhere", actor |-> "nobody", sponsor |-> "scope"]
Nobody == [m \in {} |-> 0]
Nowhere == [f \in {} |-> 0]

\* A cave behind a grate, dark but for a lamp that soon burns out; a chest for
\* lights only.
Cave ==
    [places |-> {road, cave}, home |-> road, dark |-> {cave},
     exits |-> {Way(road, cave, grate), Way(cave, road, "nothing")},
     fixtures |-> [f \in {grate, chest} |->
        [at |-> IF f = grate THEN road ELSE cave, openable |-> TRUE, lockable |-> f = grate,
         key |-> keys,
         bag |-> IF f = chest THEN [max |-> 1, accepts |-> {"light"}, nested |-> FALSE]
                 ELSE NoBag]],
     assets |-> [a \in {lamp, keys} |->
        IF a = keys THEN Thing(NoBag, {})
        ELSE [Thing(NoBag, {"light"}) EXCEPT !.switch = TRUE, !.light = TRUE, !.charge = 2]],
     mobs |-> Nobody, events |-> Nowhere,
     held |-> {<<road, lamp>>, <<road, keys>>}]

\* A pouch and a sack, each of which takes one thing, the other too; a chest that locks; a gnome who comes and goes.
Bagged ==
    [places |-> {hall}, home |-> hall, dark |-> {}, exits |-> {Way(hall, hall, "nothing")},
     fixtures |-> [f \in {chest} |->
        [at |-> hall, openable |-> FALSE, lockable |-> TRUE, key |-> keys,
         bag |-> [max |-> 1, accepts |-> {}, nested |-> FALSE]]],
     assets |-> [a \in {pouch, sack, keys} |->
        IF a = keys THEN Thing(NoBag, {})
        ELSE Thing([max |-> 1, accepts |-> {}, nested |-> TRUE], {})],
     mobs |-> [m \in {gnome} |-> [p \in 1..4 |-> IF p < 3 THEN hall ELSE "elsewhere"]],
     events |-> Nowhere,
     held |-> {<<"player", pouch>>, <<"player", sack>>, <<"player", keys>>}]

\* A road where somebody lies in wait, a pit beyond it, and a gnome to talk to
\* as long as he is there and there is something to show him.
Eventful ==
    [places |-> {road, hall}, home |-> road, dark |-> {},
     exits |-> {Way(road, hall, "nothing"), Way(hall, road, "nothing")},
     fixtures |-> Nowhere,
     assets |-> [a \in {lamp} |-> [Thing(NoBag, {}) EXCEPT !.switch = TRUE]],
     mobs |-> [m \in {gnome} |-> [p \in 1..4 |-> IF p < 3 THEN hall ELSE road]],
     events |->
        [e \in 1..5 |->
            CASE e = 1 -> [Event(ambush, "PREREQS", TRUE, TRUE) EXCEPT !.period = 2, !.at = road]
              [] e = 2 -> [Event(pit, "POSTREQS", TRUE, FALSE) EXCEPT !.sponsor = hall]
              [] e = 3 -> [Event(chat, "choice", FALSE, TRUE) EXCEPT !.sponsor = gnome]
              [] e = 4 -> [Event(pit, "choice", TRUE, FALSE) EXCEPT !.sponsor = lamp]
              [] e = 5 -> [Event(ambush, "choice", TRUE, TRUE) EXCEPT !.actor = gnome]],
     held |-> {<<road, lamp>>}]

Sandboxes == LET all == {Cave, Bagged, Eventful} IN all

\* What the model supposes of a world's author: an event that triggers by itself
\* happens once (see the README).
ASSUME Authored ==
    \A w \in Worlds : \A e \in DOMAIN w.events :
        w.events[e].phase # "choice" => w.events[e].once
=============================================================================
