------------------------------- MODULE MCGames -------------------------------
(* One small configuration per game, and per strategy and scoring of it.        *)
EXTENDS Games

Both == {"win", "lose"}
All == {"win", "lose", "draw"}
Base == [bound |-> 8, exits |-> All]

Trivial(scoring, n, opponent, revision) ==
  [kind |-> "trivial", scoring |-> scoring, n |-> n, opponent |-> opponent, revision |-> revision,
   bound |-> 8, exits |-> Both]

Rps == "rock" :> {"scissors"} @@ "paper" :> {"rock"} @@ "scissors" :> {"paper"}
Rpsls == "rock" :> {"scissors", "lizard"} @@ "paper" :> {"rock", "spock"} @@ "scissors" :> {"paper", "lizard"}
         @@ "lizard" :> {"paper", "spock"} @@ "spock" :> {"rock", "scissors"}

Throws(beats, scoring, n, opponent, revision) ==
  [kind |-> "throws", beats |-> beats, scoring |-> scoring, n |-> n, opponent |-> opponent, revision |-> revision,
   bound |-> 5, exits |-> All]

Nim(heap, max, opponent, lastWins) ==
  [kind |-> "nim", heap |-> heap, min |-> 1, max |-> max, opponent |-> opponent, lastWins |-> lastWins,
   scoring |-> "single_round"] @@ Base

Kinds == <<"rock", "paper", "scissors">>
Counts(a, b, d) == "rock" :> a @@ "paper" :> b @@ "scissors" :> d
Bag(mine, theirs, opponent, ratio, weight) ==
  [kind |-> "bag", types |-> Kinds, beaten |-> "rock" :> "scissors" @@ "paper" :> "rock" @@ "scissors" :> "paper",
   weight |-> weight, ratio |-> ratio, maxCommit |-> 3, maxMix |-> 2, opponent |-> opponent,
   player |-> mine, opponentReserve |-> theirs, scoring |-> "single_round"] @@ Base

Siege(mine, theirs, initiative, ratio, bonus, tax) ==
  [kind |-> "siege", initiative |-> initiative, bonus |-> bonus, tax |-> tax, posture |-> Counts(0, 1, 0)]
  @@ Bag(mine, theirs, "siege_weakest_response", ratio, Counts(1, 2, 1))

Corridor(target, source, initiative) ==
  [kind |-> "corridor", target |-> target, source |-> source, start |-> 0, initiative |-> initiative,
   bound |-> 6, exits |-> All, scoring |-> "single_round"]

Phrases(initiative) ==
  [kind |-> "phrases", scoring |-> "best_of_n", n |-> 3, initiative |-> initiative,
   roles |-> "jibe" :> {"call"} @@ "barb" :> {"call", "response"} @@ "retort" :> {"response"},
   mine |-> <<"jibe", "barb", "retort">>, theirs |-> <<"barb", "retort">>,
   matches |-> {<<"jibe", "barb">>, <<"barb", "retort">>}] @@ Base

Blackjack(standAt, stacked) ==
  [kind |-> "blackjack", standAt |-> standAt, stacked |-> stacked, scoring |-> "single_round",
   cards |-> {<<1, "hearts">>, <<6, "hearts">>, <<6, "spades">>, <<7, "hearts">>, <<9, "spades">>,
              <<10, "hearts">>, <<13, "spades">>}] @@ Base
\* a deck stacked in favour of the player
Stacked == {<<{<<10, "hearts">>, <<9, "spades">>}, {<<6, "hearts">>, <<13, "spades">>}>>}

Kim ==
  [kind |-> "kim", tray |-> {"coin", "key", "ring"}, clues |-> {"dust", "dent"}, budget |-> 1,
   scoring |-> "single_round"] @@ Base

Wallet(food, wood, elite) == "food" :> food @@ "wood" :> wood @@ "elite" :> elite
Shell(mustPay) ==
  [kind |-> "incremental", goods |-> Wallet(1, 1, 0), workers |-> 2, order |-> <<"forage", "carve">>,
   tasks |-> "forage" :> [consumes |-> Wallet(0, 0, 0), produces |-> Wallet(1, 0, 0)]
             @@ "carve" :> [consumes |-> Wallet(1, 0, 0), produces |-> Wallet(0, 1, 0)],
   builds |-> "hut" :> [cost |-> Wallet(0, 1, 0), gain |-> Wallet(1, 0, 0), works |-> "hut" :> 1, workers |-> 1,
                        tasks |-> {"carve"}, builds |-> {}, promotions |-> {"guard"}],
   promotions |-> "guard" :> [cost |-> Wallet(1, 0, 0), workers |-> 1, needs |-> "hut" :> 1,
                              output |-> Wallet(0, 0, 1)],
   works |-> "hut" :> 0, openTasks |-> {"forage"}, openBuilds |-> {"hut"}, openPromotions |-> {},
   upkeep |-> Wallet(1, 0, 0), victory |-> Wallet(0, 1, 1), mustPay |-> mustPay,
   perWork |-> 1, perElite |-> 1, bound |-> 6, exits |-> Both, scoring |-> "single_round"]

Net(arrivals, next, capacity, service, limit) ==
  [kind |-> "queue", patients |-> <<"ann", "bob", "cleo">>,
   arrival |-> "ann" :> arrivals[1] @@ "bob" :> arrivals[2] @@ "cleo" :> arrivals[3],
   entry |-> "desk", next |-> next, capacity |-> capacity, service |-> service, limit |-> limit,
   scoring |-> "single_round", bound |-> 10, exits |-> {"win"}]

Line == "desk" :> "ward" @@ "ward" :> NoStation
Ring == "desk" :> "ward" @@ "ward" :> "desk"
Per(desk, ward) == "desk" :> desk @@ "ward" :> ward

\* The rules of a day: what a purpose and a good ask for.
Day == "travel" :> "id" @@ "work" :> "permit" @@ "transit" :> "anonymous" @@ "spying" :> "criminal"
       @@ "weapon" :> "permit" @@ "radio" :> "id" @@ "secrets" :> "anonymous" @@ "poison" :> "criminal"
Shift(rules, roster, more) ==
  more @@ [kind |-> "credentials", rules |-> rules, roster |-> roster, allowArrest |-> TRUE, time |-> 4,
           overtimeRate |-> 1, tax |-> 1, threshold |-> 1, scoring |-> "single_round", bound |-> 24,
           exits |-> Both]
Plain == [threshold |-> 1]

\* every offer the sampler may make for a purpose
Sampled(purpose) ==
  {Offered(Day, purpose, mode, {}, complies) :
     mode \in UNION {Verified(Day, purpose, target) : target \in Dispositions}, complies \in {TRUE}}

\* authored packets: goods in the open and concealed, ids kept back, marks
Packet(purpose, id, hidden, papers, open, concealed) ==
  Rendered(Day, [purpose |-> purpose, id |-> id, hidden |-> hidden, papers |-> papers, open |-> open,
                 concealed |-> concealed], NoFindings)
  @@ [complies |-> TRUE, mark |-> "none", verdict |-> Nowhere]
Stale(holder) == [status |-> "stale", holder |-> holder]
Bare == [x \in {} |-> NoDoc]

Authored ==
  {Packet("transit", NoDoc, NoDoc, Bare, {"drugs"}, {"weapon"}),
   Packet("transit", NoDoc, Valid("bearer"), Bare, {"radio"}, {"secrets"}),
   Packet("transit", Valid("other"), NoDoc, "weapon" :> Valid("other"), {"weapon"}, {}),
   Packet("transit", NoDoc, NoDoc, Bare, {}, {"poison"}),
   Packet("travel", NoDoc, Valid("other"), Bare, {}, {"secrets"}),
   Packet("travel", NoDoc, Valid("bearer"), Bare, {}, {"radio"}),
   Packet("travel", NoDoc, Stale("bearer"), Bare, {"secrets"}, {}),
   Packet("work", Valid("bearer"), NoDoc, "work" :> Stale("other"), {}, {}),
   Packet("work", NoDoc, Valid("other"), "work" :> Stale("bearer"), {}, {}),
   Packet("transit", NoDoc, NoDoc, "work" :> [status |-> "forged", holder |-> "bearer"], {}, {"weapon"}),
   Packet("spying", NoDoc, NoDoc, Bare, {}, {}),
   [Packet("travel", Valid("bearer"), NoDoc, Bare, {}, {}) EXCEPT !.mark = "black"],
   [Packet("transit", NoDoc, NoDoc, Bare, {"poison"}, {}) EXCEPT !.mark = "white"],
   [Packet("travel", NoDoc, Valid("bearer"), Bare, {}, {}) EXCEPT !.complies = FALSE]}
\* papers whose authored text says nothing of their fault
Mute == [Packet("travel", Stale("bearer"), NoDoc, Bare, {}, {}) EXCEPT !.facts = {}, !.clue = FALSE]

Shifts ==
  {Shift(Day, <<p>>, Plain) : p \in Authored \cup Sampled("travel") \cup Sampled("work")}
  \cup {Shift(Day, <<p, Packet("transit", NoDoc, NoDoc, Bare, {}, {"secrets"})>>,
              [allowArrest |-> FALSE, time |-> 6, threshold |-> 2])
           : p \in {Mute, Packet("transit", NoDoc, NoDoc, Bare, {}, {})}}

MCConfigs ==
  Shifts \cup
  {Trivial("best_of_n", 3, "trivial_random", NoMove), Trivial("first_to_n", 3, "trivial_win", "trivial_oppose"),
   Trivial("highest_after_n", 2, "trivial_lose", NoMove), Trivial("single_round", 1, "trivial_draw", "trivial_agree"),
   Throws(Rps, "best_of_n", 3, "rps_tit_for_tat", NoMove), Throws(Rps, "first_to_n", 2, "rps_cycle", NoMove),
   Throws(Rps, "highest_after_n", 2, "rps_rock", "rps_throw"), Throws(Rps, "single_round", 1, NoMove, NoMove),
   Throws(Rps, "first_to_n", 2, "rps_random", "rps_counter"), Throws(Rpsls, "best_of_n", 2, "rps_random", NoMove)}
  \cup {Nim(heap, 3, "nim_random", lastWins) : heap \in {5, 7}, lastWins \in BOOLEAN}
  \cup {Nim(6, 2, opponent, TRUE) : opponent \in {"nim_greedy", "nim_safe", NoMove}}
  \cup {Bag(Counts(2, 1, 0), Counts(1, 1, 1), "aggregate_force_greedy", 2, Counts(1, 2, 1)),
        Bag(Counts(2, 2, 0), Counts(0, 2, 2), "aggregate_force_random", 1, Counts(1, 1, 1))}
  \cup {Siege(Counts(2, 1, 0), Counts(1, 1, 1), initiative, 2, 1, 1) : initiative \in BOOLEAN}
  \cup {Corridor(4, <<1, 2, 1, 1>>, initiative) : initiative \in BOOLEAN}
  \cup {Phrases(initiative) : initiative \in BOOLEAN}
  \cup {Shell(mustPay) : mustPay \in BOOLEAN}
  \cup {Blackjack(17, {}), Blackjack(17, Stacked), Kim}
  \cup {Net(<<0, 0, 1>>, Line, Per(1, 1), Per(2, 1), 20), Net(<<0, 1, 3>>, Line, Per(1, 2), Per(1, 3), 20),
        Net(<<0, 0, 0>>, Line, Per(2, 1), Per(2, 2), 20), Net(<<0, 0, 1>>, Line, Per(1, 1), Per(1, 1), 4),
        Net(<<0, 0, 0>>, Ring, Per(1, 1), Per(1, 1), 20)}
===============================================================================
