------------------------------- MODULE Contests -------------------------------
(* The rules of the games of tangl.mechanics.games that are played against an   *)
(* opponent: chosen outcomes, throws, Nim, attrition and siege, the corridor,   *)
(* call and response. A game g has its configuration g.c, its score g.score,    *)
(* the number of the round g.round, what its history tells (g.history) and a    *)
(* state g.s of its own. A rule gives the outcomes a round may have; randomness *)
(* is a choice among them.                                                      *)
EXTENDS Integers, Sequences, FiniteSets, FiniteSetsExt, SequencesExt, Functions

NoMove == "none"

(* What a round does: the new state, the points it gives to both, its result.  *)
Outcome(g, s, mine, theirs, result) ==
  [s |-> s, result |-> result,
   score |-> [player |-> g.score.player + mine, opponent |-> g.score.opponent + theirs]]

-------------------------------------------------------------------------------
(* Chosen outcomes: the player picks the result of the round.                   *)
TrivialMoves == {"win", "lose", "draw"}
TrivialRound(g, mine, theirs) ==
  IF mine = theirs THEN Outcome(g, g.s, 1, 1, "draw")
  ELSE CASE mine = "win"  -> Outcome(g, g.s, 2, 0, "win")
         [] mine = "lose" -> Outcome(g, g.s, 0, 2, "lose")
         [] mine = "draw" -> Outcome(g, g.s, 1, 1, "draw")

(* Throws: c.beats maps a throw to those it beats, one each in rock-paper-      *)
(* scissors, two each with lizard and Spock.                                    *)
ThrowRound(g, mine, theirs) ==
  CASE theirs = NoMove -> Outcome(g, g.s, 1, 0, "win")
    [] theirs = mine -> Outcome(g, g.s, 0, 0, "draw")
    [] theirs # mine /\ theirs \in g.c.beats[mine] -> Outcome(g, g.s, 1, 0, "win")
    [] OTHER -> Outcome(g, g.s, 0, 1, "lose")

(* What an opponent chooses by itself, and how one that sees the move revises   *)
(* its choice.                                                                  *)
TrivialTells(g) ==
  CASE g.c.opponent = "trivial_random" -> TrivialMoves
    [] g.c.opponent = "trivial_win" -> {"win"}
    [] g.c.opponent = "trivial_lose" -> {"lose"}
    [] OTHER -> {"draw"}

Cycle == <<"rock", "paper", "scissors">>
ThrowTells(g) ==
  CASE g.c.opponent = NoMove -> {NoMove}
    [] g.c.opponent = "rps_rock" -> {"rock"}
    [] g.c.opponent = "rps_cycle" -> {Cycle[(g.round % 3) + 1]}
    [] g.c.opponent = "rps_tit_for_tat" /\ g.history.count > 0 -> {g.history.move}
    [] OTHER -> DOMAIN g.c.beats

Revisions(g, mine) ==
  CASE g.c.revision = "trivial_agree" -> {mine}
    [] g.c.revision = "trivial_oppose" -> {CASE mine = "win" -> "lose" [] mine = "lose" -> "win" [] OTHER -> "draw"}
    [] g.c.revision = "rps_counter" -> {o \in DOMAIN g.c.beats : mine \in g.c.beats[o]}
    [] g.c.revision = "rps_throw" -> g.c.beats[mine]

-------------------------------------------------------------------------------
(* Nim: one heap, g.s.heap, of which both take between min and max tokens. The  *)
(* opponent's take was chosen from the heap before the player's take, 0 is none.*)
(* The last token can be taken alone, as by default: the code demands none of   *)
(* this, and a heap below the least take would leave nothing to choose.         *)
HeapGiven(c) == c.heap \in Nat \ {0} /\ c.min \in {0, 1} /\ c.max \in Nat \ {0}
Takes(g) == {n \in g.c.min..g.c.max : n <= g.s.heap}

NimTells(g) ==
  LET safe == g.s.heap % (g.c.max + 1) IN
  CASE g.c.opponent = "nim_random" -> Takes(g)
    [] g.c.opponent = "nim_greedy" -> {n \in Takes(g) : n = Max(Takes(g))}
    [] g.c.opponent = "nim_safe" -> IF safe \in Takes(g) THEN {safe} ELSE {n \in Takes(g) : n = Min(Takes(g))}
    [] OTHER -> {0}

NimRound(g, take, reply) ==
  LET left == g.s.heap - take
      rest == left - reply
      heap(n) == [g.s EXCEPT !.heap = n]
  IN CASE left <= 0 ->
            IF g.c.lastWins THEN Outcome(g, heap(left), 1, 0, "win") ELSE Outcome(g, heap(left), 0, 1, "lose")
       [] left > 0 /\ rest <= 0 ->
            IF g.c.lastWins THEN Outcome(g, heap(rest), 0, 1, "lose") ELSE Outcome(g, heap(rest), 1, 0, "win")
       [] OTHER -> Outcome(g, heap(rest), 0, 0, "continue")

-------------------------------------------------------------------------------
(* Attrition: reserves of both sides, counts of units of the types c.types, a   *)
(* sequence in which each beats one other. A commitment is such counts, too.    *)
Types(c) == ToSet(c.types)
Rank(c, t) == CHOOSE i \in 1..Len(c.types) : c.types[i] = t
TotalForce(c, units) == SumFunction([t \in Types(c) |-> units[t] * c.weight[t]])
Present(c, units) == {t \in Types(c) : units[t] > 0}
Units(c, units) == SumFunction([t \in Types(c) |-> units[t]])

(* Reserves count units of the types, and there is somebody to command: nothing *)
(* of it is checked when the game is set up.                                    *)
ForcesGiven(c) ==
  /\ c.types \in Seq(Types(c)) /\ IsFiniteSet(Types(c)) /\ {c.weight, c.player, c.opponentReserve} \subseteq [Types(c) -> Nat]
  /\ {c.maxCommit, c.maxMix, c.ratio} \subseteq Nat \ {0} /\ Present(c, c.player) # {}

(* All commitments a reserve allows.                                            *)
Profiles(c, reserve) ==
  {p \in [Types(c) -> 0..c.maxCommit] :
     /\ \A t \in Types(c) : p[t] <= reserve[t]
     /\ Units(c, p) \in 1..c.maxCommit
     /\ Cardinality(Present(c, p)) <= c.maxMix}

(* The power that the units of some types add to a commitment.                  *)
Power(c, units, types) ==
  SumFunction([t \in Present(c, units) \cap types |-> units[t] * c.weight[t]])
Favorable(c, against) == {t \in Types(c) : c.beaten[t] \in against}
Neutral(c, against) == against \ Favorable(c, against)

CasualtyBudget(c, attacker, defender) ==
  LET met == Present(c, defender)
      strong == Favorable(c, met) \cup Neutral(c, met)
      budget == Power(c, attacker, strong) + Power(c, attacker, Types(c) \ strong) \div c.ratio
  IN IF Present(c, attacker) = {} \/ met = {} THEN 0
     ELSE IF budget < Units(c, defender) THEN budget ELSE Units(c, defender)

(* Types are hit in the order: beaten by the attacker, of its own kind, others. *)
Exposure(c, attacker, t) ==
  LET class == IF \E a \in Present(c, attacker) : c.beaten[a] = t THEN 0
               ELSE IF t \in Present(c, attacker) THEN 1 ELSE 2
  IN class * (Len(c.types) + 1) + Rank(c, t)

Casualties(c, attacker, defender) ==
  LET budget == CasualtyBudget(c, attacker, defender)
      exposed(t) == {u \in Present(c, defender) : Exposure(c, attacker, u) < Exposure(c, attacker, t)}
      before(t) == SumFunction([u \in exposed(t) |-> defender[u]])
  IN [t \in Types(c) |-> Max({0, Min({defender[t], budget - before(t)})})]

Minus(units, losses) == [t \in DOMAIN units |-> Max({units[t] - losses[t], 0})]

(* Both sides lose what the other side's commitment costs them.                 *)
Clashed(g, mine, theirs) ==
  [g.s EXCEPT !.player = Minus(@, Casualties(g.c, theirs, mine)),
              !.opponent = Minus(@, Casualties(g.c, mine, theirs))]
Dealt(g, mine, theirs) == TotalForce(g.c, Casualties(g.c, mine, theirs))

(* The greedy opponent commits the most units of the most types; which of these *)
(* is left open.                                                                *)
Largest(c, profiles) ==
  {p \in profiles : \A o \in profiles :
     \/ Units(c, o) < Units(c, p)
     \/ Units(c, o) = Units(c, p) /\ Cardinality(Present(c, o)) <= Cardinality(Present(c, p))}

Nothing(c) == [t \in Types(c) |-> 0]
BagTells(g) ==
  LET all == Profiles(g.c, g.s.opponent) IN
  IF all = {} THEN {Nothing(g.c)}
  ELSE IF g.c.opponent = "aggregate_force_greedy" THEN Largest(g.c, all) ELSE all

(* An opponent without a choice commits the first profile there is.             *)
BagCommits(g, tell) ==
  LET all == Profiles(g.c, g.s.opponent) IN
  IF Present(g.c, tell) # {} THEN {tell} ELSE IF all = {} THEN {Nothing(g.c)} ELSE all

BagRound(g, mine, theirs) ==
  LET dealt == Dealt(g, mine, theirs)
      taken == Dealt(g, theirs, mine)
  IN Outcome(g, Clashed(g, mine, theirs), dealt, taken,
             IF dealt > taken THEN "win" ELSE IF dealt < taken THEN "lose" ELSE "draw")

(* Attrition ends when a side has no force left.                                *)
ForceLeft(g) ==
  LET mine == TotalForce(g.c, g.s.player)
      theirs == TotalForce(g.c, g.s.opponent)
  IN CASE mine <= 0 /\ theirs <= 0 ->
            IF g.score.player > g.score.opponent THEN "win"
            ELSE IF g.score.player < g.score.opponent THEN "lose" ELSE "draw"
       [] theirs <= 0 /\ mine > 0 -> "win"
       [] mine <= 0 /\ theirs > 0 -> "lose"
       [] OTHER -> "in_process"

-------------------------------------------------------------------------------
(* Siege: attrition in which who has the initiative attacks and the other       *)
(* answers. Pressures are multiplied by c.ratio, to stay among the integers.    *)
Pressure(c, actor, against, attacking) ==
  LET strong == Favorable(c, against) \cup Neutral(c, against) IN
  IF Present(c, actor) = {} THEN 0
  ELSE c.ratio * Power(c, actor, strong) + Power(c, actor, Types(c) \ strong)
       + SumFunction([t \in Types(c) |-> actor[t] * c.posture[t]])
       + IF attacking THEN c.bonus ELSE 0

Resistance(c, answer, attack) == Pressure(c, answer, Present(c, attack), FALSE) - c.tax

(* The opponent answers with the weakest profile that holds against the attack  *)
(* as it looks before any answer, or else with its strongest.                   *)
Answers(g, attack) ==
  LET all == Profiles(g.c, g.s.opponent)
      value(p) == Resistance(g.c, p, attack)
      holding == {p \in all : value(p) >= Pressure(g.c, attack, {}, TRUE)}
      less(p, o) == value(p) < value(o) \/ (value(p) = value(o) /\ Units(g.c, p) <= Units(g.c, o))
  IN IF all = {} THEN {Nothing(g.c)}
     ELSE IF holding # {} THEN {p \in holding : \A o \in holding : less(p, o)}
     ELSE {p \in all : \A o \in all : less(o, p)}

SiegeTells(g) ==
  LET all == Profiles(g.c, g.s.opponent) IN
  IF g.s.initiative \/ all = {} THEN {Nothing(g.c)} ELSE Largest(g.c, all)

SiegeRound(g, mine, theirs) ==
  LET attack == IF g.s.initiative THEN mine ELSE theirs
      defence == IF g.s.initiative THEN theirs ELSE mine
      held == Resistance(g.c, defence, attack) - Pressure(g.c, attack, Present(g.c, defence), TRUE)
      after == IF held > 0 THEN ~g.s.initiative ELSE g.s.initiative
  IN Outcome(g, [Clashed(g, mine, theirs) EXCEPT !.initiative = after],
             Dealt(g, mine, theirs), Dealt(g, theirs, mine),
             IF held = 0 THEN "draw" ELSE IF g.s.initiative = (held < 0) THEN "win" ELSE "lose")

-------------------------------------------------------------------------------
(* Corridor: who reaches the target is bust; who stands behind the other after  *)
(* a turn of his own has trapped him.                                           *)
(* Scores, the target and what there is to add are numbers.                     *)
CorridorGiven(c) ==
  c.target \in Int /\ c.start \in Int /\ c.source \in Seq(Int)

Coming(g, s) == IF s.drawn < Len(g.c.source) THEN {g.c.source[s.drawn + 1]} ELSE {}

CorridorPolicy(g) ==
  LET s == g.s IN
  IF \/ s.opponent < s.player /\ s.player < g.c.target
     \/ Coming(g, s) = {}
     \/ \E v \in Coming(g, s) : s.opponent + v >= g.c.target
  THEN "hold" ELSE "advance"

(* One turn: the new state, and the result if the turn decides the contest.     *)
Turn(g, s, actor, move) ==
  LET other == IF actor = "player" THEN "opponent" ELSE "player"
      won == IF actor = "player" THEN "win" ELSE "lose"
      lost == IF actor = "player" THEN "lose" ELSE "win"
      drawing == move = "advance" /\ Coming(g, s) # {}
      moved == IF drawing
               THEN [s EXCEPT ![actor] = @ + g.c.source[s.drawn + 1], !.drawn = @ + 1] ELSE s
  IN [s |-> moved,
      result |-> CASE moved[actor] >= g.c.target -> lost
                   [] moved[actor] < moved[other] /\ moved[other] < g.c.target -> won
                   [] OTHER -> "continue"]

CorridorRound(g, mine, theirs) ==
  LET reply == IF theirs = NoMove THEN CorridorPolicy(g) ELSE theirs
      one == IF g.s.initiative THEN Turn(g, g.s, "player", mine) ELSE Turn(g, g.s, "opponent", reply)
      two == IF one.result # "continue" THEN one
             ELSE IF g.s.initiative THEN Turn(g, one.s, "opponent", reply) ELSE Turn(g, one.s, "player", mine)
  IN CASE two.result = "win" -> Outcome(g, two.s, 1, 0, "win")
       [] two.result = "lose" -> Outcome(g, two.s, 0, 1, "lose")
       [] OTHER -> Outcome(g, [two.s EXCEPT !.initiative = ~@], 0, 0, "continue")

-------------------------------------------------------------------------------
(* Call and response: who has the initiative calls, the other answers; a pair   *)
(* of the schedule c.matches is an answer. The opponent's phrases are ordered.  *)
RoleOf(initiative) == IF initiative THEN "call" ELSE "response"
Able(c, phrases, role) == SelectSeq(phrases, LAMBDA p : role \in c.roles[p])

(* Either side without a phrase for a role is rejected.                         *)
PhrasesGiven(c) ==
  \A phrases \in {c.mine, c.theirs} : \A role \in {"call", "response"} :
    ToSet(Able(c, phrases, role)) # {}

PhraseMoves(g) == ToSet(Able(g.c, g.c.mine, RoleOf(g.s.initiative)))
PhraseTells(g) == IF g.s.initiative THEN {NoMove} ELSE {Able(g.c, g.c.theirs, "call")[1]}

PhraseAnswers(g, call) ==
  LET able == Able(g.c, g.c.theirs, "response")
      fit == SelectSeq(able, LAMBDA p : <<call, p>> \in g.c.matches)
  IN IF fit # <<>> THEN {fit[1]} ELSE {able[1]}

PhraseRound(g, mine, theirs) ==
  LET pair == IF g.s.initiative THEN <<mine, theirs>> ELSE <<theirs, mine>>
      matched == pair \in g.c.matches
      after == [g.s EXCEPT !.initiative = IF matched THEN ~@ ELSE @]
  IN IF g.s.initiative # matched THEN Outcome(g, after, 1, 0, "win") ELSE Outcome(g, after, 0, 1, "lose")
===============================================================================
