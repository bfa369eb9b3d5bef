------------------------------ MODULE Solitaires ------------------------------
(* The rules of the games of tangl.mechanics.games that are played against the  *)
(* house: blackjack, inspecting and deciding (Kim's game), the incremental      *)
(* shell.                                                                       *)
EXTENDS Contests

-------------------------------------------------------------------------------
(* Blackjack. A card is <<rank, suit>>; a deck is what has not been dealt, in   *)
(* an order that nobody has seen, so that a draw may be any card of it.         *)
HandTotalHard(hand) == SumFunction([card \in hand |-> IF card[1] < 10 THEN card[1] ELSE 10])
HandTotal(hand) ==
  LET hard == SumFunction([card \in hand |-> IF card[1] < 10 THEN card[1] ELSE 10])
      aces == Cardinality({card \in hand : card[1] = 1})
      soft[n \in 0..aces] == IF n = 0 THEN hard
                             ELSE LET total == soft[n - 1] IN IF total <= 11 THEN total + 10 ELSE total
  IN soft[aces]

(* The opening deal gives two cards to the player and two to the dealer, in     *)
(* turn; a bias stacks the deck with the four cards that are dealt first.       *)
Deals(c) ==
  IF c.stacked # {} THEN c.stacked
  ELSE {deal \in kSubset(2, c.cards) \X kSubset(2, c.cards) : deal[1] \cap deal[2] = {}}

(* A deck to deal from: by default the 52 cards, of ranks up to the king.       *)
DeckGiven(c) ==
  /\ IsFiniteSet(c.cards) /\ Deals(c) # {} /\ \A card \in c.cards : card[1] \in 1..13
  /\ \A deal \in Deals(c) :
       /\ deal[1] \subseteq c.cards /\ deal[2] \subseteq c.cards /\ deal[1] \cap deal[2] = {}
       /\ Cardinality(deal[1]) = 2 /\ Cardinality(deal[2]) = 2

BlackjackOpenings(c) ==
  {[deck |-> c.cards \ (deal[1] \cup deal[2]), player |-> deal[1], dealer |-> deal[2], stood |-> FALSE]
     : deal \in Deals(c)}

BlackjackMoves(g) ==
  IF g.result # "in_process" \/ g.s.stood THEN {}
  ELSE IF HandTotal(g.s.player) >= 21 THEN {"stand"} ELSE {"hit", "stand"}

(* The hands with which the dealer may come to stand: draws one card at a time  *)
(* while below the limit. An exhausted deck makes the round raise.              *)
DealerDraws(c, s) ==
  IF HandTotal(s.dealer) >= c.standAt THEN {s}
  ELSE {[s EXCEPT !.dealer = @ \cup {card}, !.deck = @ \ {card}] : card \in s.deck}
DealerStands(c, s) ==
  LET after[n \in 0..Cardinality(s.deck)] ==
        IF n = 0 THEN {s} ELSE LET before == after[n - 1] IN UNION {DealerDraws(c, t) : t \in before}
  IN {t \in after[Cardinality(s.deck)] : HandTotal(t.dealer) >= c.standAt}

Showdown(g, s) ==
  LET mine == HandTotal(s.player)
      theirs == HandTotal(s.dealer)
  IN CASE theirs > 21 \/ mine > theirs -> Outcome(g, s, 1, 0, "win")
       [] theirs <= 21 /\ theirs > mine -> Outcome(g, s, 0, 1, "lose")
       [] OTHER -> Outcome(g, s, 1, 1, "draw")

BlackjackRounds(g, move) ==
  LET hit(card) == [g.s EXCEPT !.player = @ \cup {card}, !.deck = @ \ {card}]
      played == IF move = "hit" THEN {hit(card) : card \in g.s.deck} ELSE {g.s}
  IN UNION {IF move = "hit" /\ HandTotal(s.player) > 21 THEN {Outcome(g, s, 0, 1, "lose")}
            ELSE IF move = "hit" /\ HandTotal(s.player) < 21 THEN {Outcome(g, s, 0, 0, "continue")}
            ELSE {Showdown(g, end) : end \in DealerStands(g.c, [s EXCEPT !.stood = TRUE])}
              : s \in played}

-------------------------------------------------------------------------------
(* Inspect and decide, with a budget of cues: a move is <<kind, target>>.       *)
TrayGiven(c) == c.budget \in Nat /\ c.tray # {} /\ NoMove \notin c.tray
KimOpenings(c) ==
  {[missing |-> item, cues |-> c.budget, inspected |-> {}, revealed |-> {}, decision |-> NoMove] : item \in c.tray}

KimMoves(g) ==
       {<<"inspect", cue>> : cue \in IF g.s.cues <= 0 THEN {} ELSE g.c.clues \ g.s.inspected}
  \cup {<<"decide", item>> : item \in g.c.tray}

KimRound(g, move) ==
  LET inspected == [g.s EXCEPT !.inspected = @ \cup {move[2]}, !.cues = @ - 1, !.revealed = @ \cup {move[2]}]
      decided == [g.s EXCEPT !.decision = move[2]]
  IN CASE move[1] = "inspect" -> Outcome(g, inspected, 0, 0, "continue")
       [] move[1] = "decide" /\ move[2] = g.s.missing -> Outcome(g, decided, 1, 0, "win")
       [] OTHER -> Outcome(g, decided, 0, 1, "lose")

-------------------------------------------------------------------------------
(* The incremental shell: workers are assigned to tasks, buildings and          *)
(* promotions are bought, a cycle pays the upkeep and lets every worker         *)
(* produce. Bundles of goods are functions of all goods.                        *)
Goods(c) == DOMAIN c.goods
Affords(wallet, cost) == \A x \in DOMAIN cost : wallet[x] >= cost[x]
Spent(wallet, cost) == [x \in DOMAIN wallet |-> wallet[x] - cost[x]]
Earned(wallet, gain) == [x \in DOMAIN wallet |-> wallet[x] + gain[x]]

(* What is authored as a specialist, "elite", is what promotions alone bring,   *)
(* c.perElite of whom stand for a worker each; buildings bring c.perWork workers *)
(* for each of the works they add.                                              *)
ShellGiven(c) ==
  LET bundles == [Goods(c) -> Nat]
      works == [DOMAIN c.works -> Nat]
      kept(loss, gain) == {loss, gain} \subseteq bundles /\ loss["elite"] = gain["elite"]
  IN /\ {c.goods, c.upkeep} \subseteq bundles /\ "elite" \in Goods(c) /\ c.goods["elite"] = 0 /\ c.upkeep["elite"] = 0
     /\ {c.workers, c.perWork, c.perElite} \subseteq Nat /\ IsFiniteSet(DOMAIN c.tasks) /\ IsFiniteSet(DOMAIN c.works)
     /\ c.order \in Seq(DOMAIN c.tasks) /\ c.openTasks \subseteq DOMAIN c.tasks
     /\ c.openBuilds \subseteq DOMAIN c.builds /\ c.openPromotions \subseteq DOMAIN c.promotions
     /\ \A t \in DOMAIN c.tasks : kept(c.tasks[t].consumes, c.tasks[t].produces)
     /\ \A b \in DOMAIN c.builds :
          LET new == c.builds[b] IN
          /\ kept(new.cost, new.gain) /\ new.works \in works /\ new.workers = c.perWork * SumFunction(new.works)
          /\ new.tasks \subseteq DOMAIN c.tasks /\ new.builds \subseteq DOMAIN c.builds
          /\ new.promotions \subseteq DOMAIN c.promotions
     /\ \A p \in DOMAIN c.promotions :
          LET up == c.promotions[p] IN
          /\ {up.cost, up.output} \subseteq bundles
          /\ up.workers \in Nat /\ up.workers = c.perElite * (up.output["elite"] - up.cost["elite"])

IncrementalOpening(c) ==
  [goods |-> c.goods, idle |-> c.workers, assigned |-> [t \in DOMAIN c.tasks |-> 0],
   works |-> [x \in DOMAIN c.works |-> 0], cycle |-> 0,
   tasks |-> c.openTasks, builds |-> c.openBuilds, promotions |-> c.openPromotions]

Buildable(g) == {b \in g.s.builds : Affords(g.s.goods, g.c.builds[b].cost)}
PromotableUnmanned(g) ==
  {p \in g.s.promotions : /\ Affords(g.s.goods, g.c.promotions[p].cost)
                          /\ Affords(g.s.works, g.c.promotions[p].needs)}
Promotable(g) ==
  {p \in g.s.promotions :
     /\ g.s.idle >= g.c.promotions[p].workers
     /\ Affords(g.s.goods, g.c.promotions[p].cost)
     /\ Affords(g.s.works, g.c.promotions[p].needs)}

IncrementalMoves(g) ==
       {<<"assign", t>> : t \in IF g.s.idle > 0 THEN g.s.tasks ELSE {}}
  \cup {<<"unassign", t>> : t \in {t \in DOMAIN g.s.assigned : g.s.assigned[t] > 0}}
  \cup {<<"build", b>> : b \in Buildable(g)}
  \cup {<<"promote", p>> : p \in Promotable(g)}
  \cup {<<"end_cycle", NoMove>>}

Built(s, b) ==
  [s EXCEPT !.goods = Earned(Spent(@, b.cost), b.gain), !.works = Earned(@, b.works), !.idle = @ + b.workers,
            !.tasks = @ \cup b.tasks, !.builds = @ \cup b.builds, !.promotions = @ \cup b.promotions]

(* The workers of one task, one after the other: those that find what they      *)
(* consume spend it and produce.                                                *)
Worked(goods, task, workers) ==
  LET after[n \in 0..workers] ==
        IF n = 0 THEN goods
        ELSE LET have == after[n - 1] IN
             IF Affords(have, task.consumes) THEN Earned(Spent(have, task.consumes), task.produces) ELSE have
  IN after[workers]

(* Tasks work in the order in which they were authored.                         *)
Produced(g, goods) ==
  LET order == g.c.order
      after[n \in 0..Len(order)] ==
        IF n = 0 THEN goods ELSE Worked(after[n - 1], g.c.tasks[order[n]], g.s.assigned[order[n]])
  IN after[Len(order)]

Victorious(g, goods) == g.c.victory # [x \in Goods(g.c) |-> 0] /\ Affords(goods, g.c.victory)

EndCycle(g) ==
  LET paid == Affords(g.s.goods, g.c.upkeep)
      goods == Produced(g, IF paid THEN Spent(g.s.goods, g.c.upkeep) ELSE g.s.goods)
      next == [g.s EXCEPT !.goods = goods, !.cycle = @ + 1]
  IN IF ~paid /\ g.c.mustPay THEN Outcome(g, g.s, 0, 1, "lose")
     ELSE IF Victorious(g, goods) THEN Outcome(g, next, 1, 0, "win")
     ELSE Outcome(g, next, 0, 0, "continue")

IncrementalRound(g, move) ==
  LET on == move[2]
      same(s) == Outcome(g, s, 0, 0, "continue")
  IN CASE move[1] = "assign" -> same([g.s EXCEPT !.idle = @ - 1, !.assigned[on] = @ + 1])
       [] move[1] = "unassign" -> same([g.s EXCEPT !.idle = @ + 1, !.assigned[on] = Max({@ - 1, 0})])
       [] move[1] = "build" -> same(Built(g.s, g.c.builds[on]))
       [] move[1] = "promote" ->
            same([g.s EXCEPT !.goods = Earned(Spent(@, g.c.promotions[on].cost), g.c.promotions[on].output),
                             !.idle = @ - g.c.promotions[on].workers])
       [] OTHER -> EndCycle(g)

(* A shell that holds the victory goods is won, whatever its last round was.    *)
IncrementalResult(g) ==
  IF Victorious(g, g.s.goods) \/ g.score.player > 0 THEN "win"
  ELSE IF g.score.opponent > 0 THEN "lose" ELSE "in_process"
===============================================================================
