-------------------------------- MODULE Games --------------------------------
(* A block of the story that holds a game (HasGame), played through the frames  *)
(* of the traversal: entering it sets the game up, its moves are offered as     *)
(* actions that lead back to the block, a chosen one is played in UPDATE, and   *)
(* the exits of the block follow the result. The rules are in Contests,         *)
(* Solitaires, Queueing and Checkpoint; a configuration says which one it has.  *)
EXTENDS Solitaires, Queueing, Checkpoint

CONSTANTS
  Configs,     \* the configured games a block may hold
  KeepsFailed  \* whether a frame that raised may leave its changes: a set of Booleans

GameKinds == {"trivial", "throws", "nim", "bag", "siege", "corridor", "phrases", "blackjack", "kim",
              "incremental", "queue", "credentials"}

ASSUME ConfigsAssumption ==
  /\ \A c \in Configs : c.kind \in GameKinds
  /\ KeepsFailed \subseteq BOOLEAN
  /\ \A c \in Configs : c.bound \in Nat /\ c.exits \subseteq {"win", "lose", "draw"}
  /\ \A c \in Configs :
       /\ c.kind = "throws" => DOMAIN c.beats # {}
       /\ c.kind = "nim" => HeapGiven(c)
       /\ c.kind \in {"bag", "siege"} => ForcesGiven(c)
       /\ c.kind = "corridor" => CorridorGiven(c)
       /\ c.kind = "phrases" => PhrasesGiven(c)
       /\ c.kind \in {"trivial", "throws", "phrases"} /\ c.scoring = "best_of_n" => c.n \in Nat
       /\ c.kind = "blackjack" => DeckGiven(c)
       /\ c.kind = "kim" => TrayGiven(c)
       /\ c.kind = "incremental" => ShellGiven(c)
       /\ c.kind = "queue" => Specified(c)
       /\ c.kind = "credentials" => RosterGiven(c)

VARIABLES
  game,     \* the Game with its handler's view of it
  actions,  \* the moves on the block's dynamic actions
  place,    \* "block" or "outside"
  keeps     \* this session keeps what a failed frame did
vars == <<game, actions, place, keeps>>

NoState == [none |-> TRUE]

Fresh(c) ==
  [c |-> c, phase |-> "pending", result |-> "in_process", round |-> 0,
   score |-> [player |-> 0, opponent |-> 0],
   history |-> [count |-> 0, win |-> 0, lose |-> 0, move |-> NoMove, reply |-> NoMove, result |-> "none"],
   tell |-> NoMove, s |-> NoState]

-------------------------------------------------------------------------------
(* The handler of a game, by its kind.                                          *)

(* on_setup: the states the rules may start in; none if it raises.              *)
Openings(c) ==
  CASE c.kind = "nim" -> {[heap |-> c.heap]}
    [] c.kind = "bag" -> {[player |-> c.player, opponent |-> c.opponentReserve]}
    [] c.kind = "siege" -> {[player |-> c.player, opponent |-> c.opponentReserve, initiative |-> c.initiative]}
    [] c.kind = "corridor" -> {[player |-> c.start, opponent |-> c.start, drawn |-> 0, initiative |-> c.initiative]}
    [] c.kind = "phrases" -> {[initiative |-> c.initiative]}
    [] c.kind = "blackjack" -> BlackjackOpenings(c)
    [] c.kind = "kim" -> KimOpenings(c)
    [] c.kind = "incremental" -> {IncrementalOpening(c)}
    [] c.kind = "queue" -> IF ValidNet(c) THEN {OpenQueue(c)} ELSE {}
    [] c.kind = "credentials" -> {ShiftOpening(c)}
    [] OTHER -> {NoState}

QueueMoves(g) ==
  CASE g.s = NoState -> {"run_until_complete"}
    [] g.s # NoState /\ g.s.metrics -> {}
    [] g.s # NoState /\ ~g.s.metrics /\ g.s.calendar = {} -> {"run_until_complete"}
    [] OTHER -> {"run_next", "run_until_complete"}

(* get_available_moves: what may be played now.                                 *)
Moves(g) ==
  CASE g.c.kind = "trivial" -> TrivialMoves
    [] g.c.kind = "throws" -> DOMAIN g.c.beats
    [] g.c.kind = "nim" -> Takes(g)
    [] g.c.kind \in {"bag", "siege"} -> Profiles(g.c, g.s.player)
    [] g.c.kind = "corridor" -> {"advance", "hold"}
    [] g.c.kind = "phrases" -> PhraseMoves(g)
    [] g.c.kind = "blackjack" -> BlackjackMoves(g)
    [] g.c.kind = "kim" -> KimMoves(g)
    [] g.c.kind = "incremental" -> IncrementalMoves(g)
    [] g.c.kind = "queue" -> QueueMoves(g)
    [] g.c.kind = "credentials" -> CheckpointMoves(g)

(* get_provisioned_moves: Nim offers one action that asks for a quantity, the   *)
(* checkpoint one that asks for a document.                                     *)
Provisioned(g) ==
  CASE g.c.kind = "nim" -> IF Takes(g) = {} THEN {} ELSE {0}
    [] g.c.kind = "credentials" -> CheckpointActions(g)
    [] OTHER -> Moves(g)

(* resolve_move_payload: the moves that an action may be submitted as; a        *)
(* quantity that is no legal take, or a document that was inspected, raises.    *)
Submitted(g, m) ==
  CASE g.c.kind = "nim" -> 0..g.c.max + 1 [] g.c.kind = "credentials" -> Selectable(g, m) [] OTHER -> {m}
Refused(g, m) == g.c.kind \in {"nim", "credentials"} /\ m \notin Moves(g)

(* The opponent's choice before the player's: what the strategy may answer.     *)
Tells(g) ==
  CASE g.c.kind = "nim" -> NimTells(g)
    [] g.c.kind = "bag" -> BagTells(g)
    [] g.c.kind = "siege" -> SiegeTells(g)
    [] g.c.kind = "phrases" -> PhraseTells(g)
    [] g.c.kind = "trivial" -> TrivialTells(g)
    [] g.c.kind = "throws" -> ThrowTells(g)
    [] OTHER -> {NoMove}

(* A revision sees the player's move; otherwise the opponent does what it told. *)
Replies(g, m) ==
  CASE g.c.kind = "bag" -> BagCommits(g, g.tell)
    [] g.c.kind = "siege" -> IF g.s.initiative THEN Answers(g, m) ELSE {g.tell}
    [] g.c.kind = "phrases" -> IF g.s.initiative THEN PhraseAnswers(g, m) ELSE {g.tell}
    [] g.c.kind \in {"trivial", "throws"} -> IF g.c.revision = NoMove THEN {g.tell} ELSE Revisions(g, m)
    [] OTHER -> {g.tell}

QueueRound(g, m) ==
  LET ran == CASE g.s = NoState -> [calendar |-> {}, metrics |-> TRUE]
               [] g.s # NoState /\ m = "run_next" -> Finished(RunNext(g.c, g.s))
               [] OTHER -> Finished(RunAll(g.c, g.s, g.c.limit))
  IN IF m = "run_until_complete" /\ ran.calendar # {} THEN Outcome(g, ran, 0, 0, "raise")
     ELSE IF ran.metrics THEN Outcome(g, ran, 1, 0, "win") ELSE Outcome(g, ran, 0, 0, "continue")

(* resolve_round: the outcomes of a move and the opponent's reply to it.        *)
Rounds(g, m, o) ==
  CASE g.c.kind = "trivial" -> {TrivialRound(g, m, o)}
    [] g.c.kind = "throws" -> {ThrowRound(g, m, o)}
    [] g.c.kind = "nim" -> {NimRound(g, m, o)}
    [] g.c.kind = "bag" -> {BagRound(g, m, o)}
    [] g.c.kind = "siege" -> {SiegeRound(g, m, o)}
    [] g.c.kind = "corridor" -> {CorridorRound(g, m, o)}
    [] g.c.kind = "phrases" -> {PhraseRound(g, m, o)}
    [] g.c.kind = "blackjack" -> BlackjackRounds(g, m)
    [] g.c.kind = "kim" -> {KimRound(g, m)}
    [] g.c.kind = "incremental" -> {IncrementalRound(g, m)}
    [] g.c.kind = "queue" -> {QueueRound(g, m)}
    [] g.c.kind = "credentials" -> {CheckpointRound(g, m)}

-------------------------------------------------------------------------------
(* The scoring strategies, over the history or the score.                       *)
BestOfMajority(g) ==
  IF g.history.win >= g.c.n \div 2 + 1 THEN "win"
  ELSE IF g.history.lose >= g.c.n \div 2 + 1 THEN "lose" ELSE "in_process"
BestOf(g) ==
  LET needed == g.c.n \div 2 + 1
      h == g.history
  IN CASE h.win >= needed -> "win"
       [] h.win < needed /\ h.lose >= needed -> "lose"
       [] h.win < needed /\ h.lose < needed /\ h.count >= g.c.n ->
            IF h.win > h.lose THEN "win" ELSE IF h.lose > h.win THEN "lose" ELSE "draw"
       [] OTHER -> "in_process"

FirstTo(g) ==
  IF g.score.player >= g.c.n THEN "win" ELSE IF g.score.opponent >= g.c.n THEN "lose" ELSE "in_process"

HighestAfter(g) ==
  CASE g.round < g.c.n -> "in_process"
    [] g.round >= g.c.n /\ g.score.player > g.score.opponent -> "win"
    [] g.round >= g.c.n /\ g.score.player < g.score.opponent -> "lose"
    [] OTHER -> "draw"

SingleRoundEager(g) == IF g.history.count = 0 THEN "in_process" ELSE g.history.result

SingleRound(g) ==
  IF g.history.count = 0 \/ g.history.result = "continue" THEN "in_process" ELSE g.history.result

Evaluate(g) ==
  CASE g.c.kind \in {"bag", "siege"} -> ForceLeft(g)
    [] g.c.kind = "corridor" ->
         IF g.score.player > 0 THEN "win" ELSE IF g.score.opponent > 0 THEN "lose" ELSE "in_process"
    [] g.c.kind = "incremental" -> IncrementalResult(g)
    [] g.c.kind = "queue" -> IF g.s.metrics THEN "win" ELSE "in_process"
    [] g.c.kind = "credentials" -> ShiftResult(g)
    [] g.c.scoring = "best_of_n" /\ g.c.kind \in {"trivial", "throws", "phrases"} -> BestOf(g)
    [] g.c.scoring = "first_to_n" /\ g.c.kind \in {"trivial", "throws", "phrases"} -> FirstTo(g)
    [] g.c.scoring = "highest_after_n" /\ g.c.kind \in {"trivial", "throws", "phrases"} -> HighestAfter(g)
    [] OTHER -> SingleRound(g)

-------------------------------------------------------------------------------
(* The lifecycle. Results are pairs of a game and whether the call raised.      *)
Done(g) == [g |-> g, raised |-> FALSE]
Raised(g) == [g |-> g, raised |-> TRUE]

(* After the round the opponent chooses for the next one, which raises when the *)
(* strategy finds nothing to choose from.                                       *)
Preselected(g) ==
  IF Tells(g) = {} THEN {Raised(g)} ELSE {Done([g EXCEPT !.tell = t]) : t \in Tells(g)}

Setup(g) ==
  LET ready == [Fresh(g.c) EXCEPT !.phase = "ready"] IN
  IF Openings(g.c) = {} THEN {Raised(ready)}
  ELSE UNION {Preselected([ready EXCEPT !.s = s]) : s \in Openings(g.c)}

Recorded(h, m, o, result) ==
  [count |-> h.count + 1, win |-> h.win + (IF result = "win" THEN 1 ELSE 0),
   lose |-> h.lose + (IF result = "lose" THEN 1 ELSE 0), move |-> m, reply |-> o, result |-> result]

(* receive_move up to the record: phase, reply, round, history, result.         *)
Resolved(g, m, o, out) ==
  LET played == [g EXCEPT !.s = out.s, !.score = out.score]
      noted == [played EXCEPT !.history = Recorded(@, m, o, out.result)]
      judged == [noted EXCEPT !.result = Evaluate(noted)]
  IN IF out.result = "raise" THEN {Raised(played)}
     ELSE IF judged.result # "in_process" THEN {Done([judged EXCEPT !.phase = "terminal"])}
     ELSE Preselected([judged EXCEPT !.phase = "ready"])

ReceiveMove(g, m) ==
  LET begun == [g EXCEPT !.phase = "resolving", !.round = @ + 1] IN
  UNION {UNION {Resolved(begun, m, o, out) : out \in Rounds(begun, m, o)} : o \in Replies(begun, m)}

-------------------------------------------------------------------------------
(* Dynamic actions are projected for a game that waits for a move.              *)
Projected(g) == IF g.phase = "ready" /\ g.result = "in_process" THEN Provisioned(g) ELSE {}

(* The exits of the block are redirects of POSTREQS, by the result.             *)
Exit(g) == IF g.result \in g.c.exits THEN "outside" ELSE "block"

(* A frame that ran to its end, and one that raised: the cursor stays where it  *)
(* was; what the frame did stays if the session keeps failed frames, with the   *)
(* actions PLANNING had projected.                                              *)
EndsPiling(g) ==
  /\ game' = g
  /\ actions' = actions \cup Projected(g)
  /\ place' = Exit(g)
  /\ UNCHANGED keeps
Ends(g) ==
  /\ game' = g
  /\ actions' = Projected(g)
  /\ place' = Exit(g)
  /\ UNCHANGED keeps

Fails(g, planned) ==
  /\ IF keeps THEN game' = g /\ actions' = planned ELSE UNCHANGED <<game, actions>>
  /\ UNCHANGED <<place, keeps>>

Init ==
  /\ \E c \in Configs : game = Fresh(c)
  /\ actions = {}
  /\ place = "outside"
  /\ keeps \in KeepsFailed

(* A choice elsewhere leads to the block: a pending game is set up.             *)
Arrive ==
  /\ place = "outside"
  /\ \E end \in IF game.phase = "pending" THEN Setup(game) ELSE {Done(game)} :
       IF end.raised THEN Fails(end.g, Projected(game)) ELSE Ends(end.g)

(* An action of the block is chosen while the game waits for a move.            *)
Choose ==
  /\ place = "block" /\ game.phase = "ready" /\ game.round < game.c.bound
  /\ \E a \in actions : \E m \in Submitted(game, a) :
       IF Refused(game, m) THEN Fails(game, Projected(game))
       ELSE \E end \in ReceiveMove(game, m) :
              IF end.raised THEN Fails(end.g, Projected(game)) ELSE Ends(end.g)

(* An action left over from a frame that raised: the game takes no move.        *)
ChooseStale ==
  /\ place = "block" /\ game.phase # "ready" /\ actions # {}
  /\ Ends(game)

Next == Arrive \/ Choose \/ ChooseStale
Spec == Init /\ [][Next]_vars

-------------------------------------------------------------------------------
Phases == {"pending", "ready", "resolving", "terminal"}
Results == {"in_process", "win", "lose", "draw"}

(* The shape of a game and its place.                                           *)
TypeOK ==
  /\ game.c \in Configs /\ game.phase \in Phases /\ game.result \in Results
  /\ game.round \in Nat /\ game.history.count \in Nat
  /\ place \in {"block", "outside"} /\ keeps \in BOOLEAN

Waiting == game.phase = "ready" /\ place = "block"

(* A game that waits for a move offers one, and what it offers is what the      *)
(* rules allow in this very state: no dead end, no action left from before a    *)
(* move. It has recorded every round it counts.                                 *)
ReadyOffers ==
  Waiting /\ ~keeps =>
    /\ actions # {} /\ actions = Provisioned(game)
    /\ game.history.count = game.round /\ game.result = "in_process"

(* A decided game is decided for a reason that its final state shows, and a     *)
(* game that goes on is open.                                                   *)

\* In attrition a side is out when it has no unit of any weight left.
Armed(c, units) == {t \in Present(c, units) : c.weight[t] > 0}
OutOfForce(g) ==
  LET mine == Armed(g.c, g.s.player)
      theirs == Armed(g.c, g.s.opponent)
  IN /\ g.result = "in_process" <=> mine # {} /\ theirs # {}
     /\ g.result = "win" => theirs = {}
     /\ g.result = "lose" => mine = {}
     /\ g.result = "draw" => mine = {} /\ theirs = {} /\ g.score.player = g.score.opponent

\* In the corridor somebody is bust, or trapped behind the other.
Trapped(g) ==
  LET me == g.s.player
      you == g.s.opponent
  IN /\ g.result = "win" => you >= g.c.target \/ me < you
     /\ g.result = "lose" => me >= g.c.target \/ you < me
     /\ g.result = "in_process" => me < g.c.target /\ you < g.c.target
     /\ g.result # "draw"

\* At blackjack hands count at their best, with aces as they help.
BestTotal(hand) ==
  LET aces == Cardinality({card \in hand : card[1] = 1})
      hard == SumFunction([card \in hand |-> Min({card[1], 10})])
      values == {hard + 10 * k : k \in 0..aces}
  IN IF \E v \in values : v <= 21 THEN Max({v \in values : v <= 21}) ELSE hard
BetterHand(g) ==
  LET mine == BestTotal(g.s.player)
      theirs == BestTotal(g.s.dealer)
  IN /\ g.result = "win" <=> g.s.stood /\ (theirs > 21 \/ mine > theirs)
     /\ g.result = "lose" <=> mine > 21 \/ (g.s.stood /\ theirs <= 21 /\ mine < theirs)
     /\ g.result = "draw" <=> g.s.stood /\ mine = theirs
     /\ g.s.stood => mine <= 21 /\ theirs >= g.c.standAt

\* In the best of n rounds nobody has a majority while it goes on.
Majority(g) ==
  LET won == g.history.win
      lost == g.history.lose
  IN /\ g.result = "in_process" => 2 * won <= g.c.n /\ 2 * lost <= g.c.n
     /\ g.result = "win" => won > lost
     /\ g.result = "lose" => lost > won
     /\ g.result = "draw" => won = lost

ForReason(g) ==
  /\ g.c.kind = "nim" => (g.result = "in_process" <=> g.s.heap > 0)
  /\ g.c.kind \in {"bag", "siege"} /\ g.history.count > 0 => OutOfForce(g)
  /\ g.c.kind = "corridor" /\ g.history.count > 0 => Trapped(g)
  /\ g.c.kind = "blackjack" => BetterHand(g)
  /\ g.c.kind \in {"trivial", "throws", "phrases"} /\ g.c.scoring = "best_of_n" => Majority(g)

DecidedForReason == game.phase \in {"ready", "terminal"} => ForReason(game)

(* A checkpoint judges a candidate and a shift fairly ...                       *)
JudgedFairly ==
  game.c.kind = "credentials" /\ game.phase \in {"ready", "terminal"} => FairlyJudged(game)

(* ... and on the way there handles every candidate fairly, move by move.       *)
HandledFairly ==
  [][(game.c.kind = "credentials" /\ game.s # NoState /\ game'.s # NoState) => Handled(game, game')]_vars

(* A game is decided rightly: for a reason, and at a checkpoint fairly.         *)
DecidedRightly == []DecidedForReason /\ []JudgedFairly /\ HandledFairly

(* What is scarce is neither lost nor overdrawn.  The workers of a shell are    *)
(* those it began with and those its buildings brought, less those promoted     *)
(* away; every card is in one place; the clues of a tray that were inspected    *)
(* are those that were paid for; what a side has scored in attrition is what    *)
(* the other has lost since the opening, reserves included.                     *)
NothingOverdrawn ==
  /\ game.c.kind = "incremental" /\ game.s # NoState =>
       /\ \A x \in DOMAIN game.s.goods : game.s.goods[x] >= 0
       /\ game.s.idle >= 0
       /\ game.s.idle + SumFunction(game.s.assigned)
            = game.c.workers + game.c.perWork * SumFunction(game.s.works) - game.c.perElite * game.s.goods["elite"]
  /\ game.c.kind = "blackjack" /\ game.s # NoState =>
       /\ game.s.deck \cup game.s.player \cup game.s.dealer = game.c.cards
       /\ Cardinality(game.s.deck) + Cardinality(game.s.player) + Cardinality(game.s.dealer) = Cardinality(game.c.cards)
  /\ game.c.kind = "kim" /\ game.s # NoState =>
       /\ game.s.cues >= 0 /\ game.s.cues + Cardinality(game.s.inspected) = game.c.budget
       /\ game.result # "in_process" <=> game.s.decision # NoMove
  /\ game.c.kind \in {"bag", "siege"} /\ game.s # NoState =>
       /\ game.score.player = TotalForce(game.c, game.c.opponentReserve) - TotalForce(game.c, game.s.opponent)
       /\ game.score.opponent = TotalForce(game.c, game.c.player) - TotalForce(game.c, game.s.player)
       /\ \A t \in Types(game.c) : game.s.player[t] >= 0 /\ game.s.opponent[t] >= 0
  /\ game.c.kind = "credentials" /\ game.s # NoState => IdKept(game)

(* A simulation keeps its books, also between two of its events and after one   *)
(* that raised; stepping through the events ends where running them all at once *)
(* does, and there everybody is discharged.                                     *)
Simulating == game.c.kind = "queue" /\ game.s # NoState /\ ValidNet(game.c)
QueueSound ==
  Simulating => /\ OnePlaceEach(game.c, game.s)
                /\ NoneIdle(game.c, game.s)
                /\ BooksBalance(game.c, game.s)
                /\ LET c == game.c
                       end == RunAll(c, game.s, c.limit)
                   IN /\ end.calendar = {} => ToSet(end.completed) = Patients(c)
                      /\ c.limit >= Len(c.patients) * (1 + Cardinality(Stations(c)))
                           => [end EXCEPT !.metrics = FALSE] = RunAll(c, OpenQueue(c), c.limit)

(* The games that are bound to end: every take is one, every clash of two       *)
(* commitments costs somebody a unit, a draw of throws cannot be had when only  *)
(* points count. The corridor and the shell may be played for ever.             *)
Decisive(c) ==
  \A t, u \in Types(c) : c.weight[t] > 0 /\ (t = u \/ c.beaten[t] = u \/ c.beaten[u] = t)
NeverTied(c) == c.revision \in {"rps_counter", "rps_throw"} /\ \A t \in DOMAIN c.beats : t \notin c.beats[t]

BoundToEnd(c) ==
  CASE c.kind = "nim" -> c.min = 1
    [] c.kind \in {"bag", "siege"} -> Decisive(c)
    [] c.kind \in {"trivial", "throws", "phrases"} ->
         c.scoring \in {"best_of_n", "first_to_n", "highest_after_n"} =>
           c.n \in Nat \ {0} /\ (c.kind = "throws" /\ c.scoring = "first_to_n" => NeverTied(c))
    [] c.kind = "queue" -> c.patients # <<>>
    [] OTHER -> c.kind \in {"blackjack", "kim", "credentials"}

(* Such a game asks for no more moves than its configuration allows: tokens,    *)
(* units, cards, cues, requests and rounds all run out.                         *)
LongestContest(c) ==
  CASE c.scoring = "first_to_n" -> IF c.kind = "trivial" THEN c.n ELSE 2 * c.n - 1
    [] c.scoring \in {"best_of_n", "highest_after_n"} -> c.n
    [] OTHER -> 1

Longest(c) ==
  CASE c.kind = "nim" -> c.heap
    [] c.kind \in {"bag", "siege"} -> Units(c, c.player) + Units(c, c.opponentReserve)
    [] c.kind = "blackjack" -> Cardinality(c.cards) + 1
    [] c.kind = "kim" -> c.budget + 1
    [] c.kind = "queue" -> Len(c.patients) * (1 + Cardinality(Stations(c)))
    [] c.kind = "credentials" -> LongestShift(c)
    [] OTHER -> LongestContest(c)

EndsInTime == (Waiting /\ BoundToEnd(game.c) /\ ~keeps) => game.round < Longest(game.c)
===============================================================================
