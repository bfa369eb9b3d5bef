------------------------------ MODULE Checkpoint ------------------------------
(* The rules of the credentials game: a shift at a checkpoint, candidate after  *)
(* candidate. Documents are inspected, requests are made, a disposition is      *)
(* chosen; every move takes time. A candidate is a packet of Credentials with   *)
(* what is shown of it (docs, facts, clue), what it answers to a request for an *)
(* id (complies), and what overrules the rules: a mark or an authored verdict.  *)
EXTENDS Contests, Credentials

(* Fields put over those that are there.                                        *)
Over(new, old) == [x \in DOMAIN new \cup DOMAIN old |-> IF x \in DOMAIN new THEN new[x] ELSE old[x]]

(* render_case: what is shown follows from the packet and its defects.          *)
Rendered(rules, p, found) ==
  Over([docs |-> Documents(p), facts |-> Facts(rules, p, found), clue |-> Facts(rules, p, found) # {}], p)

Offered(rules, purpose, mode, goods, complies) ==
  Over([complies |-> complies, mark |-> "none", verdict |-> Nowhere],
       Rendered(rules, Degraded(ValidPacket(rules, purpose, goods), mode), NoFindings))

(* The state of one candidate, and the opening of the shift.                    *)
Arrived(p) ==
  [stage |-> IF p.docs = {} THEN "packet" ELSE "documents",
   inspected |-> {}, revealed |-> {}, reviewed |-> FALSE, found |-> NoFindings]

(* What a request is noted under, apart from papers. No purpose and no good has *)
(* such a name.                                                                 *)
RequestKeys == {"id", "search", "disclosure", "relinquish"}

(* A shift has candidates, each with a packet, and what it costs is in numbers. *)
RosterGiven(c) ==
  /\ c.roster # <<>> /\ DOMAIN c.roster = 1..Len(c.roster) /\ Len(c.roster) \in Nat
  /\ \A i \in DOMAIN c.roster :
       /\ {"id", "hidden", "papers", "open", "docs", "purpose", "concealed"} \subseteq DOMAIN c.roster[i]
       /\ IsFiniteSet(c.roster[i].docs) /\ IsFiniteSet(DOMAIN c.roster[i].papers) /\ IsFiniteSet(c.roster[i].open)
       /\ RequestKeys \cap (DOMAIN c.roster[i].papers \cup c.roster[i].open \cup c.roster[i].concealed
                            \cup {c.roster[i].purpose}) = {}
  /\ c.threshold \in Nat /\ c.tax \in Int /\ c.overtimeRate \in Int

ShiftOpening(c) ==
  Over(Arrived(c.roster[1]),
       [index |-> 1, cases |-> c.roster, time |-> 0, penalty |-> 0, taxed |-> 0, complete |-> FALSE])

Current(g) == g.s.cases[g.s.index]
Asked(g, key) == key \in DOMAIN g.s.found
Noted(s, key, finding) == [s EXCEPT !.found = Learned(@, key, finding)]

-------------------------------------------------------------------------------
Selector == <<"inspect", "a document">>
Inspections(g) == {<<"inspect", doc>> : doc \in Current(g).docs \ g.s.inspected}
Reviews(g) == IF g.s.stage = "packet" /\ Current(g).clue /\ ~g.s.reviewed THEN {<<"review", "packet">>} ELSE {}

Decisions(g) ==
  {<<"decide", d>> : d \in IF g.c.allowArrest THEN Dispositions ELSE Dispositions \ {"arrest"}}

LacksId(g) == NeedsId(PurposeLevel(g.c.rules, Current(g))) /\ Current(g).id = NoDoc
SomethingDeclared(g) ==
  Current(g).open # {} \/ (Disclosed(g.s.found) /\ Current(g).concealed # {})

(* What may be asked for shows nothing that is not on the table.                *)
Requests(g) ==
       {<<"request_document", what>> : what \in {x \in DOMAIN Current(g).papers : ~Asked(g, x)}}
  \cup (IF Current(g).id # NoDoc /\ ~Asked(g, "id") THEN {<<"verify_id", "id">>} ELSE {})
  \cup (IF LacksId(g) /\ ~Asked(g, "id") THEN {<<"request_id", "id">>} ELSE {})
  \cup {<<"request", key>> : key \in {k \in {"search", "disclosure"} : ~Asked(g, k)}}
  \cup (IF SomethingDeclared(g) /\ ~Asked(g, "relinquish") THEN {<<"request", "relinquish">>} ELSE {})

CheckpointMoves(g) ==
  Inspections(g) \cup Reviews(g) \cup IF g.s.stage = "documents" THEN {} ELSE Decisions(g) \cup Requests(g)

(* The inspections of documents are one action, which asks for the document.    *)
CheckpointActions(g) ==
  (CheckpointMoves(g) \ Inspections(g)) \cup IF Inspections(g) = {} THEN {} ELSE {Selector}
Selectable(g, action) ==
  IF action = Selector THEN {<<"inspect", doc>> : doc \in Current(g).docs} ELSE {action}

Cost(move) ==
  CASE move[1] = "decide" -> IF move[2] = "arrest" THEN 3 ELSE 1
    [] move[1] \in {"request_document", "verify_id"} -> 2
    [] move = <<"request", "search">> -> 3
    [] OTHER -> 1

-------------------------------------------------------------------------------
(* The answers to requests.                                                     *)
DocumentAsked(g, s, what) ==
  LET flaw == PaperFlaw(Current(g), what, g.s.found) IN
  Noted(s, what, CASE flaw \in Crimes -> "confirmed" [] flaw = "none" -> "verified" [] OTHER -> "cleared")

IdVerified(g, s) ==
  Noted(s, "id", IF <<"mismatch", "id">> \in Defects(g.c.rules, Current(g), g.s.found) THEN "confirmed" ELSE "verified")

(* A candidate that complies puts the hidden id on the table: what is shown of  *)
(* the packet is rendered anew.                                                 *)
IdRequested(g, s) ==
  LET p == Current(g)
      given == [p EXCEPT !.id = p.hidden, !.hidden = NoDoc]
      after == Noted(s, "id", "cleared")
  IN IF p.complies /\ p.hidden # NoDoc
     THEN [after EXCEPT !.cases[s.index] = Rendered(g.c.rules, given, after.found)]
     ELSE Noted(s, "id", "refused")

Searched(g, s) == Noted(s, "search", IF Current(g).concealed # {} THEN "confirmed" ELSE "cleared")

(* A disclosure after the search has found something comes too late.            *)
DisclosureAsked(g, s) ==
  Noted(s, "disclosure",
        IF Current(g).concealed # {} /\ Found(g.s.found, "search") = "confirmed" THEN "too_late" ELSE "declared")

Requested(g, s, move) ==
  CASE move[1] = "request_document" -> DocumentAsked(g, s, move[2])
    [] move[1] = "verify_id" -> IdVerified(g, s)
    [] move[1] = "request_id" -> IdRequested(g, s)
    [] move = <<"request", "search">> -> Searched(g, s)
    [] move = <<"request", "disclosure">> -> DisclosureAsked(g, s)
    [] OTHER -> Noted(s, "relinquish", "yielded")

Inspected(g, s, doc) ==
  [s EXCEPT !.inspected = @ \cup {doc}, !.stage = "packet",
            !.revealed = IF doc \in Current(g).facts THEN @ \cup {doc} ELSE @]

-------------------------------------------------------------------------------
(* What a decision costs.                                                       *)
Expected(g) ==
  LET p == Current(g) IN
  IF p.mark = "white" THEN "pass"
  ELSE IF p.mark = "black" THEN IF g.c.allowArrest THEN "arrest" ELSE "deny"
  ELSE IF p.verdict # Nowhere THEN p.verdict ELSE Disposition(g.c.rules, p, g.s.found)

\* A mutant: an arrest that was called for costs as much as one that was not.
PenaltyHasty(expected, chosen) ==
  IF chosen = "arrest" \/ (expected = "arrest" /\ chosen = "pass") THEN 5 ELSE IF chosen = expected THEN 0 ELSE 2

Penalty(expected, chosen) ==
  IF chosen = expected THEN 0
  ELSE IF chosen = "arrest" \/ (expected = "arrest" /\ chosen = "pass") THEN 5 ELSE 2

(* Evidence was surfaced, or the grounds can be seen by everybody.              *)
Surfaced(g) ==
  LET adverse(key) == /\ g.s.found[key] \in {"confirmed", "cleared", "yielded", "refused"}
                      /\ ~(key = "search" /\ g.s.found[key] = "cleared")
  IN \/ g.s.revealed # {} \/ g.s.reviewed
     \/ \E key \in DOMAIN g.s.found : adverse(key)
     \/ /\ Found(g.s.found, "disclosure") \in {"declared", "too_late"}
        /\ Current(g).open \cup Current(g).concealed # {}

VisibleGrounds(g) ==
  LET p == Current(g)
      level == PurposeLevel(g.c.rules, p)
  IN \/ level \in {"criminal", "forbidden"}
     \/ NeedsId(level) /\ p.id = NoDoc
     \/ NeedsPermit(level) /\ Paper(p, p.purpose) = NoDoc
     \/ \E what \in p.open :
          \/ GoodsLevel(g.c.rules, what) \in {"criminal", "forbidden"}
          \/ NeedsPermit(GoodsLevel(g.c.rules, what)) /\ Paper(p, what) = NoDoc

Taxed(g, chosen) ==
  IF chosen = Expected(g) /\ chosen # "pass" /\ ~Surfaced(g) /\ ~VisibleGrounds(g) THEN g.c.tax ELSE 0

(* A mutant: what was learned of one candidate is kept for the next.            *)
AdvancedUnwashed(s) ==
  IF s.index = Len(s.cases) THEN [s EXCEPT !.complete = TRUE] ELSE [s EXCEPT !.index = @ + 1]

(* advance_case: the next candidate with a clean slate, or the end of the shift.*)
Advanced(s) ==
  IF s.index = Len(s.cases)
  THEN Over([Arrived(s.cases[s.index]) EXCEPT !.stage = "packet"], [s EXCEPT !.complete = TRUE])
  ELSE Over(Arrived(s.cases[s.index + 1]), [s EXCEPT !.index = @ + 1])

Decided(g, s, chosen) ==
  Advanced([s EXCEPT !.penalty = @ + Penalty(Expected(g), chosen) + Taxed(g, chosen), !.taxed = @ + Taxed(g, chosen)])

CheckpointRound(g, move) ==
  LET s == [g.s EXCEPT !.time = @ + Cost(move)]
      on(state) == Outcome(g, state, 0, 0, "continue")
  IN CASE move[1] = "inspect" -> on(Inspected(g, s, move[2]))
       [] move[1] = "review" -> on([s EXCEPT !.reviewed = TRUE])
       [] move[1] = "decide" /\ move[2] = Expected(g) -> Outcome(g, Decided(g, s, move[2]), 1, 0, "win")
       [] move[1] = "decide" /\ move[2] # Expected(g) -> Outcome(g, Decided(g, s, move[2]), 0, 1, "lose")
       [] OTHER -> on(Requested(g, s, move))

(* The shift is judged when the last candidate is decided.                      *)
ShiftResult(g) ==
  LET overtime == IF g.s.time > g.c.time THEN g.s.time - g.c.time ELSE 0 IN
  IF ~g.s.complete THEN "in_process"
  ELSE IF g.s.penalty + overtime * g.c.overtimeRate <= g.c.threshold THEN "win" ELSE "lose"

-------------------------------------------------------------------------------
(* A request makes a candidate no worse off, unless it puts an id on the table; *)
(* once a search has found something, nothing concealed counts as declared; and *)
(* the next candidate is judged by its own packet.                              *)
OnArrival(g) == g.c.roster[g.s.index]
Verdict(g) == Disposition(g.c.rules, Current(g), g.s.found)

Handled(g, h) ==
  /\ (g.s.index = h.s.index /\ ~h.s.complete) =>
       /\ Current(h).id = Current(g).id => Severity(Verdict(h)) <= Severity(Verdict(g))
       /\ Found(g.s.found, "search") = "confirmed" /\ ~Disclosed(g.s.found) => ~Disclosed(h.s.found)
  /\ g.s.index # h.s.index =>
       Verdict(h) = Disposition(g.c.rules, OnArrival(h), NoFindings) /\ ~Surfaced(h)

(* What is criminal by itself is never talked away: a purpose, goods, a forgery *)
(* on the table, an id of somebody else's that the rules ask for. Nobody who    *)
(* was to be arrested is so no longer, but for having declared goods, given them*)
(* up, or mended what would have let them be carried openly; in which case they *)
(* are still held against him.                                                  *)
Damning(rules, p) ==
  \/ PurposeLevel(rules, p) = "criminal"
  \/ \E what \in p.open \cup p.concealed : GoodsLevel(rules, what) = "criminal"
  \/ p.id.status = "forged" \/ \E what \in DOMAIN p.papers : p.papers[what].status = "forged"
  \/ NeedsId(PurposeLevel(rules, p)) /\ p.id.holder \notin {"bearer", Nowhere}

Guilt(g) ==
  /\ Damning(g.c.rules, Current(g)) => Verdict(g) = "arrest"
  /\ Disposition(g.c.rules, OnArrival(g), NoFindings) = "arrest" /\ Verdict(g) # "arrest"
       => \/ Disclosed(g.s.found) \/ Yielded(g.s.found)
          \/ Verdict(g) = "deny" /\ Current(g).concealed # {}

(* Once nothing is left to look at or to ask for, a rejection that the rules    *)
(* call for can be justified, so that thorough work is never taxed; and nothing *)
(* can be held against somebody who carries nothing and has all papers in order.*)
(* Both are promised of candidates who show what render_case makes of them.     *)
Candid(rules, p) ==
  p.docs = Documents(p) /\ p.facts = Facts(rules, p, NoFindings) /\ p.clue = (p.facts # {})

Grounded(g) ==
  LET p == Current(g)
      inOrder == /\ p.open \cup p.concealed = {} /\ p.id \in {Valid("bearer"), NoDoc}
                 /\ \A what \in DOMAIN p.papers : p.papers[what] = Valid("bearer")
  IN /\ (/\ p.mark = "none" /\ p.verdict = Nowhere /\ CheckpointMoves(g) = Decisions(g) /\ Expected(g) # "pass")
          => Surfaced(g) \/ VisibleGrounds(g)
     /\ inOrder /\ Disposition(g.c.rules, OnArrival(g), NoFindings) = "pass"
          => ~Surfaced(g) /\ ~VisibleGrounds(g)

(* A shift without a wrong call is lost only to overtime or to the tax.         *)
Flawless(g) ==
  g.result = "lose" /\ g.score.opponent = 0 => g.s.time > g.c.time \/ g.s.taxed > 0

FairlyJudged(g) ==
  /\ g.s.complete \/ (Guilt(g) /\ (Candid(g.c.rules, OnArrival(g)) => Grounded(g)))
  /\ Flawless(g)

(* The id of a candidate changes slots, and is neither lost nor copied.         *)
IdKept(g) ==
  \A i \in 1..Len(g.s.cases) :
    LET now == g.s.cases[i]
        was == g.c.roster[i]
    IN {now.id, now.hidden} = {was.id, was.hidden} /\ (now.id = was.id \/ was.id = NoDoc)

(* Every document is inspected once, every request made once.                   *)
LongestCase(p) ==
  Cardinality(p.docs \cup Documents(p)) + (IF p.hidden = NoDoc THEN 0 ELSE 1) + Cardinality(DOMAIN p.papers) + 6
LongestShift(c) == SumFunction([i \in DOMAIN c.roster |-> LongestCase(c.roster[i])])
===============================================================================
