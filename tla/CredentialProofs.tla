--------------------------- MODULE CredentialProofs ---------------------------
(* How packets are judged, for all rules, packets and findings, and what a shift  *)
(* at the checkpoint keeps, candidate after candidate.                          *)
EXTENDS Checkpoint, FiniteSetTheorems, SequenceTheorems, TLAPS

(* Later findings ease earlier ones: what was mended, disclosed or given up     *)
(* stays so. What a search says is no help to anybody; it is kept under a key   *)
(* that is no purpose and no good of the packet.                                *)
Helping == {"cleared", "declared", "yielded"}
Eases(found, later) ==
  \A key : key # "search" /\ Found(found, key) \in Helping => Found(later, key) = Found(found, key)
Named(p) == "search" \notin p.open \cup p.concealed \cup {p.purpose}

-------------------------------------------------------------------------------
(* A flaw that is mended goes away, and no other appears.                       *)
LEMMA FlawEases ==
  ASSUME NEW doc, NEW expected, NEW before, NEW after, before => after
  PROVE  Flaw(doc, expected, after) \in {"none", Flaw(doc, expected, before)}
BY DEF Flaw

LEMMA MendedStays ==
  ASSUME NEW found, NEW later, Eases(found, later), NEW key, key # "search"
  PROVE  /\ Found(found, key) = "cleared" => Found(later, key) = "cleared"
         /\ Found(found, key) = "declared" => Found(later, key) = "declared"
         /\ Found(found, key) = "yielded" => Found(later, key) = "yielded"
BY DEF Eases, Helping

LEMMA UnmetEases ==
  ASSUME NEW found, NEW later, Eases(found, later), NEW level, NEW p, NEW what, what # "search"
  PROVE  Unmet(level, p, what, later) \subseteq Unmet(level, p, what, found)
<1>1. PaperFlaw(p, what, later) \in {"none", PaperFlaw(p, what, found)}
  <2>1. Found(found, what) = "cleared" => Found(later, what) = "cleared"
    BY MendedStays
  <2> QED BY <2>1, FlawEases DEF PaperFlaw
<1>2. IdFlaw(p, later) \in {"none", IdFlaw(p, found)}
  <2>1. Found(found, "id") = "cleared" => Found(later, "id") = "cleared"
    BY MendedStays
  <2> QED BY <2>1, FlawEases DEF IdFlaw
<1> QED BY <1>1, <1>2 DEF Unmet

(* What a set of defects weighs: nothing, or a crime, or something less.        *)
Criminal(defects) == \E d \in defects : d[1] \in Crimes
Lighter(after, before) == (Criminal(after) => Criminal(before)) /\ (after # {} => before # {})

LEMMA PurposeEases ==
  ASSUME NEW found, NEW later, Eases(found, later), NEW rules, NEW p, Named(p)
  PROVE  Lighter(PurposeDefects(rules, p, later), PurposeDefects(rules, p, found))
<1>1. PurposeDefects(rules, p, later) \subseteq PurposeDefects(rules, p, found)
  BY UnmetEases DEF PurposeDefects, Named
<1> QED BY <1>1 DEF Lighter, Criminal

LEMMA DeclaredEases ==
  ASSUME NEW found, NEW later, Eases(found, later), NEW rules, NEW p, NEW what, what # "search"
  PROVE  DeclaredDefects(rules, p, what, later) \subseteq DeclaredDefects(rules, p, what, found)
<1>1. Yielded(found) => Yielded(later)
  BY MendedStays DEF Yielded
<1> QED BY <1>1, UnmetEases DEF DeclaredDefects

(* To declare what was concealed is never worse than to go on concealing it.    *)
LEMMA DisclosureEases ==
  ASSUME NEW rules, NEW p, NEW what, NEW found
  PROVE  Lighter(DeclaredDefects(rules, p, what, found), ConcealedDefects(rules, p, what, found))
<1> DEFINE level == GoodsLevel(rules, what)
           unmet == Unmet(level, p, what, found)
<1>1. CASE level = "criminal"
  BY <1>1 DEF DeclaredDefects, ConcealedDefects, Lighter, Criminal
<1>2. CASE level = "forbidden"
  BY <1>2 DEF DeclaredDefects, ConcealedDefects, Lighter, Criminal, Crimes
<1>3. CASE level \notin {"criminal", "forbidden"}
  <2>1. DeclaredDefects(rules, p, what, found) \subseteq unmet
    BY <1>3 DEF DeclaredDefects
  <2>2. ConcealedDefects(rules, p, what, found)
          = {d \in unmet : d[1] \in Crimes} \cup {<<IF unmet = {} THEN "undeclared" ELSE "smuggled", Nowhere>>}
    BY <1>3 DEF ConcealedDefects
  <2> QED BY <2>1, <2>2 DEF Lighter, Criminal
<1> QED BY <1>1, <1>2, <1>3

LEMMA ConcealedEases ==
  ASSUME NEW found, NEW later, Eases(found, later), NEW rules, NEW p, NEW what, what # "search"
  PROVE  Lighter(ConcealedDefects(rules, p, what, later), ConcealedDefects(rules, p, what, found))
<1> DEFINE level == GoodsLevel(rules, what)
           unmet(f) == Unmet(level, p, what, f)
<1>1. CASE level \in {"criminal", "forbidden"}
  BY <1>1 DEF ConcealedDefects, Lighter, Criminal
<1>2. CASE level \notin {"criminal", "forbidden"}
  <2>1. unmet(later) \subseteq unmet(found)
    BY UnmetEases
  <2>2. \A f : ConcealedDefects(rules, p, what, f)
          = {d \in unmet(f) : d[1] \in Crimes} \cup {<<IF unmet(f) = {} THEN "undeclared" ELSE "smuggled", Nowhere>>}
    BY <1>2 DEF ConcealedDefects
  <2>3. <<"undeclared", Nowhere>>[1] \notin Crimes /\ <<"smuggled", Nowhere>>[1] \in Crimes
    BY DEF Crimes
  <2>4. Criminal(ConcealedDefects(rules, p, what, later)) => unmet(later) # {}
    BY <2>2, <2>3 DEF Criminal
  <2>5. unmet(found) # {} => Criminal(ConcealedDefects(rules, p, what, found))
    BY <2>2, <2>3 DEF Criminal
  <2>6. ConcealedDefects(rules, p, what, found) # {}
    BY <2>2
  <2> QED BY <2>1, <2>4, <2>5, <2>6 DEF Lighter
<1> QED BY <1>1, <1>2

LEMMA HiddenEases ==
  ASSUME NEW found, NEW later, Eases(found, later), NEW rules, NEW p, NEW what, what # "search"
  PROVE  Lighter(HiddenDefects(rules, p, what, later), HiddenDefects(rules, p, what, found))
<1>1. Disclosed(found) => Disclosed(later)
  BY MendedStays DEF Disclosed
<1>2. CASE Disclosed(found)
  BY <1>1, <1>2, DeclaredEases DEF HiddenDefects, Lighter, Criminal
<1>3. CASE ~Disclosed(later)
  BY <1>1, <1>3, ConcealedEases DEF HiddenDefects
<1>4. CASE ~Disclosed(found) /\ Disclosed(later)
  <2>1. DeclaredDefects(rules, p, what, later) \subseteq DeclaredDefects(rules, p, what, found)
    BY DeclaredEases
  <2>2. Lighter(DeclaredDefects(rules, p, what, found), ConcealedDefects(rules, p, what, found))
    BY DisclosureEases
  <2> QED BY <1>4, <2>1, <2>2 DEF HiddenDefects, Lighter, Criminal
<1> QED BY <1>2, <1>3, <1>4

(* For every packet, rules and findings: to find out more, in the ways that a   *)
(* request may help, never makes the disposition of a candidate worse           *)
(* (derive_disposition under the findings of the mediation moves).              *)
THEOREM RequestsAreMercy ==
  ASSUME NEW found, NEW later, Eases(found, later), NEW rules, NEW p, Named(p)
  PROVE  Severity(Disposition(rules, p, later)) <= Severity(Disposition(rules, p, found))
<1> DEFINE open(f) == UNION {DeclaredDefects(rules, p, what, f) : what \in p.open}
           hidden(f) == UNION {HiddenDefects(rules, p, what, f) : what \in p.concealed}
<1>1. Lighter(PurposeDefects(rules, p, later), PurposeDefects(rules, p, found))
  BY PurposeEases
<1>2. Lighter(open(later), open(found))
  <2>1. \A what \in p.open : DeclaredDefects(rules, p, what, later) \subseteq DeclaredDefects(rules, p, what, found)
    BY DeclaredEases DEF Named
  <2>2. open(later) \subseteq open(found)
    BY <2>1
  <2> QED BY <2>2 DEF Lighter, Criminal
<1>3. Lighter(hidden(later), hidden(found))
  <2>1. \A what \in p.concealed : Lighter(HiddenDefects(rules, p, what, later), HiddenDefects(rules, p, what, found))
    BY HiddenEases DEF Named
  <2>2. \A f : \A d : d \in hidden(f) <=> \E what \in p.concealed : d \in HiddenDefects(rules, p, what, f)
    OBVIOUS
  <2>3. Criminal(hidden(later)) => Criminal(hidden(found))
    BY <2>1, <2>2 DEF Lighter, Criminal
  <2>4. hidden(later) # {} => hidden(found) # {}
    BY <2>1, <2>2 DEF Lighter
  <2> HIDE DEF hidden
  <2> QED BY <2>3, <2>4 DEF Lighter
<1>4. \A f : Defects(rules, p, f) = PurposeDefects(rules, p, f) \cup open(f) \cup hidden(f) \cup Forgeries(p)
  BY DEF Defects
<1> HIDE DEF open, hidden
<1>5. Lighter(Defects(rules, p, later), Defects(rules, p, found))
  BY <1>1, <1>2, <1>3, <1>4 DEF Lighter, Criminal
<1> QED BY <1>5 DEF Lighter, Criminal, Disposition, Severity

-------------------------------------------------------------------------------
(* A request whose answer is no help changes nothing: a search whatever it      *)
(* finds, a disclosure that comes too late, an id that is verified or refused,  *)
(* a document that is confirmed to be false.                                    *)
THEOREM SilentRequests ==
  ASSUME NEW rules, NEW p, Named(p), NEW found, NEW key, NEW answer,
         key = "search" \/ (answer \notin Helping /\ Found(found, key) \notin Helping)
  PROVE  Disposition(rules, p, Learned(found, key, answer)) = Disposition(rules, p, found)
<1> DEFINE later == Learned(found, key, answer)
<1>1. \A k : Found(later, k) = IF k = key THEN answer ELSE Found(found, k)
  BY DEF Learned, Found
<1> HIDE DEF later
<1>2. Eases(found, later) /\ Eases(later, found)
  BY <1>1 DEF Eases
<1>3. Severity(Disposition(rules, p, later)) <= Severity(Disposition(rules, p, found))
  BY <1>2, RequestsAreMercy
<1>4. Severity(Disposition(rules, p, found)) <= Severity(Disposition(rules, p, later))
  BY <1>2, RequestsAreMercy
<1>5. Disposition(rules, p, later) = Disposition(rules, p, found)
  BY <1>3, <1>4 DEF Disposition, Severity
<1> QED BY <1>5 DEF later

-------------------------------------------------------------------------------
(* What the requirements of a level weigh.                                      *)
LEMMA UnmetWeighs ==
  ASSUME NEW level, NEW p, NEW what, NEW found
  PROVE  /\ Criminal(Unmet(level, p, what, found)) <=>
              \/ NeedsPermit(level) /\ PaperFlaw(p, what, found) \in Crimes
              \/ NeedsId(level) /\ IdFlaw(p, found) \in Crimes
         /\ Unmet(level, p, what, found) # {} <=>
              \/ NeedsPermit(level) /\ PaperFlaw(p, what, found) # "none"
              \/ NeedsId(level) /\ IdFlaw(p, found) # "none"
<1>1. "none" \notin Crimes
  BY DEF Crimes
<1>2. \A kind, of : <<kind, of>>[1] = kind
  OBVIOUS
<1> QED BY <1>1, <1>2 DEF Unmet, Criminal

LEMMA PurposeWeighs ==
  ASSUME NEW rules, NEW p, NEW found, NEW level, level = PurposeLevel(rules, p)
  PROVE  /\ Criminal(PurposeDefects(rules, p, found)) <=>
              \/ level = "criminal"
              \/ NeedsPermit(level) /\ PaperFlaw(p, p.purpose, found) \in Crimes
              \/ NeedsId(level) /\ IdFlaw(p, found) \in Crimes
         /\ PurposeDefects(rules, p, found) # {} <=>
              \/ level \in {"criminal", "forbidden"}
              \/ NeedsPermit(level) /\ PaperFlaw(p, p.purpose, found) # "none"
              \/ NeedsId(level) /\ IdFlaw(p, found) # "none"
<1>1. CASE level \in {"criminal", "forbidden"}
  <2>1. ~NeedsPermit(level) /\ ~NeedsId(level)
    BY <1>1 DEF NeedsPermit, NeedsId
  <2>2. PurposeDefects(rules, p, found)
          = IF level = "criminal" THEN {<<"criminal", Nowhere>>} ELSE {<<"prohibited", Nowhere>>}
    BY <1>1 DEF PurposeDefects
  <2>3. \E kind : /\ PurposeDefects(rules, p, found) = {<<kind, Nowhere>>}
                  /\ kind \in Crimes <=> level = "criminal"
    BY <2>2 DEF Crimes
  <2>4. \A kind, of : Criminal({<<kind, of>>}) <=> kind \in Crimes
    BY DEF Criminal
  <2> QED BY <1>1, <2>1, <2>3, <2>4
<1>2. CASE level \notin {"criminal", "forbidden"}
  <2>1. PurposeDefects(rules, p, found) = Unmet(level, p, p.purpose, found)
    BY <1>2 DEF PurposeDefects
  <2> QED BY <1>2, <2>1, UnmetWeighs
<1> QED BY <1>1, <1>2

(* How a packet is judged whose purpose is level, which has no more than one    *)
(* good, and nothing found out about it.                                        *)
GoodsFaults(rules, p) ==
  (UNION {DeclaredDefects(rules, p, what, NoFindings) : what \in p.open})
  \cup (UNION {HiddenDefects(rules, p, what, NoFindings) : what \in p.concealed})

LEMMA PacketJudged ==
  ASSUME NEW rules, NEW p, NEW level, level = PurposeLevel(rules, p)
  PROVE  LET paper == PaperFlaw(p, p.purpose, NoFindings)
             id == IdFlaw(p, NoFindings)
             crime == \/ level = "criminal" \/ Forgeries(p) # {} \/ Criminal(GoodsFaults(rules, p))
                      \/ (NeedsPermit(level) /\ paper \in Crimes) \/ (NeedsId(level) /\ id \in Crimes)
             fault == \/ level = "forbidden" \/ GoodsFaults(rules, p) # {}
                      \/ (NeedsPermit(level) /\ paper # "none") \/ (NeedsId(level) /\ id # "none")
         IN Disposition(rules, p, NoFindings) = IF crime THEN "arrest" ELSE IF fault THEN "deny" ELSE "pass"
<1>1. Defects(rules, p, NoFindings) = PurposeDefects(rules, p, NoFindings) \cup GoodsFaults(rules, p) \cup Forgeries(p)
  BY DEF Defects, GoodsFaults
<1>2. Forgeries(p) # {} => Criminal(Forgeries(p))
  BY DEF Forgeries, Criminal, Crimes
<1>3. Criminal(Defects(rules, p, NoFindings)) <=>
        \/ Criminal(PurposeDefects(rules, p, NoFindings)) \/ Criminal(GoodsFaults(rules, p)) \/ Forgeries(p) # {}
  BY <1>1, <1>2 DEF Criminal
<1>4. Disposition(rules, p, NoFindings)
        = IF Criminal(Defects(rules, p, NoFindings)) THEN "arrest"
          ELSE IF Defects(rules, p, NoFindings) # {} THEN "deny" ELSE "pass"
  BY DEF Disposition, Criminal
<1> QED BY <1>1, <1>3, <1>4, PurposeWeighs

-------------------------------------------------------------------------------
(* The sampler's preflight and the packet that is built from an offer agree for *)
(* every single mode that applies to the purpose, whatever the rules are: no    *)
(* offer the sampler has verified raises when it is materialized.               *)
THEOREM PreflightAgrees ==
  ASSUME NEW rules, NEW purpose, NEW mode \in Applicable(rules, purpose) \cup {"none"}
  PROVE  Disposition(rules, Degraded(ValidPacket(rules, purpose, {}), mode), NoFindings)
           = Preflight(rules, purpose, mode)
<1> DEFINE level == LevelFor(rules, purpose, "anonymous")
           good == GoodsLevel(rules, "weapon")
           valid == ValidPacket(rules, purpose, {})
           p == Degraded(valid, mode)
           paper == PaperFlaw(p, purpose, NoFindings)
           id == IdFlaw(p, NoFindings)
<1> SUFFICES Disposition(rules, p, NoFindings) = Preflight(rules, purpose, mode)
  OBVIOUS
<1>1. /\ valid.purpose = purpose /\ valid.open = {} /\ valid.concealed = {}
      /\ valid.id = IF NeedsId(level) THEN Valid("bearer") ELSE NoDoc
      /\ DOMAIN valid.papers = IF NeedsPermit(level) THEN {purpose} ELSE {}
      /\ \A what \in DOMAIN valid.papers : valid.papers[what] = Valid("bearer")
  BY DEF ValidPacket
<1>2. \A key : Found(NoFindings, key) = Nowhere
  BY DEF Found, NoFindings
<1>3. NeedsPermit(level) => NeedsId(level)
  BY DEF NeedsPermit, NeedsId
<1> HIDE DEF valid
<1>4. /\ p.purpose = purpose /\ PurposeLevel(rules, p) = level
      /\ p.id = SpoiledId(valid, mode)
      /\ p.open = IF mode = "unpermitted_goods" THEN {"weapon"} ELSE {}
      /\ p.concealed = IF mode = "concealed_goods" THEN {"weapon"} ELSE {}
      /\ DOMAIN p.papers = DOMAIN valid.papers \ (IF mode = "missing_permit" THEN {purpose} ELSE {})
      /\ \A what \in DOMAIN p.papers : p.papers[what] = SpoiledPaper(valid, mode, what)
  BY <1>1 DEF Degraded, PurposeLevel
<1> HIDE DEF p
(* The two documents, their flaws, and forgeries, for every mode.               *)
<1>5. NeedsId(level) =>
        id = IF mode = "missing_id" THEN "missing" ELSE IF mode = "expired_id" THEN "invalid"
             ELSE IF mode = "fake_id" THEN "mismatch" ELSE "none"
  <2> SUFFICES ASSUME NeedsId(level)
               PROVE  id = IF mode = "missing_id" THEN "missing" ELSE IF mode = "expired_id" THEN "invalid"
                           ELSE IF mode = "fake_id" THEN "mismatch" ELSE "none"
    OBVIOUS
  <2>1. valid.id.status = "valid" /\ valid.id.holder = "bearer" /\ valid.id # NoDoc
    BY <1>1 DEF Valid, NoDoc
  <2>2. CASE mode = "missing_id"
    BY <1>4, <2>2 DEF IdFlaw, Flaw, SpoiledId
  <2>3. CASE mode # "missing_id"
    <3>1. /\ p.id.status = IF mode = "expired_id" THEN "stale" ELSE "valid"
          /\ p.id.holder = IF mode = "fake_id" THEN "other" ELSE "bearer"
      BY <1>4, <2>1, <2>3 DEF SpoiledId
    <3>2. p.id # NoDoc
      BY <3>1 DEF NoDoc
    <3> QED BY <1>2, <2>3, <3>1, <3>2 DEF IdFlaw, Flaw, Nowhere
  <2> QED BY <2>2, <2>3
<1>6. NeedsPermit(level) =>
        paper = IF mode = "missing_permit" THEN "missing" ELSE IF mode = "unsealed_permit" THEN "invalid"
                ELSE IF mode = "forged_permit" THEN "forged"
                ELSE IF mode = "wrong_holder_permit" THEN "mismatch" ELSE "none"
  <2> SUFFICES ASSUME NeedsPermit(level)
               PROVE  paper = IF mode = "missing_permit" THEN "missing"
                              ELSE IF mode = "unsealed_permit" THEN "invalid"
                              ELSE IF mode = "forged_permit" THEN "forged"
                              ELSE IF mode = "wrong_holder_permit" THEN "mismatch" ELSE "none"
    OBVIOUS
  <2>1. valid.id.holder = "bearer" /\ valid.id # NoDoc
    BY <1>1, <1>3 DEF Valid, NoDoc
  <2>2. purpose \in DOMAIN valid.papers
        /\ valid.papers[purpose].status = "valid" /\ valid.papers[purpose].holder = "bearer"
    BY <1>1 DEF Valid
  <2>3. CASE mode = "missing_permit"
    BY <1>4, <2>3 DEF PaperFlaw, Paper, Flaw
  <2>4. CASE mode # "missing_permit"
    <3>1. Paper(p, purpose) = SpoiledPaper(valid, mode, purpose)
      BY <1>4, <2>2, <2>4 DEF Paper
    <3>2. /\ Paper(p, purpose).status = IF mode = "unsealed_permit" THEN "stale"
                                        ELSE IF mode = "forged_permit" THEN "forged" ELSE "valid"
          /\ Paper(p, purpose).holder = IF mode \in {"wrong_holder_permit", "fake_id"} THEN "other" ELSE "bearer"
      BY <1>1, <2>1, <2>2, <3>1 DEF SpoiledPaper
    <3>3. Paper(p, purpose) # NoDoc
      BY <3>2 DEF NoDoc
    <3>4. p.id.holder = IF mode = "missing_id" THEN Nowhere ELSE IF mode = "fake_id" THEN "other" ELSE "bearer"
      BY <1>4, <2>1 DEF SpoiledId, NoDoc, Nowhere
    <3> QED BY <1>2, <2>4, <3>2, <3>3, <3>4 DEF PaperFlaw, Flaw, Nowhere
  <2> QED BY <2>3, <2>4
<1>7. Forgeries(p) # {} <=> mode = "forged_permit" /\ NeedsPermit(level)
  <2>1. valid.id.status # "forged"
    BY <1>1 DEF Valid, NoDoc
  <2>2. p.id.status # "forged"
    BY <1>4, <2>1 DEF SpoiledId, NoDoc
  <2>3. Forgeries(p) # {} <=> \E what \in DOMAIN p.papers : p.papers[what].status = "forged"
    BY <2>2 DEF Forgeries
  <2>4. \A what \in DOMAIN p.papers : what = purpose /\ NeedsPermit(level) /\ valid.papers[what].status = "valid"
    BY <1>1, <1>4 DEF Valid
  <2>5. \A what \in DOMAIN p.papers : p.papers[what].status = "forged" <=> mode = "forged_permit"
    <3> TAKE what \in DOMAIN p.papers
    <3>1. /\ what = valid.purpose /\ valid.papers[what].status = "valid"
          /\ p.papers[what] = SpoiledPaper(valid, mode, what)
      BY <1>1, <1>4, <2>4
    <3>2. p.papers[what].status = IF mode = "unsealed_permit" THEN "stale"
                                  ELSE IF mode = "forged_permit" THEN "forged" ELSE "valid"
      BY <3>1 DEF SpoiledPaper
    <3> QED BY <3>2
  <2>6. mode = "forged_permit" /\ NeedsPermit(level) => purpose \in DOMAIN p.papers
    BY <1>1, <1>4
  <2> QED BY <2>3, <2>4, <2>5, <2>6
<1> DEFINE crime == \/ level = "criminal" \/ Forgeries(p) # {} \/ Criminal(GoodsFaults(rules, p))
                    \/ (NeedsPermit(level) /\ paper \in Crimes) \/ (NeedsId(level) /\ id \in Crimes)
           fault == \/ level = "forbidden" \/ GoodsFaults(rules, p) # {}
                    \/ (NeedsPermit(level) /\ paper # "none") \/ (NeedsId(level) /\ id # "none")
<1>8. Disposition(rules, p, NoFindings) = IF crime THEN "arrest" ELSE IF fault THEN "deny" ELSE "pass"
  BY <1>4, PacketJudged
<1>9. level \in {"criminal", "forbidden"} => ~NeedsPermit(level) /\ ~NeedsId(level)
  BY DEF NeedsPermit, NeedsId
<1>10. CASE mode \notin GoodsModes
  <2>1. GoodsFaults(rules, p) = {} /\ ~Criminal(GoodsFaults(rules, p))
    BY <1>4, <1>10 DEF GoodsFaults, GoodsModes, Criminal
  <2>2. mode \in PermitModes => NeedsPermit(level)
    BY <1>3, <1>10 DEF Applicable, PermitModes, IdModes, GoodsModes
  <2>3. mode \in IdModes => NeedsId(level)
    BY <1>3, <1>10 DEF Applicable, PermitModes, IdModes, GoodsModes
  <2>4. Preflight(rules, purpose, mode)
          = IF level = "criminal" \/ mode \in CrimeModes THEN "arrest"
            ELSE IF level = "forbidden" \/ mode \in PermitModes \cup IdModes THEN "deny" ELSE "pass"
    BY <1>9, <1>10, <2>2, <2>3 DEF Preflight, Worse, Severity, CrimeModes, PermitModes, IdModes, GoodsModes
  <2>5. mode \in {"none"} \cup PermitModes \cup IdModes
    BY <1>10 DEF Applicable
  <2> HIDE DEF level, p, paper, id
  <2>6. crime <=> level = "criminal" \/ mode \in CrimeModes
    BY <1>3, <1>5, <1>6, <1>7, <2>1, <2>2, <2>3, <2>5 DEF Crimes, CrimeModes, PermitModes, IdModes
  <2>7. fault \/ crime <=> level \in {"criminal", "forbidden"} \/ mode \in PermitModes \cup IdModes
    BY <1>3, <1>5, <1>6, <1>7, <2>1, <2>2, <2>3, <2>5 DEF Crimes, PermitModes, IdModes
  <2> QED BY <1>8, <2>4, <2>6, <2>7 DEF CrimeModes, PermitModes, IdModes, GoodsModes
<1>11. CASE mode \in GoodsModes
  <2> DEFINE unmet == Unmet(good, p, "weapon", NoFindings)
             credentialed == /\ NeedsId(good) => NeedsId(level)
                             /\ NeedsPermit(good) => purpose = "weapon" /\ NeedsPermit(level)
  <2>1. Forgeries(p) = {} /\ (NeedsId(level) => id = "none") /\ (NeedsPermit(level) => paper = "none")
    BY <1>5, <1>6, <1>7, <1>11 DEF GoodsModes
  <2>2. id = IF NeedsId(level) THEN "none" ELSE "missing"
    BY <1>1, <1>4, <2>1 DEF id, level, IdFlaw, Flaw, SpoiledId
  <2>3. PaperFlaw(p, "weapon", NoFindings)
          = IF purpose = "weapon" /\ NeedsPermit(level) THEN "none" ELSE "missing"
    BY <1>1, <1>4, <2>1 DEF paper, level, PaperFlaw, Paper, Flaw
  <2>4. (unmet # {} <=> ~credentialed) /\ ~Criminal(unmet)
    BY <2>2, <2>3, UnmetWeighs DEF id, Crimes
  <2>5. ~Disclosed(NoFindings) /\ ~Yielded(NoFindings)
    BY <1>2 DEF Disclosed, Yielded, Nowhere
  <2>6. Preflight(rules, purpose, mode)
          = Worse(IF level = "criminal" THEN "arrest" ELSE IF level = "forbidden" THEN "deny" ELSE "pass",
                  GoodsPreflight(rules, purpose, mode))
    BY <1>11 DEF Preflight, level
  <2>7. GoodsPreflight(rules, purpose, mode)
          = IF good = "criminal" THEN "arrest"
            ELSE IF good = "forbidden" THEN IF mode = "concealed_goods" THEN "arrest" ELSE "deny"
            ELSE IF mode = "concealed_goods" THEN IF credentialed THEN "deny" ELSE "arrest"
            ELSE IF credentialed THEN "pass" ELSE "deny"
    BY DEF GoodsPreflight, good, level
  <2> HIDE DEF credentialed
  <2>8. CASE mode = "unpermitted_goods"
    <3>1. GoodsFaults(rules, p) = DeclaredDefects(rules, p, "weapon", NoFindings)
      BY <1>4, <2>8 DEF GoodsFaults
    <3>2. CASE good \in {"criminal", "forbidden"}
      <4>1. GoodsFaults(rules, p) = {<<IF good = "criminal" THEN "criminal" ELSE "unauthorized", Nowhere>>}
        BY <2>5, <3>1, <3>2 DEF DeclaredDefects, good
      <4>2. GoodsFaults(rules, p) # {} /\ (Criminal(GoodsFaults(rules, p)) <=> good = "criminal")
        BY <3>2, <4>1 DEF Criminal, Crimes
      <4> QED BY <1>8, <2>1, <2>6, <2>7, <2>8, <3>2, <4>2 DEF Worse, Severity, Crimes
    <3>3. CASE good \notin {"criminal", "forbidden"}
      <4>1. GoodsFaults(rules, p) = unmet
        BY <2>5, <3>1, <3>3 DEF DeclaredDefects, good
      <4> QED BY <1>8, <2>1, <2>4, <2>6, <2>7, <2>8, <3>3, <4>1 DEF Worse, Severity, Crimes
    <3> QED BY <3>2, <3>3
  <2>9. CASE mode = "concealed_goods"
    <3>1. GoodsFaults(rules, p) = ConcealedDefects(rules, p, "weapon", NoFindings)
      BY <1>4, <2>5, <2>9 DEF GoodsFaults, HiddenDefects
    <3>2. CASE good \in {"criminal", "forbidden"}
      <4>1. GoodsFaults(rules, p) = {<<IF good = "criminal" THEN "criminal" ELSE "smuggled", Nowhere>>}
        BY <3>1, <3>2 DEF ConcealedDefects, good
      <4>2. Criminal(GoodsFaults(rules, p))
        BY <4>1 DEF Criminal, Crimes
      <4> QED BY <1>8, <2>6, <2>7, <2>9, <3>2, <4>2 DEF Worse, Severity
    <3>3. CASE good \notin {"criminal", "forbidden"}
      <4>1. GoodsFaults(rules, p) = {d \in unmet : d[1] \in Crimes}
                              \cup {<<IF unmet = {} THEN "undeclared" ELSE "smuggled", Nowhere>>}
        BY <3>1, <3>3 DEF ConcealedDefects, good
      <4>2. GoodsFaults(rules, p) = {<<IF unmet = {} THEN "undeclared" ELSE "smuggled", Nowhere>>}
        BY <2>4, <4>1 DEF Criminal
      <4>3. GoodsFaults(rules, p) # {} /\ (Criminal(GoodsFaults(rules, p)) <=> ~credentialed)
        BY <2>4, <4>2 DEF Criminal, Crimes
      <4> QED BY <1>8, <2>1, <2>6, <2>7, <2>9, <3>3, <4>3 DEF Worse, Severity, Crimes
    <3> QED BY <3>2, <3>3
  <2> QED BY <1>11, <2>8, <2>9 DEF GoodsModes
<1> QED BY <1>10, <1>11
-------------------------------------------------------------------------------
(* The shift at the checkpoint.                                                 *)
Keys == {"index", "cases", "time", "penalty", "taxed", "complete",
         "stage", "inspected", "revealed", "reviewed", "found"}
IdOf(now, was) == {now.id, now.hidden} = {was.id, was.hidden} /\ (now.id = was.id \/ was.id = NoDoc)

\* A candidate of the roster is at the counter, with the id that it came with.
ShiftFits(c, s) ==
  /\ DOMAIN s = Keys /\ s.index \in 1..Len(c.roster) /\ s.stage \in {"packet", "documents"}
  /\ DOMAIN s.cases = 1..Len(c.roster) /\ Len(s.cases) = Len(c.roster)
  /\ \A i \in 1..Len(c.roster) : {"id", "hidden", "docs"} \subseteq DOMAIN s.cases[i] /\ IdOf(s.cases[i], c.roster[i])
  /\ s.stage = "documents" => s.inspected = {} /\ s.cases[s.index].docs # {}

Slate == {"stage", "inspected", "revealed", "reviewed", "found"}

\* Fields that are put over others.
LEMMA OverFields ==
  ASSUME NEW new, NEW old, NEW x
  PROVE  /\ DOMAIN Over(new, old) = DOMAIN new \cup DOMAIN old
         /\ x \in DOMAIN new => Over(new, old)[x] = new[x]
  BY DEF Over

\* A clean slate over a shift.
LEMMA SlateOver ==
  ASSUME NEW new, NEW old, DOMAIN new = Slate, DOMAIN new \cup DOMAIN old = Keys
  PROVE  /\ DOMAIN Over(new, old) = Keys
         /\ Over(new, old).index = old.index /\ Over(new, old).cases = old.cases
         /\ Over(new, old).stage = new.stage /\ Over(new, old).inspected = new.inspected
<1>1. {"index", "cases"} \subseteq Keys \ Slate /\ {"stage", "inspected"} \subseteq Slate
  BY DEF Keys, Slate
<1>2. {"index", "cases"} \subseteq DOMAIN old \ DOMAIN new
  BY <1>1
<1>3. DOMAIN Over(new, old) = Keys
  BY OverFields
<1>4. Over(new, old).index = old.index
  <2> DEFINE x == "index"
  <2>1. x \in DOMAIN old \ DOMAIN new
    BY <1>2
  <2> HIDE DEF x
  <2>2. Over(new, old)[x] = old[x]
    BY <2>1 DEF Over
  <2> QED
    BY <2>2 DEF x
<1>5. Over(new, old).cases = old.cases
  <2> DEFINE x == "cases"
  <2>1. x \in DOMAIN old \ DOMAIN new
    BY <1>2
  <2> HIDE DEF x
  <2>2. Over(new, old)[x] = old[x]
    BY <2>1 DEF Over
  <2> QED
    BY <2>2 DEF x
<1>6. Over(new, old).stage = new.stage
  BY <1>1, OverFields
<1>7. Over(new, old).inspected = new.inspected
  BY <1>1, OverFields
<1> QED
  BY <1>3, <1>4, <1>5, <1>6, <1>7

\* A candidate that arrives.
LEMMA ArrivedFields ==
  ASSUME NEW p
  PROVE  /\ DOMAIN Arrived(p) = Slate /\ Arrived(p).stage \in {"packet", "documents"}
         /\ Arrived(p).inspected = {} /\ (Arrived(p).stage = "documents" => p.docs # {})
  BY DEF Arrived, Slate

\* The shift opens with the first candidate.
LEMMA ShiftOpens ==
  ASSUME NEW c, RosterGiven(c)
  PROVE  ShiftFits(c, ShiftOpening(c))
<1> DEFINE old == [index |-> 1, cases |-> c.roster, time |-> 0, penalty |-> 0, taxed |-> 0, complete |-> FALSE]
           new == Arrived(c.roster[1])
           s == ShiftOpening(c)
<1>1. s = Over(new, old)
  BY DEF ShiftOpening
<1>2. DOMAIN old = {"index", "cases", "time", "penalty", "taxed", "complete"} /\ old.index = 1 /\ old.cases = c.roster
  OBVIOUS
<1> HIDE DEF old
<1>3. /\ DOMAIN new = Slate /\ new.stage \in {"packet", "documents"}
      /\ new.inspected = {} /\ (new.stage = "documents" => c.roster[1].docs # {})
  BY ArrivedFields
<1> HIDE DEF new, s
<1>7. DOMAIN new \cup DOMAIN old = Keys
  BY <1>2, <1>3 DEF Keys, Slate
<1>4. /\ DOMAIN s = Keys /\ s.index = 1 /\ s.cases = c.roster /\ s.inspected = {} /\ s.stage \in {"packet", "documents"}
      /\ (s.stage = "documents" => c.roster[1].docs # {})
  BY <1>1, <1>2, <1>3, <1>7, SlateOver
<1>5. Len(c.roster) \in Nat /\ Len(c.roster) # 0 /\ DOMAIN c.roster = 1..Len(c.roster)
  BY DEF RosterGiven
<1>6. \A i \in 1..Len(c.roster) : {"id", "hidden", "docs"} \subseteq DOMAIN c.roster[i]
  BY <1>5 DEF RosterGiven
<1> QED
  BY <1>4, <1>5, <1>6 DEF ShiftFits, IdOf, s

\* A step that leaves the candidates alone, and that ends the documents or does
\* not go on with them.
LEMMA ShiftStays ==
  ASSUME NEW c, NEW s, ShiftFits(c, s), NEW t, DOMAIN t = Keys, t.index = s.index, t.cases = s.cases,
         t.stage = "packet" \/ (t.stage = s.stage /\ t.inspected = s.inspected)
  PROVE  ShiftFits(c, t)
  BY DEF ShiftFits

\* The next candidate, or the end of the shift.
LEMMA AdvancedFits ==
  ASSUME NEW c, Len(c.roster) \in Nat, NEW s, ShiftFits(c, s)
  PROVE  ShiftFits(c, Advanced(s))
<1> DEFINE t == Advanced(s)
<1>0. DOMAIN s = Keys /\ s.index \in 1..Len(c.roster) /\ Len(s.cases) = Len(c.roster)
  BY DEF ShiftFits
<1>1. CASE s.index = Len(s.cases)
  <2> DEFINE new == [Arrived(s.cases[s.index]) EXCEPT !.stage = "packet"]
             old == [s EXCEPT !.complete = TRUE]
  <2>1. t = Over(new, old)
    BY <1>1 DEF Advanced
  <2>2. DOMAIN new = Slate /\ new.stage = "packet"
    BY ArrivedFields DEF Slate
  <2>3. DOMAIN old = Keys /\ old.index = s.index /\ old.cases = s.cases
    BY <1>0 DEF Keys
  <2> HIDE DEF t, new, old
  <2>5. DOMAIN new \cup DOMAIN old = Keys
    BY <2>2, <2>3 DEF Keys, Slate
  <2>4. DOMAIN t = Keys /\ t.index = s.index /\ t.cases = s.cases /\ t.stage = "packet"
    BY <2>1, <2>2, <2>3, <2>5, SlateOver
  <2> QED
    BY <2>4, ShiftStays DEF t
<1>2. CASE s.index # Len(s.cases)
  <2> DEFINE n == s.index + 1
             new == Arrived(s.cases[n])
             old == [s EXCEPT !.index = n]
  <2>1. t = Over(new, old)
    BY <1>2 DEF Advanced
  <2>5. n \in 1..Len(c.roster)
    BY <1>0, <1>2
  <2> HIDE DEF n
  <2>2. /\ DOMAIN new = Slate /\ new.stage \in {"packet", "documents"}
        /\ new.inspected = {} /\ (new.stage = "documents" => s.cases[n].docs # {})
    BY ArrivedFields
  <2>3. DOMAIN old = Keys /\ old.index = n /\ old.cases = s.cases
    BY <1>0 DEF Keys
  <2> HIDE DEF t, new, old
  <2>6. DOMAIN new \cup DOMAIN old = Keys
    BY <2>2, <2>3 DEF Keys, Slate
  <2>4. /\ DOMAIN t = Keys /\ t.index = n /\ t.cases = s.cases /\ t.stage \in {"packet", "documents"}
        /\ t.inspected = {} /\ (t.stage = "documents" => s.cases[n].docs # {})
    BY <2>1, <2>2, <2>3, <2>6, SlateOver
  <2>7. /\ DOMAIN s.cases = 1..Len(c.roster) /\ Len(s.cases) = Len(c.roster)
        /\ \A i \in 1..Len(c.roster) : {"id", "hidden", "docs"} \subseteq DOMAIN s.cases[i] /\ IdOf(s.cases[i], c.roster[i])
    BY DEF ShiftFits
  <2> HIDE DEF IdOf
  <2>8. ShiftFits(c, t)
    BY <2>4, <2>5, <2>7 DEF ShiftFits
  <2> QED
    BY <2>8 DEF t
<1> QED
  BY <1>1, <1>2

\* The list of a length.
LEMMA ListOf ==
  ASSUME NEW n \in Nat, NEW f, f = [i \in 1..n |-> f[i]]
  PROVE  Len(f) = n
<1> DEFINE S == {f[i] : i \in 1..n}
<1>1. f \in [1..n -> S]
  OBVIOUS
<1>2. f \in Seq(S)
  BY <1>1
<1> QED
  BY <1>1, <1>2

\* The id that a candidate hands over moves to the table.
LEMMA IdRequestedFits ==
  ASSUME NEW g, Len(g.c.roster) \in Nat, ShiftFits(g.c, g.s), NEW s, ShiftFits(g.c, s),
         s.index = g.s.index, s.cases = g.s.cases, s.stage = "packet", Current(g).id = NoDoc
  PROVE  ShiftFits(g.c, IdRequested(g, s))
<1> DEFINE p == Current(g)
           given == [p EXCEPT !.id = p.hidden, !.hidden = NoDoc]
           found == Learned(s.found, "id", "cleared")
           after == Noted(s, "id", "cleared")
           shown == Rendered(g.c.rules, given, after.found)
           i == s.index
<1>1. i \in 1..Len(g.c.roster) /\ p = s.cases[i] /\ DOMAIN s = Keys
  BY DEF ShiftFits, Current
<1>2. {"id", "hidden", "docs"} \subseteq DOMAIN p /\ IdOf(p, g.c.roster[i])
  BY <1>1 DEF ShiftFits
<1>3. \A key, finding : /\ DOMAIN Noted(s, key, finding) = Keys /\ Noted(s, key, finding).index = i
                        /\ Noted(s, key, finding).cases = s.cases /\ Noted(s, key, finding).stage = "packet"
  BY <1>1 DEF Noted, Keys
<1>4. CASE p.complies /\ p.hidden # NoDoc
  <2> DEFINE t == [after EXCEPT !.cases[i] = shown]
             cases == [s.cases EXCEPT ![i] = shown]
  <2>1. IdRequested(g, s) = t
    BY <1>4 DEF IdRequested
  <2>2. DOMAIN after = Keys /\ after.index = i /\ after.cases = s.cases /\ after.stage = "packet"
    BY <1>3
  <2>3. given.id = p.hidden /\ given.hidden = NoDoc /\ DOMAIN given = DOMAIN p
    BY <1>2
  <2> HIDE DEF p, given, after
  <2>4. {"id", "hidden", "docs"} \subseteq DOMAIN shown /\ shown.id = given.id /\ shown.hidden = given.hidden
    <3> DEFINE new == [docs |-> Documents(given), facts |-> Facts(g.c.rules, given, after.found),
                       clue |-> Facts(g.c.rules, given, after.found) # {}]
    <3>1. shown = Over(new, given)
      BY DEF Rendered
    <3>2. DOMAIN new = {"docs", "facts", "clue"}
      OBVIOUS
    <3> HIDE DEF new, shown
    <3>3. "id" \notin DOMAIN new /\ "hidden" \notin DOMAIN new /\ "docs" \in DOMAIN new
      BY <3>2
    <3>4. "id" \in DOMAIN given /\ "hidden" \in DOMAIN given
      BY <1>2, <2>3 DEF p
    <3>8. \A x \in DOMAIN given \ DOMAIN new : shown[x] = given[x]
      BY <3>1 DEF Over
    <3>5. shown.id = given.id
      BY <3>3, <3>4, <3>8
    <3>6. shown.hidden = given.hidden
      BY <3>3, <3>4, <3>8
    <3>7. DOMAIN shown = DOMAIN new \cup DOMAIN given
      BY <3>1, OverFields
    <3> QED
      BY <3>3, <3>4, <3>5, <3>6, <3>7
  <2> HIDE DEF shown
  <2>5. t.cases = cases /\ DOMAIN t = Keys /\ t.index = i /\ t.stage = "packet"
    BY <2>2 DEF Keys
  <2> HIDE DEF t
  <2>6. DOMAIN s.cases = 1..Len(g.c.roster)
    BY DEF ShiftFits
  <2>7. DOMAIN cases = 1..Len(g.c.roster) /\ cases[i] = shown /\ \A j \in 1..Len(g.c.roster) : j # i => cases[j] = s.cases[j]
    BY <1>1, <2>6
  <2>8. Len(cases) = Len(g.c.roster)
    <3>1. cases = [j \in 1..Len(g.c.roster) |-> cases[j]]
      BY <2>6
    <3> HIDE DEF cases
    <3> QED
      BY <3>1, ListOf
  <2> HIDE DEF cases
  <2>9. IdOf(shown, g.c.roster[i])
    BY <1>2, <2>3, <2>4 DEF IdOf, p
  <2> HIDE DEF i
  <2>10. \A j \in 1..Len(g.c.roster) : {"id", "hidden", "docs"} \subseteq DOMAIN cases[j] /\ IdOf(cases[j], g.c.roster[j])
    BY <2>4, <2>7, <2>9 DEF ShiftFits
  <2>11. ShiftFits(g.c, t)
    BY <1>1, <2>5, <2>7, <2>8, <2>10 DEF ShiftFits
  <2> QED
    BY <2>1, <2>11
<1>5. CASE ~(p.complies /\ p.hidden # NoDoc)
  <2> DEFINE t == Noted(s, "id", "refused")
  <2>1. IdRequested(g, s) = t
    BY <1>5 DEF IdRequested
  <2>2. DOMAIN t = Keys /\ t.index = s.index /\ t.cases = s.cases /\ t.stage = "packet"
    BY <1>3
  <2> HIDE DEF t
  <2> QED
    BY <2>1, <2>2, ShiftStays
<1> QED
  BY <1>4, <1>5

\* Every move of a shift keeps it so.
LEMMA ShiftRoundKeeps ==
  ASSUME NEW g, RosterGiven(g.c), ShiftFits(g.c, g.s), NEW m \in CheckpointMoves(g)
  PROVE  ShiftFits(g.c, CheckpointRound(g, m).s)
<1> DEFINE now == g.s.time + Cost(m)
           s == [g.s EXCEPT !.time = now]
           out == CheckpointRound(g, m)
<1>0. Len(g.c.roster) \in Nat
  BY DEF RosterGiven
<1> HIDE DEF now
<1>1. DOMAIN s = Keys /\ s.index = g.s.index /\ s.cases = g.s.cases /\ s.stage = g.s.stage /\ s.inspected = g.s.inspected
  BY DEF ShiftFits, Keys
<1>2. CASE m[1] = "inspect"
  <2>1. out.s = Inspected(g, s, m[2])
    BY <1>2 DEF CheckpointRound, Outcome, now
  <2> HIDE DEF s
  <2>2. DOMAIN out.s = Keys /\ out.s.index = s.index /\ out.s.cases = s.cases /\ out.s.stage = "packet"
    BY <1>1, <2>1 DEF Inspected, Keys
  <2> HIDE DEF out
  <2> QED
    BY <1>1, <2>2, ShiftStays DEF out
<1>3. CASE m[1] = "review"
  <2> DEFINE t == [s EXCEPT !.reviewed = TRUE]
  <2>1. out.s = t
    BY <1>3 DEF CheckpointRound, Outcome, now
  <2> HIDE DEF s
  <2>2. DOMAIN t = Keys /\ t.index = s.index /\ t.cases = s.cases /\ t.stage = s.stage /\ t.inspected = s.inspected
    BY <1>1 DEF Keys
  <2> HIDE DEF out, t
  <2> QED
    BY <1>1, <2>1, <2>2, ShiftStays DEF out
<1>4. CASE m[1] = "decide"
  <2> DEFINE owed == s.penalty + Penalty(Expected(g), m[2]) + Taxed(g, m[2])
             tax == s.taxed + Taxed(g, m[2])
             t == [s EXCEPT !.penalty = owed, !.taxed = tax]
  <2>1. out.s = Advanced(t)
    BY <1>4 DEF CheckpointRound, Outcome, Decided, now
  <2> HIDE DEF s, owed, tax
  <2>2. DOMAIN t = Keys /\ t.index = s.index /\ t.cases = s.cases /\ t.stage = s.stage /\ t.inspected = s.inspected
    BY <1>1 DEF Keys
  <2> HIDE DEF t
  <2>3. ShiftFits(g.c, t)
    BY <1>1, <2>2, ShiftStays
  <2> QED
    BY <1>0, <2>1, <2>3, AdvancedFits
<1>5. CASE m \in Requests(g) /\ g.s.stage # "documents" /\ m[1] \notin {"inspect", "review", "decide"}
  <2>1. out.s = Requested(g, s, m)
    BY <1>5 DEF CheckpointRound, Outcome, now
  <2> HIDE DEF s, out
  <2>2. ShiftFits(g.c, s)
    BY <1>1, ShiftStays
  <2>3. \A key, finding : LET t == Noted(s, key, finding) IN
          DOMAIN t = Keys /\ t.index = s.index /\ t.cases = s.cases /\ t.stage = s.stage /\ t.inspected = s.inspected
    BY <1>1 DEF Noted, Keys
  <2>4. \A key, finding : ShiftFits(g.c, Noted(s, key, finding))
    BY <2>2, <2>3, ShiftStays
  <2>5. CASE m[1] = "request_id"
    <3>5. m = <<"request_id", "id">>
      BY <1>5, <2>5 DEF Requests
    <3>1. Requested(g, s, m) = IdRequested(g, s)
      BY <3>5 DEF Requested
    <3>2. Current(g).id = NoDoc
      BY <1>5, <2>5 DEF Requests, LacksId
    <3>3. s.stage = "packet"
      BY <1>1, <1>5 DEF ShiftFits
    <3>4. ShiftFits(g.c, IdRequested(g, s))
      BY <1>0, <1>1, <2>2, <3>2, <3>3, IdRequestedFits
    <3> QED
      BY <2>1, <3>1, <3>4 DEF out
  <2>6. CASE m[1] # "request_id"
    <3>1. /\ \E key, finding : DocumentAsked(g, s, m[2]) = Noted(s, key, finding)
          /\ \E key, finding : IdVerified(g, s) = Noted(s, key, finding)
          /\ \E key, finding : Searched(g, s) = Noted(s, key, finding)
          /\ \E key, finding : DisclosureAsked(g, s) = Noted(s, key, finding)
      <4>1. \E key, finding : DocumentAsked(g, s, m[2]) = Noted(s, key, finding)
        BY Zenon DEF DocumentAsked
      <4>2. \E key, finding : IdVerified(g, s) = Noted(s, key, finding)
        BY Zenon DEF IdVerified
      <4>3. \E key, finding : Searched(g, s) = Noted(s, key, finding)
        BY Zenon DEF Searched
      <4>4. \E key, finding : DisclosureAsked(g, s) = Noted(s, key, finding)
        BY Zenon DEF DisclosureAsked
      <4> QED
        BY <4>1, <4>2, <4>3, <4>4
    <3>2. \/ Requested(g, s, m) = DocumentAsked(g, s, m[2]) \/ Requested(g, s, m) = IdVerified(g, s)
          \/ Requested(g, s, m) = Searched(g, s) \/ Requested(g, s, m) = DisclosureAsked(g, s)
          \/ Requested(g, s, m) = Noted(s, "relinquish", "yielded")
      BY <2>6 DEF Requested
    <3>3. ShiftFits(g.c, Requested(g, s, m))
      BY <2>4, <3>1, <3>2
    <3> QED
      BY <2>1, <3>3 DEF out
  <2> QED
    BY <2>5, <2>6
<1>6. \/ m[1] \in {"inspect", "review", "decide"}
      \/ m \in Requests(g) /\ g.s.stage # "documents"
  BY DEF CheckpointMoves, Inspections, Reviews, Decisions
<1> QED
  BY <1>2, <1>3, <1>4, <1>5, <1>6

\* There is a document to look at, or a disposition to choose.
LEMMA ShiftGoesOn ==
  ASSUME NEW g, RosterGiven(g.c), ShiftFits(g.c, g.s)
  PROVE  CheckpointActions(g) # {}
<1>1. CASE g.s.stage = "documents"
  <2>1. Current(g).docs \ g.s.inspected # {}
    BY <1>1 DEF ShiftFits, Current
  <2> QED
    BY <2>1 DEF CheckpointActions, Inspections
<1>2. CASE g.s.stage # "documents"
  <2>1. <<"decide", "pass">> \in CheckpointMoves(g)
    BY <1>2 DEF CheckpointMoves, Decisions, Dispositions
  <2>2. <<"decide", "pass">> \notin Inspections(g)
    BY DEF Inspections
  <2> QED
    BY <2>1, <2>2 DEF CheckpointActions
<1> QED
  BY <1>1, <1>2

-------------------------------------------------------------------------------
(* A shift runs out of candidates, each candidate of documents and requests.    *)

\* The documents that may be seen of a candidate, and what may be found out.
Showable(r) == r.docs \cup Documents(r) \cup (IF r.hidden = NoDoc THEN {} ELSE {<<"id", "id">>})
Answerable(r) == DOMAIN r.papers \cup {"id", "search", "disclosure", "relinquish"}

\* One element more makes a set no more than one larger.
LEMMA OneMore ==
  ASSUME NEW S, IsFiniteSet(S), NEW x
  PROVE  /\ IsFiniteSet(S \cup {x}) /\ Cardinality(S) \in Nat /\ Cardinality(S \cup {x}) \in Nat
         /\ Cardinality(S \cup {x}) <= Cardinality(S) + 1
         /\ x \notin S => Cardinality(S \cup {x}) = Cardinality(S) + 1
<1>1. IsFiniteSet(S \cup {x}) /\ Cardinality(S) \in Nat /\ Cardinality(S \cup {x}) \in Nat
  BY FS_AddElement, FS_CardinalityType
<1>2. CASE x \in S
  <2> DEFINE more == S \cup {x}
  <2>1. more = S
    BY <1>2
  <2> HIDE DEF more
  <2>2. Cardinality(more) <= Cardinality(S) + 1
    BY <1>1, <2>1
  <2> QED
    BY <1>1, <1>2, <2>2 DEF more
<1>3. CASE x \notin S
  BY <1>1, <1>3, FS_AddElement
<1> QED
  BY <1>1, <1>2, <1>3

\* Pairs with one part fixed are as finite as the other.
LEMMA PairsFinite ==
  ASSUME NEW S, IsFiniteSet(S), NEW a
  PROVE  IsFiniteSet({<<a, x>> : x \in S})
<1> DEFINE T == {<<a, x>> : x \in S}
           f == [x \in S |-> <<a, x>>]
<1>1. f \in [S -> T] /\ \A t \in T : \E x \in S : f[x] = t
  OBVIOUS
<1>2. f \in Surjection(S, T)
  BY <1>1 DEF Surjection
<1> HIDE DEF f, T
<1>3. IsFiniteSet(T)
  BY <1>2, FS_Surjection
<1> QED
  BY <1>3 DEF T

\* What is done about one candidate is less than the most that it can take.
LEMMA CaseBound ==
  ASSUME NEW r, IsFiniteSet(r.docs), IsFiniteSet(DOMAIN r.papers), IsFiniteSet(r.open),
         NEW A \in SUBSET Showable(r), NEW B \in SUBSET Answerable(r)
  PROVE  /\ IsFiniteSet(A) /\ IsFiniteSet(B) /\ Cardinality(A) \in Nat /\ Cardinality(B) \in Nat
         /\ LongestCase(r) \in Nat /\ Cardinality(A) + Cardinality(B) + 2 <= LongestCase(r)
<1> DEFINE seen == r.docs \cup Documents(r)
           P == DOMAIN r.papers
           h == IF r.hidden = NoDoc THEN 0 ELSE 1
<1>1. IsFiniteSet(seen)
  <2> DEFINE papers == {<<"paper", what>> : what \in P}
             goods == {<<"goods", what>> : what \in r.open}
             id == IF r.id = NoDoc THEN {} ELSE {<<"id", "id">>}
  <2>1. IsFiniteSet(papers) /\ IsFiniteSet(goods)
    BY PairsFinite
  <2>2. IsFiniteSet(id)
    BY FS_EmptySet, FS_Singleton
  <2>3. seen = r.docs \cup ((id \cup papers) \cup goods)
    BY DEF Documents
  <2> HIDE DEF papers, goods, id, seen
  <2>4. IsFiniteSet(id \cup papers)
    BY <2>1, <2>2, FS_Union
  <2>5. IsFiniteSet((id \cup papers) \cup goods)
    BY <2>1, <2>4, FS_Union
  <2> QED
    BY <2>3, <2>5, FS_Union
<1>2. LongestCase(r) = Cardinality(seen) + h + Cardinality(P) + 6
  BY DEF LongestCase
<1>3. Cardinality(seen) \in Nat /\ Cardinality(P) \in Nat /\ h \in Nat
  BY <1>1, FS_CardinalityType
<1>4. /\ IsFiniteSet(Showable(r)) /\ Cardinality(Showable(r)) \in Nat
      /\ Cardinality(Showable(r)) <= Cardinality(seen) + h
  <2> DEFINE more == seen \cup {<<"id", "id">>}
  <2>1. Showable(r) = seen \/ (Showable(r) = more /\ h = 1)
    BY DEF Showable
  <2>2. IsFiniteSet(more) /\ Cardinality(more) \in Nat /\ Cardinality(more) <= Cardinality(seen) + 1
    <3> HIDE DEF seen
    <3> QED
      BY <1>1, OneMore
  <2> HIDE DEF seen, more, h
  <2> QED
    BY <1>1, <1>3, <2>1, <2>2
<1>5. /\ IsFiniteSet(Answerable(r)) /\ Cardinality(Answerable(r)) \in Nat
      /\ Cardinality(Answerable(r)) <= Cardinality(P) + 4
  <2> DEFINE one == P \cup {"id"}
             two == one \cup {"search"}
             three == two \cup {"disclosure"}
             four == three \cup {"relinquish"}
  <2>1. Answerable(r) = four
    BY DEF Answerable
  <2> HIDE DEF P
  <2>2. IsFiniteSet(one) /\ Cardinality(one) \in Nat /\ Cardinality(one) <= Cardinality(P) + 1
    BY <1>3, OneMore DEF P
  <2> HIDE DEF one
  <2>3. IsFiniteSet(two) /\ Cardinality(two) \in Nat /\ Cardinality(two) <= Cardinality(one) + 1
    BY <2>2, OneMore
  <2> HIDE DEF two
  <2>4. IsFiniteSet(three) /\ Cardinality(three) \in Nat /\ Cardinality(three) <= Cardinality(two) + 1
    BY <2>3, OneMore
  <2> HIDE DEF three
  <2>5. IsFiniteSet(four) /\ Cardinality(four) \in Nat /\ Cardinality(four) <= Cardinality(three) + 1
    BY <2>4, OneMore
  <2> HIDE DEF four
  <2> QED
    BY <1>3, <2>1, <2>2, <2>3, <2>4, <2>5
<1>6. /\ IsFiniteSet(A) /\ Cardinality(A) \in Nat /\ Cardinality(A) <= Cardinality(Showable(r))
      /\ IsFiniteSet(B) /\ Cardinality(B) \in Nat /\ Cardinality(B) <= Cardinality(Answerable(r))
  BY <1>4, <1>5, FS_Subset, FS_CardinalityType
<1> HIDE DEF seen, P, h
<1> QED
  BY <1>2, <1>3, <1>4, <1>5, <1>6

\* What does not change of a candidate at the counter, and what was done about it.
Faces(r, p) ==
  {"papers", "open"} \subseteq DOMAIN p /\ p.papers = r.papers /\ p.open = r.open /\ p.docs \subseteq Showable(r)
AtCounter(c, s) ==
  /\ Faces(c.roster[s.index], s.cases[s.index])
  /\ \A j \in DOMAIN c.roster : j > s.index => s.cases[j] = c.roster[j]
  /\ s.inspected \subseteq Showable(c.roster[s.index]) /\ DOMAIN s.found \subseteq Answerable(c.roster[s.index])
  /\ s.reviewed \in BOOLEAN
Used(s) == Cardinality(s.inspected) + Cardinality(DOMAIN s.found) + (IF s.reviewed THEN 1 ELSE 0)

\* What a candidate uses of its time, and how much is left for the decision.
LEMMA UsedBound ==
  ASSUME NEW c, RosterGiven(c), NEW s, s.index \in DOMAIN c.roster, AtCounter(c, s)
  PROVE  /\ IsFiniteSet(s.inspected) /\ IsFiniteSet(DOMAIN s.found)
         /\ Cardinality(s.inspected) \in Nat /\ Cardinality(DOMAIN s.found) \in Nat
         /\ Used(s) \in Nat /\ LongestCase(c.roster[s.index]) \in Nat
         /\ Used(s) < LongestCase(c.roster[s.index])
<1> DEFINE r == c.roster[s.index]
<1>1. IsFiniteSet(r.docs) /\ IsFiniteSet(DOMAIN r.papers) /\ IsFiniteSet(r.open)
  BY DEF RosterGiven
<1>2. s.inspected \in SUBSET Showable(r) /\ DOMAIN s.found \in SUBSET Answerable(r)
  BY DEF AtCounter
<1> HIDE DEF r
<1>3. /\ IsFiniteSet(s.inspected) /\ IsFiniteSet(DOMAIN s.found)
      /\ Cardinality(s.inspected) \in Nat /\ Cardinality(DOMAIN s.found) \in Nat
      /\ LongestCase(r) \in Nat /\ Cardinality(s.inspected) + Cardinality(DOMAIN s.found) + 2 <= LongestCase(r)
  BY <1>1, <1>2, CaseBound
<1> QED
  BY <1>3 DEF Used, r

\* The next candidate comes as it stands in the roster, and nothing was done yet.
LEMMA NextCandidate ==
  ASSUME NEW c, RosterGiven(c), NEW s, s.index \in DOMAIN c.roster, s.inspected = {}, DOMAIN s.found = {},
         s.reviewed = FALSE, \A j \in DOMAIN c.roster : j >= s.index => s.cases[j] = c.roster[j]
  PROVE  AtCounter(c, s) /\ Used(s) = 0
<1>1. s.index \in Nat
  BY DEF RosterGiven
<1>2. s.cases[s.index] = c.roster[s.index]
  BY <1>1
<1>3. {"papers", "open"} \subseteq DOMAIN c.roster[s.index]
  BY DEF RosterGiven
<1>4. Faces(c.roster[s.index], s.cases[s.index])
  BY <1>2, <1>3 DEF Faces, Showable
<1>5. \A j \in DOMAIN c.roster : j > s.index => s.cases[j] = c.roster[j]
  BY <1>1 DEF RosterGiven
<1>6. Cardinality({}) = 0
  BY FS_EmptySet
<1>7. Used(s) = 0
  BY <1>6 DEF Used
<1> QED
  BY <1>4, <1>5, <1>7 DEF AtCounter

\* A document more that was inspected, an answer more, or a review.
OneStep(c, s, t) ==
  \/ /\ \E doc \in Showable(c.roster[s.index]) \ s.inspected : t.inspected = s.inspected \cup {doc}
     /\ DOMAIN t.found = DOMAIN s.found /\ t.reviewed = s.reviewed
  \/ /\ \E key \in Answerable(c.roster[s.index]) \ DOMAIN s.found : DOMAIN t.found = DOMAIN s.found \cup {key}
     /\ t.inspected = s.inspected /\ t.reviewed = s.reviewed
  \/ t.inspected = s.inspected /\ DOMAIN t.found = DOMAIN s.found /\ ~s.reviewed /\ t.reviewed = TRUE

\* Each of them uses one move.
LEMMA StepUses ==
  ASSUME NEW c, RosterGiven(c), NEW s, s.index \in DOMAIN c.roster, AtCounter(c, s), NEW t, t.index = s.index,
         Faces(c.roster[s.index], t.cases[s.index]), \A j \in DOMAIN c.roster : j > s.index => t.cases[j] = s.cases[j],
         OneStep(c, s, t)
  PROVE  AtCounter(c, t) /\ Used(t) = Used(s) + 1
<1> DEFINE r == c.roster[s.index]
<1>1. /\ IsFiniteSet(s.inspected) /\ IsFiniteSet(DOMAIN s.found)
      /\ Cardinality(s.inspected) \in Nat /\ Cardinality(DOMAIN s.found) \in Nat
  BY UsedBound
<1>2. /\ s.inspected \subseteq Showable(r) /\ DOMAIN s.found \subseteq Answerable(r) /\ s.reviewed \in BOOLEAN
      /\ \A j \in DOMAIN c.roster : j > t.index => t.cases[j] = c.roster[j]
      /\ Faces(c.roster[t.index], t.cases[t.index]) /\ c.roster[t.index] = r
  BY DEF AtCounter
<1>3. OneStep(c, s, t) <=>
        \/ /\ \E doc \in Showable(r) \ s.inspected : t.inspected = s.inspected \cup {doc}
           /\ DOMAIN t.found = DOMAIN s.found /\ t.reviewed = s.reviewed
        \/ /\ \E key \in Answerable(r) \ DOMAIN s.found : DOMAIN t.found = DOMAIN s.found \cup {key}
           /\ t.inspected = s.inspected /\ t.reviewed = s.reviewed
        \/ t.inspected = s.inspected /\ DOMAIN t.found = DOMAIN s.found /\ ~s.reviewed /\ t.reviewed = TRUE
  BY DEF OneStep
<1> HIDE DEF r
<1>4. t.inspected \subseteq Showable(r) /\ DOMAIN t.found \subseteq Answerable(r) /\ t.reviewed \in BOOLEAN
  BY <1>2, <1>3
<1>5. AtCounter(c, t)
  BY <1>2, <1>4 DEF AtCounter
<1> DEFINE a == Cardinality(s.inspected)
           b == Cardinality(DOMAIN s.found)
           x == Cardinality(t.inspected)
           y == Cardinality(DOMAIN t.found)
<1>6. \/ x = a + 1 /\ y = b /\ t.reviewed = s.reviewed
      \/ x = a /\ y = b + 1 /\ t.reviewed = s.reviewed
      \/ x = a /\ y = b /\ ~s.reviewed /\ t.reviewed = TRUE
  BY <1>1, <1>3, OneMore
<1>7. Used(s) = a + b + (IF s.reviewed THEN 1 ELSE 0) /\ Used(t) = x + y + (IF t.reviewed THEN 1 ELSE 0)
  BY DEF Used
<1> HIDE DEF a, b, x, y
<1>8. a \in Nat /\ b \in Nat
  BY <1>1 DEF a, b
<1> QED
  BY <1>2, <1>5, <1>6, <1>7, <1>8

\* A candidate that is asked for its id may put it on the table, and nothing else.
LEMMA IdStep ==
  ASSUME NEW g, RosterGiven(g.c), ShiftFits(g.c, g.s), AtCounter(g.c, g.s), NEW s, DOMAIN s = Keys,
         s.index = g.s.index, s.cases = g.s.cases, s.inspected = g.s.inspected, s.found = g.s.found,
         s.reviewed = g.s.reviewed, Current(g).id = NoDoc, "id" \notin DOMAIN g.s.found
  PROVE  LET t == IdRequested(g, s) IN
         /\ t.index = g.s.index /\ Faces(g.c.roster[g.s.index], t.cases[g.s.index])
         /\ \A j \in DOMAIN g.c.roster : j > g.s.index => t.cases[j] = g.s.cases[j]
         /\ OneStep(g.c, g.s, t)
<1> DEFINE p == Current(g)
           given == [p EXCEPT !.id = p.hidden, !.hidden = NoDoc]
           after == Noted(s, "id", "cleared")
           shown == Rendered(g.c.rules, given, after.found)
           i == s.index
           r == g.c.roster[i]
           t == IdRequested(g, s)
<1>1. /\ i \in 1..Len(g.c.roster) /\ p = s.cases[i] /\ DOMAIN s.cases = 1..Len(g.c.roster)
      /\ DOMAIN g.c.roster = 1..Len(g.c.roster) /\ Len(g.c.roster) \in Nat
  BY DEF ShiftFits, Current, RosterGiven
<1>2. {"id", "hidden", "docs"} \subseteq DOMAIN p /\ IdOf(p, r) /\ Faces(r, p)
  BY <1>1 DEF ShiftFits, AtCounter
<1>3. \A key, finding : LET n == Noted(s, key, finding) IN
        /\ DOMAIN n = Keys /\ n.index = i /\ n.cases = s.cases /\ n.inspected = s.inspected /\ n.reviewed = s.reviewed
        /\ DOMAIN n.found = DOMAIN s.found \cup {key}
  <2> SUFFICES ASSUME NEW key, NEW finding
               PROVE  LET n == Noted(s, key, finding) IN
                      /\ DOMAIN n = Keys /\ n.index = i /\ n.cases = s.cases /\ n.inspected = s.inspected
                      /\ n.reviewed = s.reviewed /\ DOMAIN n.found = DOMAIN s.found \cup {key}
    OBVIOUS
  <2> DEFINE known == Learned(s.found, key, finding)
             n == [s EXCEPT !.found = known]
  <2>1. Noted(s, key, finding) = n
    BY Zenon DEF Noted
  <2>2. DOMAIN known = DOMAIN s.found \cup {key}
    BY DEF Learned
  <2> HIDE DEF known
  <2>3. /\ DOMAIN n = Keys /\ n.index = i /\ n.cases = s.cases /\ n.inspected = s.inspected
        /\ n.reviewed = s.reviewed /\ n.found = known
    BY DEF Keys
  <2> QED
    BY <2>1, <2>2, <2>3
<1>4. "id" \in Answerable(r)
  BY DEF Answerable
<1>5. CASE p.complies /\ p.hidden # NoDoc
  <2> DEFINE u == [after EXCEPT !.cases[i] = shown]
             cases == [s.cases EXCEPT ![i] = shown]
  <2>1. t = u
    BY <1>5 DEF IdRequested
  <2>2. /\ DOMAIN after = Keys /\ after.index = i /\ after.cases = s.cases /\ after.inspected = s.inspected
        /\ after.reviewed = s.reviewed /\ DOMAIN after.found = DOMAIN s.found \cup {"id"}
    BY <1>3
  <2>3. given.id = p.hidden /\ DOMAIN given = DOMAIN p /\ given.papers = p.papers /\ given.open = p.open
    BY <1>2 DEF Faces
  <2>4. r.hidden # NoDoc
    <3>1. p.id = NoDoc /\ p.hidden # NoDoc
      BY <1>5
    <3> HIDE DEF p, r
    <3> QED
      BY <1>2, <3>1 DEF IdOf
  <2> HIDE DEF p, given, after
  <2>5. Documents(given) \subseteq Showable(r)
    <3>1. Documents(given) \subseteq {<<"id", "id">>} \cup {<<"paper", what>> : what \in DOMAIN r.papers}
                                     \cup {<<"goods", what>> : what \in r.open}
      BY ZenonT(30), <1>2, <2>3 DEF Documents, Faces
    <3>2. <<"id", "id">> \in Showable(r)
      BY <2>4 DEF Showable
    <3>3. {<<"paper", what>> : what \in DOMAIN r.papers} \cup {<<"goods", what>> : what \in r.open} \subseteq Showable(r)
      BY DEF Showable, Documents
    <3> QED
      BY <3>1, <3>2, <3>3
  <2>6. Faces(r, shown)
    <3> DEFINE new == [docs |-> Documents(given), facts |-> Facts(g.c.rules, given, after.found),
                       clue |-> Facts(g.c.rules, given, after.found) # {}]
    <3>1. shown = Over(new, given)
      BY DEF Rendered
    <3>2. DOMAIN new = {"docs", "facts", "clue"} /\ new.docs = Documents(given)
      OBVIOUS
    <3> HIDE DEF new, shown
    <3>3. "papers" \notin DOMAIN new /\ "open" \notin DOMAIN new /\ "docs" \in DOMAIN new
      BY <3>2
    <3>4. "papers" \in DOMAIN given /\ "open" \in DOMAIN given
      BY <1>2, <2>3 DEF Faces
    <3>5. \A x \in DOMAIN given \ DOMAIN new : shown[x] = given[x]
      BY <3>1 DEF Over
    <3>6. shown.papers = given.papers /\ shown.open = given.open
      BY <3>3, <3>4, <3>5
    <3>7. shown.docs = new.docs
      <4> DEFINE x == "docs"
      <4>1. x \in DOMAIN new
        BY <3>3
      <4> HIDE DEF x
      <4>2. shown[x] = new[x]
        BY <3>1, <4>1 DEF Over
      <4> QED
        BY <4>2 DEF x
    <3>9. DOMAIN shown = DOMAIN new \cup DOMAIN given
      BY <3>1, OverFields
    <3>8. shown.docs \subseteq Showable(r)
      BY <2>5, <3>2, <3>7
    <3> HIDE DEF r
    <3> QED
      BY <1>2, <2>3, <3>4, <3>6, <3>9, <3>8 DEF Faces
  <2> HIDE DEF shown
  <2>7. /\ u.cases = cases /\ u.index = i /\ u.inspected = s.inspected /\ u.reviewed = s.reviewed
        /\ DOMAIN u.found = DOMAIN s.found \cup {"id"}
    BY <2>2 DEF Keys
  <2> HIDE DEF u
  <2>8. cases[i] = shown /\ \A j \in 1..Len(g.c.roster) : j > i => cases[j] = s.cases[j]
    BY <1>1
  <2> HIDE DEF cases, t
  <2>9. OneStep(g.c, g.s, t)
    BY <1>4, <2>1, <2>7 DEF OneStep
  <2> QED
    BY <1>1, <2>1, <2>6, <2>7, <2>8, <2>9 DEF t
<1>6. CASE ~(p.complies /\ p.hidden # NoDoc)
  <2>1. t = Noted(s, "id", "refused")
    BY <1>6 DEF IdRequested
  <2>2. /\ t.index = i /\ t.cases = s.cases /\ t.inspected = s.inspected /\ t.reviewed = s.reviewed
        /\ DOMAIN t.found = DOMAIN s.found \cup {"id"}
    BY <1>3, <2>1
  <2> HIDE DEF t
  <2>3. OneStep(g.c, g.s, t)
    BY <1>4, <2>2 DEF OneStep
  <2> QED
    BY <1>1, <1>2, <2>2, <2>3 DEF t
<1> QED
  BY <1>5, <1>6

\* A request that is not for a missing id notes a finding that was not there.
LEMMA RequestNotes ==
  ASSUME NEW g, NEW m \in Requests(g), m[1] # "request_id", NEW s
  PROVE  \E key, finding : /\ Requested(g, s, m) = Noted(s, key, finding) /\ key \notin DOMAIN g.s.found
                           /\ key \in DOMAIN Current(g).papers \cup {"id", "search", "disclosure", "relinquish"}
<1> DEFINE Good(key) == /\ \E finding : Requested(g, s, m) = Noted(s, key, finding)
                        /\ key \notin DOMAIN g.s.found
                        /\ key \in DOMAIN Current(g).papers \cup {"id", "search", "disclosure", "relinquish"}
<1>1. ASSUME NEW what \in DOMAIN Current(g).papers, ~Asked(g, what), m = <<"request_document", what>>
      PROVE  Good(what)
  <2>1. Requested(g, s, m) = DocumentAsked(g, s, what)
    BY <1>1 DEF Requested
  <2>2. \E finding : DocumentAsked(g, s, what) = Noted(s, what, finding)
    BY Zenon DEF DocumentAsked
  <2> QED
    BY <1>1, <2>1, <2>2 DEF Asked
<1>2. ASSUME ~Asked(g, "id"), m = <<"verify_id", "id">>
      PROVE  Good("id")
  <2>1. Requested(g, s, m) = IdVerified(g, s)
    BY <1>2 DEF Requested
  <2>2. \E finding : IdVerified(g, s) = Noted(s, "id", finding)
    BY Zenon DEF IdVerified
  <2> QED
    BY <1>2, <2>1, <2>2 DEF Asked
<1>3. ASSUME ~Asked(g, "search"), m = <<"request", "search">>
      PROVE  Good("search")
  <2>1. Requested(g, s, m) = Searched(g, s)
    BY <1>3 DEF Requested
  <2>2. \E finding : Searched(g, s) = Noted(s, "search", finding)
    BY Zenon DEF Searched
  <2> QED
    BY <1>3, <2>1, <2>2 DEF Asked
<1>4. ASSUME ~Asked(g, "disclosure"), m = <<"request", "disclosure">>
      PROVE  Good("disclosure")
  <2>1. Requested(g, s, m) = DisclosureAsked(g, s)
    BY <1>4 DEF Requested
  <2>2. \E finding : DisclosureAsked(g, s) = Noted(s, "disclosure", finding)
    BY Zenon DEF DisclosureAsked
  <2> QED
    BY <1>4, <2>1, <2>2 DEF Asked
<1>5. ASSUME ~Asked(g, "relinquish"), m = <<"request", "relinquish">>
      PROVE  Good("relinquish")
  <2>1. Requested(g, s, m) = Noted(s, "relinquish", "yielded")
    BY <1>5 DEF Requested
  <2> QED
    BY <1>5, <2>1 DEF Asked
<1>6. \/ \E what \in DOMAIN Current(g).papers : ~Asked(g, what) /\ m = <<"request_document", what>>
      \/ ~Asked(g, "id") /\ m = <<"verify_id", "id">>
      \/ m = <<"request_id", "id">>
      \/ ~Asked(g, "search") /\ m = <<"request", "search">>
      \/ ~Asked(g, "disclosure") /\ m = <<"request", "disclosure">>
      \/ ~Asked(g, "relinquish") /\ m = <<"request", "relinquish">>
  BY DEF Requests
<1>7. m # <<"request_id", "id">>
  OBVIOUS
<1>8. \E key : Good(key)
  <2> HIDE DEF Good
  <2> QED
    BY <1>1, <1>2, <1>3, <1>4, <1>5, <1>6, <1>7
<1> QED
  BY <1>8

\* The next candidate comes to a clean slate, or the shift is over.
LEMMA AdvancedSlate ==
  ASSUME NEW s, DOMAIN s = Keys, s.index # Len(s.cases)
  PROVE  LET t == Advanced(s) IN
         /\ t.index = s.index + 1 /\ t.cases = s.cases /\ t.inspected = {} /\ DOMAIN t.found = {} /\ t.reviewed = FALSE
<1> DEFINE t == Advanced(s)
           n == s.index + 1
           new == Arrived(s.cases[n])
           old == [s EXCEPT !.index = n]
<1>1. t = Over(new, old)
  BY DEF Advanced
<1>5. n = s.index + 1
  OBVIOUS
<1> HIDE DEF n
<1>2. DOMAIN new = Slate /\ new.inspected = {} /\ DOMAIN new.found = {} /\ new.reviewed = FALSE
  BY DEF Arrived, Slate, NoFindings
<1>3. DOMAIN old = Keys /\ old.index = n /\ old.cases = s.cases
  BY DEF Keys
<1> HIDE DEF t, new, old
<1>4. DOMAIN new \cup DOMAIN old = Keys
  BY <1>2, <1>3 DEF Keys, Slate
<1>6. t.index = n /\ t.cases = s.cases /\ t.inspected = {}
  BY <1>1, <1>2, <1>3, <1>4, SlateOver
<1>7. t.found = new.found
  <2> DEFINE x == "found"
  <2>1. x \in DOMAIN new
    BY <1>2 DEF Slate
  <2> HIDE DEF x
  <2>2. t[x] = new[x]
    BY <1>1, <2>1 DEF Over
  <2> QED
    BY <2>2 DEF x
<1>8. t.reviewed = new.reviewed
  <2> DEFINE x == "reviewed"
  <2>1. x \in DOMAIN new
    BY <1>2 DEF Slate
  <2> HIDE DEF x
  <2>2. t[x] = new[x]
    BY <1>1, <2>1 DEF Over
  <2> QED
    BY <2>2 DEF x
<1> QED
  BY <1>2, <1>5, <1>6, <1>7, <1>8 DEF t

LEMMA AdvancedOver ==
  ASSUME NEW s, DOMAIN s = Keys, s.index = Len(s.cases)
  PROVE  Advanced(s).complete = TRUE
<1> DEFINE t == Advanced(s)
           new == [Arrived(s.cases[s.index]) EXCEPT !.stage = "packet"]
           old == [s EXCEPT !.complete = TRUE]
           x == "complete"
<1>1. t = Over(new, old)
  BY DEF Advanced
<1>2. DOMAIN new = Slate
  BY ArrivedFields DEF Slate
<1>3. DOMAIN old = Keys /\ old.complete = TRUE
  BY DEF Keys
<1> HIDE DEF t, new, old
<1>4. x \in DOMAIN old \ DOMAIN new
  BY <1>2, <1>3 DEF Keys, Slate
<1>5. old[x] = TRUE
  BY <1>3
<1> HIDE DEF x
<1>6. t[x] = old[x]
  BY <1>1, <1>4 DEF Over
<1>7. t[x] = TRUE
  BY <1>5, <1>6
<1> QED
  BY <1>7 DEF t, x

\* A round of a shift that is not over after it did something about the candidate,
\* or the next one has come.
LEMMA CounterRound ==
  ASSUME NEW g, RosterGiven(g.c), ShiftFits(g.c, g.s), AtCounter(g.c, g.s), NEW m \in CheckpointMoves(g)
  PROVE  LET t == CheckpointRound(g, m).s IN
         \/ t.complete = TRUE
         \/ t.index = g.s.index /\ AtCounter(g.c, t) /\ Used(t) = Used(g.s) + 1
         \/ t.index = g.s.index + 1 /\ t.index \in DOMAIN g.c.roster /\ AtCounter(g.c, t) /\ Used(t) = 0
<1> DEFINE now == g.s.time + Cost(m)
           s == [g.s EXCEPT !.time = now]
           c == g.c
           i == g.s.index
           r == c.roster[i]
           t == CheckpointRound(g, m).s
<1>1. /\ i \in 1..Len(c.roster) /\ DOMAIN g.s = Keys /\ DOMAIN g.s.cases = 1..Len(c.roster)
      /\ DOMAIN c.roster = 1..Len(c.roster) /\ Len(c.roster) \in Nat /\ Len(g.s.cases) = Len(c.roster)
      /\ i \in DOMAIN c.roster /\ Current(g) = g.s.cases[i]
  BY DEF ShiftFits, RosterGiven, Current
<1>2. /\ Faces(r, g.s.cases[i]) /\ g.s.inspected \subseteq Showable(r) /\ DOMAIN g.s.found \subseteq Answerable(r)
      /\ g.s.reviewed \in BOOLEAN /\ \A j \in DOMAIN c.roster : j > i => g.s.cases[j] = c.roster[j]
  BY DEF AtCounter
<1>3. /\ DOMAIN s = Keys /\ s.index = i /\ s.cases = g.s.cases /\ s.inspected = g.s.inspected
      /\ s.found = g.s.found /\ s.reviewed = g.s.reviewed
  <2> HIDE DEF now
  <2> QED
    BY <1>1 DEF Keys
<1> HIDE DEF now
<1>4. ASSUME NEW u, u.index = i, u.cases = g.s.cases, OneStep(c, g.s, u)
      PROVE  AtCounter(c, u) /\ Used(u) = Used(g.s) + 1
  BY <1>1, <1>2, <1>4, StepUses
<1>5. CASE m \in Inspections(g)
  <2>1. PICK doc \in Current(g).docs \ g.s.inspected : m = <<"inspect", doc>>
    BY <1>5 DEF Inspections
  <2>5. m[1] = "inspect" /\ m[2] = doc
    BY <2>1
  <2>2. t = Inspected(g, s, doc)
    BY <2>5 DEF CheckpointRound, Outcome, now
  <2> HIDE DEF s, t
  <2>3. /\ t.index = i /\ t.cases = g.s.cases /\ t.inspected = g.s.inspected \cup {doc}
        /\ t.found = g.s.found /\ t.reviewed = g.s.reviewed
    BY <1>3, <2>2 DEF Inspected, Keys
  <2>4. OneStep(c, g.s, t)
    BY SMTT(30), <1>1, <1>2, <2>1, <2>3 DEF OneStep, Faces
  <2> QED
    BY <1>4, <2>3, <2>4 DEF t
<1>6. CASE m \in Reviews(g)
  <2>1. m = <<"review", "packet">> /\ ~g.s.reviewed
    BY <1>6 DEF Reviews
  <2> DEFINE u == [s EXCEPT !.reviewed = TRUE]
  <2>5. m[1] = "review"
    BY <2>1
  <2>2. t = u
    BY <2>5 DEF CheckpointRound, Outcome, now
  <2> HIDE DEF s, t
  <2>3. /\ u.index = i /\ u.cases = g.s.cases /\ u.inspected = g.s.inspected
        /\ u.found = g.s.found /\ u.reviewed = TRUE
    BY <1>3 DEF Keys
  <2> HIDE DEF u
  <2>4. OneStep(c, g.s, t)
    BY <2>1, <2>2, <2>3 DEF OneStep
  <2> QED
    BY <1>4, <2>2, <2>3, <2>4 DEF t
<1>7. CASE m \in Decisions(g)
  <2> DEFINE owed == s.penalty + Penalty(Expected(g), m[2]) + Taxed(g, m[2])
             tax == s.taxed + Taxed(g, m[2])
             u == [s EXCEPT !.penalty = owed, !.taxed = tax]
  <2>1. m[1] = "decide"
    BY <1>7 DEF Decisions
  <2>2. t = Advanced(u)
    BY <2>1 DEF CheckpointRound, Outcome, Decided, now
  <2> HIDE DEF s, owed, tax
  <2>3. DOMAIN u = Keys /\ u.index = i /\ u.cases = g.s.cases
    BY <1>3 DEF Keys
  <2> HIDE DEF u, t
  <2>4. CASE i = Len(c.roster)
    <3>1. Advanced(u).complete = TRUE
      BY <1>1, <2>3, <2>4, AdvancedOver
    <3> QED
      BY <2>2, <3>1 DEF t
  <2>5. CASE i # Len(c.roster)
    <3> DEFINE v == Advanced(u)
    <3>4. u.index # Len(u.cases)
      BY <1>1, <2>3, <2>5
    <3>5. /\ v.index = u.index + 1 /\ v.cases = u.cases /\ v.inspected = {} /\ DOMAIN v.found = {}
          /\ v.reviewed = FALSE
      BY <2>3, <3>4, AdvancedSlate
    <3> HIDE DEF v
    <3>6. t = v
      BY <2>2 DEF v
    <3>1. /\ t.index = i + 1 /\ t.cases = g.s.cases /\ t.inspected = {} /\ DOMAIN t.found = {} /\ t.reviewed = FALSE
      BY <2>3, <3>5, <3>6
    <3>2. t.index \in DOMAIN c.roster /\ \A j \in DOMAIN c.roster : j >= t.index => t.cases[j] = c.roster[j]
      BY <1>1, <1>2, <2>5, <3>1
    <3>3. AtCounter(c, t) /\ Used(t) = 0
      BY <3>1, <3>2, NextCandidate
    <3> QED
      BY <3>1, <3>2, <3>3 DEF t
  <2> QED
    BY <2>4, <2>5
<1>8. CASE m \in Requests(g)
  <2>1. m[1] \in {"request_document", "verify_id", "request_id", "request"}
    BY <1>8 DEF Requests
  <2>2. t = Requested(g, s, m)
    BY <2>1 DEF CheckpointRound, Outcome, now
  <2> HIDE DEF s, t
  <2>3. CASE m[1] = "request_id"
    <3>1. m = <<"request_id", "id">>
      BY <1>8, <2>3 DEF Requests
    <3>2. Requested(g, s, m) = IdRequested(g, s)
      BY <3>1 DEF Requested
    <3>3. Current(g).id = NoDoc /\ "id" \notin DOMAIN g.s.found
      BY <1>8, <2>3 DEF Requests, LacksId, Asked
    <3> DEFINE u == IdRequested(g, s)
    <3>4. /\ u.index = i /\ Faces(r, u.cases[i])
          /\ \A j \in DOMAIN c.roster : j > i => u.cases[j] = g.s.cases[j]
          /\ OneStep(c, g.s, u)
      BY <1>3, <3>3, IdStep
    <3> HIDE DEF u
    <3>5. AtCounter(c, u) /\ Used(u) = Used(g.s) + 1
      BY <1>1, <3>4, StepUses
    <3> QED
      BY <2>2, <3>2, <3>4, <3>5 DEF t, u
  <2>4. CASE m[1] # "request_id"
    <3>1. PICK key, finding :
            /\ Requested(g, s, m) = Noted(s, key, finding) /\ key \notin DOMAIN g.s.found
            /\ key \in DOMAIN Current(g).papers \cup {"id", "search", "disclosure", "relinquish"}
      BY <1>8, <2>4, RequestNotes
    <3> DEFINE known == Learned(g.s.found, key, finding)
               u == [s EXCEPT !.found = known]
    <3>2. t = u
      BY <1>3, <2>2, <3>1 DEF Noted
    <3>3. DOMAIN known = DOMAIN g.s.found \cup {key}
      BY DEF Learned
    <3> HIDE DEF known
    <3>4. /\ u.index = i /\ u.cases = g.s.cases /\ u.inspected = g.s.inspected
          /\ u.found = known /\ u.reviewed = g.s.reviewed
      BY <1>3 DEF Keys
    <3> HIDE DEF u
    <3>5. key \in Answerable(r)
      BY SMTT(30), <1>1, <1>2, <3>1 DEF Answerable, Faces
    <3>6. OneStep(c, g.s, u)
      BY <3>1, <3>3, <3>4, <3>5 DEF OneStep
    <3> QED
      BY <1>4, <3>2, <3>4, <3>6 DEF t
  <2> QED
    BY <2>3, <2>4
<1> QED
  BY <1>5, <1>6, <1>7, <1>8 DEF CheckpointMoves

\* A shift opens at the first candidate.
LEMMA CounterOpens ==
  ASSUME NEW c, RosterGiven(c)
  PROVE  LET s == ShiftOpening(c) IN s.index = 1 /\ 1 \in DOMAIN c.roster /\ AtCounter(c, s) /\ Used(s) = 0
<1> DEFINE old == [index |-> 1, cases |-> c.roster, time |-> 0, penalty |-> 0, taxed |-> 0, complete |-> FALSE]
           new == Arrived(c.roster[1])
           s == ShiftOpening(c)
<1>1. s = Over(new, old)
  BY DEF ShiftOpening
<1>2. DOMAIN old = {"index", "cases", "time", "penalty", "taxed", "complete"} /\ old.index = 1 /\ old.cases = c.roster
  OBVIOUS
<1>3. DOMAIN new = Slate /\ new.inspected = {} /\ DOMAIN new.found = {} /\ new.reviewed = FALSE
  BY DEF Arrived, Slate, NoFindings
<1> HIDE DEF old, new, s
<1>4. DOMAIN new \cup DOMAIN old = Keys
  BY <1>2, <1>3 DEF Keys, Slate
<1>5. s.index = 1 /\ s.cases = c.roster /\ s.inspected = {}
  BY <1>1, <1>2, <1>3, <1>4, SlateOver
<1>6. DOMAIN s.found = {}
  <2> DEFINE x == "found"
  <2>1. x \in DOMAIN new
    BY <1>3 DEF Slate
  <2> HIDE DEF x
  <2>2. s[x] = new[x]
    BY <1>1, <2>1 DEF Over
  <2>3. s.found = new.found
    BY <2>2 DEF x
  <2> QED
    BY <1>3, <2>3
<1>7. s.reviewed = FALSE
  <2> DEFINE x == "reviewed"
  <2>1. x \in DOMAIN new
    BY <1>3 DEF Slate
  <2> HIDE DEF x
  <2>2. s[x] = new[x]
    BY <1>1, <2>1 DEF Over
  <2>3. s.reviewed = new.reviewed
    BY <2>2 DEF x
  <2> QED
    BY <1>3, <2>3
<1>8. 1 \in DOMAIN c.roster
  <2>1. Len(c.roster) \in Nat /\ Len(c.roster) # 0 /\ DOMAIN c.roster = 1..Len(c.roster)
    BY DEF RosterGiven
  <2> QED
    BY <2>1
<1>9. AtCounter(c, s) /\ Used(s) = 0
  BY <1>5, <1>6, <1>7, <1>8, NextCandidate
<1> QED
  BY <1>5, <1>8, <1>9 DEF s

-------------------------------------------------------------------------------
(* What a checkpoint holds against a candidate.                                 *)

\* A candidate whose guilt nothing excuses is to be arrested.
LEMMA DamningArrests ==
  ASSUME NEW rules, NEW p, NEW found, Damning(rules, p)
  PROVE  Disposition(rules, p, found) = "arrest"
<1> DEFINE level == PurposeLevel(rules, p)
<1> SUFFICES Criminal(Defects(rules, p, found))
  BY DEF Disposition, Criminal
<1>0. "criminal" \in Crimes /\ "forged" \in Crimes /\ "mismatch" \in Crimes
  BY DEF Crimes
<1>1. CASE level = "criminal"
  <2>1. Criminal(PurposeDefects(rules, p, found))
    BY <1>1, PurposeWeighs
  <2> QED
    BY <2>1 DEF Criminal, Defects
<1>2. ASSUME NEW what \in p.open \cup p.concealed, GoodsLevel(rules, what) = "criminal"
      PROVE  Criminal(Defects(rules, p, found))
  <2>1. /\ DeclaredDefects(rules, p, what, found) = {<<"criminal", Nowhere>>}
        /\ HiddenDefects(rules, p, what, found) = {<<"criminal", Nowhere>>}
    BY <1>2 DEF DeclaredDefects, HiddenDefects, ConcealedDefects
  <2>2. <<"criminal", Nowhere>> \in Defects(rules, p, found)
    BY <2>1 DEF Defects
  <2> QED
    BY <1>0, <2>2 DEF Criminal
<1>3. CASE p.id.status = "forged"
  <2>1. <<"forged", "id">> \in Defects(rules, p, found)
    BY <1>3 DEF Defects, Forgeries
  <2> QED
    BY <1>0, <2>1 DEF Criminal
<1>4. ASSUME NEW what \in DOMAIN p.papers, p.papers[what].status = "forged"
      PROVE  Criminal(Defects(rules, p, found))
  <2>1. <<"forged", what>> \in Defects(rules, p, found)
    BY <1>4 DEF Defects, Forgeries
  <2> QED
    BY <1>0, <2>1 DEF Criminal
<1>5. CASE NeedsId(level) /\ p.id.holder \notin {"bearer", Nowhere}
  <2>1. p.id # NoDoc
    BY <1>5 DEF NoDoc, Nowhere
  <2>2. IdFlaw(p, found) \in Crimes
    BY <1>0, <1>5, <2>1 DEF IdFlaw, Flaw, Nowhere
  <2>3. Criminal(PurposeDefects(rules, p, found))
    BY <1>5, <2>2, PurposeWeighs
  <2> QED
    BY <2>3 DEF Criminal, Defects
<1> QED
  BY <1>1, <1>2, <1>3, <1>4, <1>5 DEF Damning

\* A flaw that is a crime is one whatever was found out since, unless the id was
\* not on the table before.
LEMMA CrimesStay ==
  ASSUME NEW r, NEW p, p.papers = r.papers, p.id = r.id \/ r.id = NoDoc, NEW before, NEW after, NEW what
  PROVE  /\ PaperFlaw(r, what, before) \in Crimes => PaperFlaw(p, what, after) \in Crimes
         /\ IdFlaw(r, before) \in Crimes => IdFlaw(p, after) \in Crimes
<1>0. "forged" \in Crimes /\ "mismatch" \in Crimes /\ "missing" \notin Crimes /\ "none" \notin Crimes /\ "invalid" \notin Crimes
  BY DEF Crimes
<1>1. Paper(p, what) = Paper(r, what)
  BY DEF Paper
<1>2. \A doc, expected, mended :
        Flaw(doc, expected, mended) \in Crimes <=>
          doc # NoDoc /\ (doc.status = "forged" \/ (expected # Nowhere /\ doc.holder # expected))
  BY <1>0 DEF Flaw
<1>3. r.id = NoDoc => r.id.holder = Nowhere
  BY DEF NoDoc, Nowhere
<1> QED
  BY <1>1, <1>2, <1>3 DEF PaperFlaw, IdFlaw

\* Who was to be arrested is denied at least, and for what was concealed, unless
\* goods were declared or given up.
LEMMA NobodyWalks ==
  ASSUME NEW rules, NEW r, NEW p, p.purpose = r.purpose, p.open = r.open, p.concealed = r.concealed,
         p.papers = r.papers, p.id = r.id \/ r.id = NoDoc, NEW found, ~Disclosed(found), ~Yielded(found),
         Disposition(rules, r, NoFindings) = "arrest", Disposition(rules, p, found) # "arrest"
  PROVE  p.concealed # {} /\ Disposition(rules, p, found) = "deny"
<1> DEFINE was == Defects(rules, r, NoFindings)
           now == Defects(rules, p, found)
           level == PurposeLevel(rules, r)
<1>0. ~Disclosed(NoFindings) /\ ~Yielded(NoFindings)
  BY DEF Disclosed, Yielded, Found, NoFindings, Nowhere
<1>1. Criminal(was) /\ ~Criminal(now)
  BY DEF Disposition, Criminal
<1>2. \A lv, what : Criminal(Unmet(lv, r, what, NoFindings)) => Criminal(Unmet(lv, p, what, found))
  BY CrimesStay, UnmetWeighs
<1>3. Criminal(PurposeDefects(rules, r, NoFindings)) => Criminal(now)
  <2>1. PurposeLevel(rules, p) = level
    BY DEF PurposeLevel
  <2>2. Criminal(PurposeDefects(rules, r, NoFindings)) => Criminal(PurposeDefects(rules, p, found))
    BY <2>1, CrimesStay, PurposeWeighs
  <2> QED
    BY <2>2 DEF Criminal, Defects
<1>4. ASSUME NEW what \in r.open, Criminal(DeclaredDefects(rules, r, what, NoFindings)) PROVE Criminal(now)
  <2>1. Criminal(DeclaredDefects(rules, p, what, found))
    BY <1>0, <1>2, <1>4 DEF DeclaredDefects
  <2> QED
    BY <2>1 DEF Criminal, Defects
<1>5. Criminal(Forgeries(r)) => Criminal(now)
  <2>1. Forgeries(r) \subseteq Forgeries(p)
    BY DEF Forgeries, NoDoc
  <2> QED
    BY <2>1 DEF Criminal, Defects
<1>6. PICK what \in r.concealed : TRUE
  <2>1. \/ Criminal(PurposeDefects(rules, r, NoFindings)) \/ Criminal(Forgeries(r))
        \/ \E what \in r.open : Criminal(DeclaredDefects(rules, r, what, NoFindings))
        \/ \E what \in r.concealed : Criminal(HiddenDefects(rules, r, what, NoFindings))
    BY <1>1 DEF Criminal, Defects
  <2> HIDE DEF was, now
  <2> QED
    BY <1>1, <1>3, <1>4, <1>5, <2>1
<1>7. HiddenDefects(rules, p, what, found) # {}
  BY DEF HiddenDefects, ConcealedDefects
<1>8. now # {}
  BY <1>6, <1>7 DEF Defects
<1> QED
  BY <1>1, <1>6, <1>8 DEF Disposition, Criminal

-------------------------------------------------------------------------------
(* What is found out of a candidate is true of the packet that came, as long as *)
(* no id was handed over.                                                       *)
Alike(r, p) ==
  /\ {"purpose", "concealed", "papers", "open"} \subseteq DOMAIN p /\ p.purpose = r.purpose
  /\ p.concealed = r.concealed /\ p.papers = r.papers /\ p.open = r.open
HandedOver(found) == Found(found, "id") = "cleared"

IdAnswers(rules, r, found) ==
  "id" \in DOMAIN found =>
    IF r.id = NoDoc THEN NeedsId(PurposeLevel(rules, r)) /\ found["id"] \in {"cleared", "refused"}
    ELSE /\ found["id"] \in {"confirmed", "verified"}
         /\ r.open \cup r.concealed = {} =>
              (found["id"] = "confirmed" <=> NeedsId(PurposeLevel(rules, r)) /\ IdFlaw(r, NoFindings) = "mismatch")
GoodsAnswers(r, found) ==
  /\ "search" \in DOMAIN found => found["search"] = IF r.concealed # {} THEN "confirmed" ELSE "cleared"
  /\ "disclosure" \in DOMAIN found => found["disclosure"] \in {"declared", "too_late"}
  /\ "relinquish" \in DOMAIN found => found["relinquish"] = "yielded" /\ r.open \cup r.concealed # {}
PaperAnswers(r, found) ==
  \A what \in DOMAIN r.papers \cap DOMAIN found :
    /\ found[what] \in {"verified", "confirmed", "cleared"}
    /\ found[what] = "verified" <=> PaperFlaw(r, what, NoFindings) = "none"

Truly(c, s) ==
  LET r == c.roster[s.index]
      p == s.cases[s.index]
  IN /\ Alike(r, p) /\ IdAnswers(c.rules, r, s.found) /\ GoodsAnswers(r, s.found)
     /\ ~HandedOver(s.found) =>
          p = r /\ PaperAnswers(r, s.found) /\ s.revealed = s.inspected \cap r.facts /\ (s.reviewed => r.clue)

(* What a move does that does not end the shift: a document is inspected, the   *)
(* packet reviewed, an answer noted, an id handed over, the next one called.    *)
Replied(g, key, answer) ==
  LET p == Current(g) IN
  \/ /\ key \in DOMAIN p.papers
     /\ answer = CASE PaperFlaw(p, key, g.s.found) \in Crimes -> "confirmed"
                   [] PaperFlaw(p, key, g.s.found) = "none" -> "verified" [] OTHER -> "cleared"
  \/ /\ key = "id" /\ p.id # NoDoc
     /\ answer = IF <<"mismatch", "id">> \in Defects(g.c.rules, p, g.s.found) THEN "confirmed" ELSE "verified"
  \/ key = "id" /\ LacksId(g) /\ answer = "refused"
  \/ key = "search" /\ answer = IF p.concealed # {} THEN "confirmed" ELSE "cleared"
  \/ /\ key = "disclosure"
     /\ answer = IF p.concealed # {} /\ Found(g.s.found, "search") = "confirmed" THEN "too_late" ELSE "declared"
  \/ key = "relinquish" /\ SomethingDeclared(g) /\ answer = "yielded"

Alone(g, t) == t.index = g.s.index /\ t.cases = g.s.cases
Looks(g, t) ==
  /\ Alone(g, t) /\ t.found = g.s.found /\ t.reviewed = g.s.reviewed
  /\ \E doc : /\ t.inspected = g.s.inspected \cup {doc}
              /\ t.revealed = IF doc \in Current(g).facts THEN g.s.revealed \cup {doc} ELSE g.s.revealed
LooksAgain(g, t) ==
  /\ Alone(g, t) /\ t.found = g.s.found /\ t.inspected = g.s.inspected /\ t.revealed = g.s.revealed
  /\ Current(g).clue /\ t.reviewed = TRUE
Asks(g, t) ==
  /\ Alone(g, t) /\ t.inspected = g.s.inspected /\ t.revealed = g.s.revealed /\ t.reviewed = g.s.reviewed
  /\ \E key, answer : key \notin DOMAIN g.s.found /\ Replied(g, key, answer) /\ t.found = Learned(g.s.found, key, answer)
TakesId(g, t) ==
  /\ t.index = g.s.index /\ LacksId(g) /\ "id" \notin DOMAIN g.s.found /\ t.found = Learned(g.s.found, "id", "cleared")
  /\ Current(g).hidden # NoDoc /\ t.cases[t.index].id = Current(g).hidden /\ Alike(Current(g), t.cases[t.index])
CallsNext(g, t) ==
  /\ t.index = g.s.index + 1 /\ t.index \in DOMAIN g.c.roster /\ t.cases = g.s.cases
  /\ t.inspected = {} /\ t.revealed = {} /\ t.reviewed = FALSE /\ t.found = NoFindings

Deeds(g, t) == Looks(g, t) \/ LooksAgain(g, t) \/ Asks(g, t) \/ TakesId(g, t) \/ CallsNext(g, t)

\* The answer to a request that is not for a missing id.
LEMMA RequestReplies ==
  ASSUME NEW g, NEW m \in Requests(g), m[1] # "request_id", NEW s
  PROVE  \E key, answer : /\ Requested(g, s, m) = Noted(s, key, answer)
                          /\ key \notin DOMAIN g.s.found /\ Replied(g, key, answer)
<1> DEFINE p == Current(g)
           Good(key, answer) == /\ Requested(g, s, m) = Noted(s, key, answer)
                                /\ key \notin DOMAIN g.s.found /\ Replied(g, key, answer)
<1>1. ASSUME NEW what \in DOMAIN p.papers, ~Asked(g, what), m = <<"request_document", what>>
      PROVE  \E key, answer : Good(key, answer)
  <2> DEFINE a == CASE PaperFlaw(p, what, g.s.found) \in Crimes -> "confirmed"
                    [] PaperFlaw(p, what, g.s.found) = "none" -> "verified" [] OTHER -> "cleared"
  <2>1. Requested(g, s, m) = DocumentAsked(g, s, what)
    BY <1>1 DEF Requested
  <2>2. DocumentAsked(g, s, what) = Noted(s, what, a)
    BY DEF DocumentAsked
  <2>3. Replied(g, what, a)
    BY DEF Replied
  <2> HIDE DEF a
  <2> QED
    BY <1>1, <2>1, <2>2, <2>3 DEF Asked
<1>2. ASSUME ~Asked(g, "id"), p.id # NoDoc, m = <<"verify_id", "id">>
      PROVE  \E key, answer : Good(key, answer)
  <2> DEFINE a == IF <<"mismatch", "id">> \in Defects(g.c.rules, p, g.s.found) THEN "confirmed" ELSE "verified"
  <2>1. Requested(g, s, m) = IdVerified(g, s)
    BY <1>2 DEF Requested
  <2>2. IdVerified(g, s) = Noted(s, "id", a)
    BY DEF IdVerified
  <2>3. Replied(g, "id", a)
    BY <1>2 DEF Replied
  <2> HIDE DEF a
  <2> QED
    BY <1>2, <2>1, <2>2, <2>3 DEF Asked
<1>3. ASSUME ~Asked(g, "search"), m = <<"request", "search">>
      PROVE  \E key, answer : Good(key, answer)
  <2> DEFINE a == IF p.concealed # {} THEN "confirmed" ELSE "cleared"
  <2>1. Requested(g, s, m) = Searched(g, s)
    BY <1>3 DEF Requested
  <2>2. Searched(g, s) = Noted(s, "search", a)
    BY DEF Searched
  <2>3. Replied(g, "search", a)
    BY DEF Replied
  <2> HIDE DEF a
  <2> QED
    BY <1>3, <2>1, <2>2, <2>3 DEF Asked
<1>4. ASSUME ~Asked(g, "disclosure"), m = <<"request", "disclosure">>
      PROVE  \E key, answer : Good(key, answer)
  <2> DEFINE a == IF p.concealed # {} /\ Found(g.s.found, "search") = "confirmed" THEN "too_late" ELSE "declared"
  <2>1. Requested(g, s, m) = DisclosureAsked(g, s)
    BY <1>4 DEF Requested
  <2>2. DisclosureAsked(g, s) = Noted(s, "disclosure", a)
    BY DEF DisclosureAsked
  <2>3. Replied(g, "disclosure", a)
    BY DEF Replied
  <2> HIDE DEF a
  <2> QED
    BY <1>4, <2>1, <2>2, <2>3 DEF Asked
<1>5. ASSUME ~Asked(g, "relinquish"), SomethingDeclared(g), m = <<"request", "relinquish">>
      PROVE  \E key, answer : Good(key, answer)
  <2>1. Requested(g, s, m) = Noted(s, "relinquish", "yielded")
    BY <1>5 DEF Requested
  <2>2. Replied(g, "relinquish", "yielded")
    BY <1>5 DEF Replied
  <2> QED
    BY <1>5, <2>1, <2>2 DEF Asked
<1>6. \/ \E what \in DOMAIN p.papers : ~Asked(g, what) /\ m = <<"request_document", what>>
      \/ ~Asked(g, "id") /\ p.id # NoDoc /\ m = <<"verify_id", "id">>
      \/ m = <<"request_id", "id">>
      \/ ~Asked(g, "search") /\ m = <<"request", "search">>
      \/ ~Asked(g, "disclosure") /\ m = <<"request", "disclosure">>
      \/ ~Asked(g, "relinquish") /\ SomethingDeclared(g) /\ m = <<"request", "relinquish">>
  BY DEF Requests
<1>7. m # <<"request_id", "id">>
  OBVIOUS
<1>8. \E key, answer : Good(key, answer)
  <2> HIDE DEF Good, p
  <2> QED
    BY <1>1, <1>2, <1>3, <1>4, <1>5, <1>6, <1>7
<1> QED
  BY <1>8

\* A clean slate is empty.
LEMMA SlateIsClean ==
  ASSUME NEW s, DOMAIN s = Keys, s.index # Len(s.cases)
  PROVE  LET t == Advanced(s) IN t.found = NoFindings /\ t.revealed = {}
<1> DEFINE t == Advanced(s)
           n == s.index + 1
           new == Arrived(s.cases[n])
           old == [s EXCEPT !.index = n]
<1>1. t = Over(new, old)
  BY DEF Advanced
<1>2. {"found", "revealed"} \subseteq DOMAIN new /\ new.found = NoFindings /\ new.revealed = {}
  BY DEF Arrived
<1> HIDE DEF t, new, old
<1>3. \A x \in DOMAIN new : t[x] = new[x]
  BY <1>1 DEF Over
<1> QED
  BY <1>2, <1>3 DEF t

\* The end of a shift keeps the last candidate in place.
LEMMA LastStays ==
  ASSUME NEW s, DOMAIN s = Keys, s.index = Len(s.cases)
  PROVE  Advanced(s).index = s.index
<1> DEFINE t == Advanced(s)
           new == [Arrived(s.cases[s.index]) EXCEPT !.stage = "packet"]
           old == [s EXCEPT !.complete = TRUE]
<1>1. t = Over(new, old)
  BY DEF Advanced
<1>2. DOMAIN new = Slate
  BY ArrivedFields DEF Slate
<1>3. DOMAIN old = Keys /\ old.index = s.index
  BY DEF Keys
<1> HIDE DEF t, new, old
<1>5. "index" \in DOMAIN old \ DOMAIN new
  BY <1>2, <1>3 DEF Keys, Slate
<1>4. \A x \in DOMAIN old \ DOMAIN new : t[x] = old[x]
  BY <1>1 DEF Over
<1> QED
  BY <1>3, <1>4, <1>5 DEF t

\* A candidate that is asked for a missing id hands it over, or refuses to.
LEMMA IdIsAsked ==
  ASSUME NEW g, RosterGiven(g.c), ShiftFits(g.c, g.s), Alike(g.c.roster[g.s.index], Current(g)), LacksId(g),
         "id" \notin DOMAIN g.s.found, NEW s, DOMAIN s = Keys, s.index = g.s.index, s.cases = g.s.cases,
         s.inspected = g.s.inspected, s.found = g.s.found, s.revealed = g.s.revealed, s.reviewed = g.s.reviewed
  PROVE  LET t == IdRequested(g, s) IN Asks(g, t) \/ TakesId(g, t)
<1> DEFINE p == Current(g)
           given == [p EXCEPT !.id = p.hidden, !.hidden = NoDoc]
           after == Noted(s, "id", "cleared")
           shown == Rendered(g.c.rules, given, after.found)
           i == s.index
           t == IdRequested(g, s)
<1>1. /\ i \in 1..Len(g.c.roster) /\ p = s.cases[i] /\ DOMAIN s.cases = 1..Len(g.c.roster)
      /\ {"id", "hidden", "docs"} \subseteq DOMAIN p
  BY DEF ShiftFits, Current
<1>2. \A finding : LET n == Noted(s, "id", finding) IN
        /\ DOMAIN n = Keys /\ n.index = i /\ n.cases = s.cases /\ n.inspected = s.inspected
        /\ n.revealed = s.revealed /\ n.reviewed = s.reviewed /\ n.found = Learned(s.found, "id", finding)
  <2> SUFFICES ASSUME NEW finding
               PROVE  LET n == Noted(s, "id", finding) IN
                      /\ DOMAIN n = Keys /\ n.index = i /\ n.cases = s.cases /\ n.inspected = s.inspected
                      /\ n.revealed = s.revealed /\ n.reviewed = s.reviewed /\ n.found = Learned(s.found, "id", finding)
    OBVIOUS
  <2> DEFINE known == Learned(s.found, "id", finding)
             n == [s EXCEPT !.found = known]
  <2>1. Noted(s, "id", finding) = n
    BY Zenon DEF Noted
  <2> HIDE DEF known
  <2>2. /\ DOMAIN n = Keys /\ n.index = i /\ n.cases = s.cases /\ n.inspected = s.inspected
        /\ n.revealed = s.revealed /\ n.reviewed = s.reviewed /\ n.found = known
    BY DEF Keys
  <2> QED
    BY <2>1, <2>2 DEF known
<1>3. CASE p.complies /\ p.hidden # NoDoc
  <2> DEFINE u == [after EXCEPT !.cases[i] = shown]
             cases == [s.cases EXCEPT ![i] = shown]
  <2>1. t = u
    BY <1>3 DEF IdRequested
  <2>2. DOMAIN after = Keys /\ after.index = i /\ after.cases = s.cases /\ after.found = Learned(s.found, "id", "cleared")
    BY <1>2
  <2>3. /\ given.id = p.hidden /\ given.papers = p.papers /\ given.open = p.open
        /\ given.purpose = p.purpose /\ given.concealed = p.concealed
        /\ {"id", "purpose", "concealed", "papers", "open"} \subseteq DOMAIN given
    BY <1>1 DEF Alike
  <2>4. p.hidden # NoDoc
    BY <1>3
  <2> HIDE DEF p, given, after
  <2>5. shown.id = given.id /\ Alike(given, shown)
    <3> DEFINE new == [docs |-> Documents(given), facts |-> Facts(g.c.rules, given, after.found),
                       clue |-> Facts(g.c.rules, given, after.found) # {}]
    <3>1. shown = Over(new, given)
      BY DEF Rendered
    <3>2. DOMAIN new = {"docs", "facts", "clue"}
      OBVIOUS
    <3> HIDE DEF new, shown
    <3>3. {"id", "purpose", "concealed", "papers", "open"} \subseteq DOMAIN given \ DOMAIN new
      BY <2>3, <3>2
    <3>4. \A x \in DOMAIN given \ DOMAIN new : shown[x] = given[x]
      BY <3>1 DEF Over
    <3>5. DOMAIN shown = DOMAIN new \cup DOMAIN given
      BY <3>1, OverFields
    <3> QED
      BY <2>3, <3>3, <3>4, <3>5 DEF Alike
  <2> HIDE DEF shown
  <2>6. u.cases = cases /\ u.index = i /\ u.found = after.found
    BY <2>2 DEF Keys
  <2>7. cases[i] = shown
    BY <1>1
  <2> HIDE DEF u, cases, t
  <2>8. Alike(p, shown)
    BY <2>3, <2>5 DEF Alike
  <2> QED
    BY <2>1, <2>2, <2>3, <2>4, <2>5, <2>6, <2>7, <2>8 DEF TakesId, t, p
<1>4. CASE ~(p.complies /\ p.hidden # NoDoc)
  <2>1. t = Noted(s, "id", "refused")
    BY <1>4 DEF IdRequested
  <2>2. /\ t.index = i /\ t.cases = s.cases /\ t.inspected = s.inspected /\ t.revealed = s.revealed
        /\ t.reviewed = s.reviewed /\ t.found = Learned(s.found, "id", "refused")
    BY <1>2, <2>1
  <2>3. Replied(g, "id", "refused")
    BY DEF Replied
  <2> HIDE DEF t
  <2> QED
    BY <2>2, <2>3 DEF Asks, Alone, t
<1> QED
  BY <1>3, <1>4

\* A round ends the shift or does one of these.
LEMMA RoundDeeds ==
  ASSUME NEW g, RosterGiven(g.c), ShiftFits(g.c, g.s), Alike(g.c.roster[g.s.index], Current(g)), NEW m \in CheckpointMoves(g)
  PROVE  LET t == CheckpointRound(g, m).s IN (t.complete = TRUE /\ t.index = g.s.index) \/ Deeds(g, t)
<1> DEFINE now == g.s.time + Cost(m)
           s == [g.s EXCEPT !.time = now]
           i == g.s.index
           t == CheckpointRound(g, m).s
<1>1. /\ i \in 1..Len(g.c.roster) /\ DOMAIN g.s = Keys /\ DOMAIN g.c.roster = 1..Len(g.c.roster)
      /\ Len(g.c.roster) \in Nat /\ Len(g.s.cases) = Len(g.c.roster)
  BY DEF ShiftFits, RosterGiven
<1>2. /\ DOMAIN s = Keys /\ s.index = i /\ s.cases = g.s.cases /\ s.inspected = g.s.inspected
      /\ s.found = g.s.found /\ s.revealed = g.s.revealed /\ s.reviewed = g.s.reviewed
  <2> HIDE DEF now
  <2> QED
    BY <1>1 DEF Keys
<1> HIDE DEF now
<1>3. CASE m \in Inspections(g)
  <2>1. PICK doc \in Current(g).docs \ g.s.inspected : m = <<"inspect", doc>>
    BY <1>3 DEF Inspections
  <2>2. m[1] = "inspect" /\ m[2] = doc
    BY <2>1
  <2>3. t = Inspected(g, s, doc)
    BY <2>2 DEF CheckpointRound, Outcome, now
  <2> HIDE DEF s, t
  <2>4. /\ t.index = i /\ t.cases = g.s.cases /\ t.inspected = g.s.inspected \cup {doc}
        /\ t.found = g.s.found /\ t.reviewed = g.s.reviewed
    BY <1>2, <2>3 DEF Inspected, Keys
  <2>5. t.revealed = IF doc \in Current(g).facts THEN g.s.revealed \cup {doc} ELSE g.s.revealed
    BY <1>2, <2>3 DEF Inspected, Keys
  <2>6. Looks(g, t)
    BY <2>4, <2>5 DEF Looks, Alone
  <2> QED
    BY <2>6 DEF t, Deeds
<1>4. CASE m \in Reviews(g)
  <2>1. m = <<"review", "packet">> /\ Current(g).clue
    BY <1>4 DEF Reviews
  <2> DEFINE u == [s EXCEPT !.reviewed = TRUE]
  <2>2. m[1] = "review"
    BY <2>1
  <2>3. t = u
    BY <2>2 DEF CheckpointRound, Outcome, now
  <2> HIDE DEF s, t
  <2>4. /\ u.index = i /\ u.cases = g.s.cases /\ u.inspected = g.s.inspected /\ u.found = g.s.found
        /\ u.revealed = g.s.revealed /\ u.reviewed = TRUE
    BY <1>2 DEF Keys
  <2> HIDE DEF u
  <2>5. LooksAgain(g, t)
    BY <2>1, <2>3, <2>4 DEF LooksAgain, Alone
  <2> QED
    BY <2>5 DEF t, Deeds
<1>5. CASE m \in Decisions(g)
  <2> DEFINE owed == s.penalty + Penalty(Expected(g), m[2]) + Taxed(g, m[2])
             tax == s.taxed + Taxed(g, m[2])
             u == [s EXCEPT !.penalty = owed, !.taxed = tax]
  <2>1. m[1] = "decide"
    BY <1>5 DEF Decisions
  <2>2. t = Advanced(u)
    BY <2>1 DEF CheckpointRound, Outcome, Decided, now
  <2> HIDE DEF s, owed, tax
  <2>3. DOMAIN u = Keys /\ u.index = i /\ u.cases = g.s.cases
    BY <1>2 DEF Keys
  <2> HIDE DEF u, t
  <2>4. CASE i = Len(g.c.roster)
    <3>1. u.index = Len(u.cases)
      BY <1>1, <2>3, <2>4
    <3>2. Advanced(u).complete = TRUE /\ Advanced(u).index = i
      BY <2>3, <3>1, AdvancedOver, LastStays
    <3> QED
      BY <2>2, <3>2 DEF t
  <2>5. CASE i # Len(g.c.roster)
    <3> DEFINE v == Advanced(u)
    <3>1. u.index # Len(u.cases)
      BY <1>1, <2>3, <2>5
    <3>2. /\ v.index = u.index + 1 /\ v.cases = u.cases /\ v.inspected = {} /\ v.reviewed = FALSE
      BY <2>3, <3>1, AdvancedSlate
    <3>3. v.found = NoFindings /\ v.revealed = {}
      BY <2>3, <3>1, SlateIsClean
    <3> HIDE DEF v
    <3>4. i + 1 \in DOMAIN g.c.roster
      BY <1>1, <2>5
    <3>5. CallsNext(g, v)
      BY <2>3, <3>2, <3>3, <3>4 DEF CallsNext
    <3> QED
      BY <2>2, <3>5 DEF Deeds, t, v
  <2> QED
    BY <2>4, <2>5
<1>6. CASE m \in Requests(g)
  <2>1. m[1] \in {"request_document", "verify_id", "request_id", "request"}
    BY <1>6 DEF Requests
  <2>2. t = Requested(g, s, m)
    BY <2>1 DEF CheckpointRound, Outcome, now
  <2> HIDE DEF s, t
  <2>3. CASE m[1] = "request_id"
    <3>1. m = <<"request_id", "id">>
      BY <1>6, <2>3 DEF Requests
    <3>2. Requested(g, s, m) = IdRequested(g, s)
      BY <3>1 DEF Requested
    <3>3. LacksId(g) /\ "id" \notin DOMAIN g.s.found
      BY <1>6, <2>3 DEF Requests, Asked
    <3>4. Asks(g, t) \/ TakesId(g, t)
      BY <1>2, <2>2, <3>2, <3>3, IdIsAsked
    <3> QED
      BY <3>4 DEF Deeds, t
  <2>4. CASE m[1] # "request_id"
    <3>1. PICK key, answer : /\ Requested(g, s, m) = Noted(s, key, answer)
                             /\ key \notin DOMAIN g.s.found /\ Replied(g, key, answer)
      BY <1>6, <2>4, RequestReplies
    <3> DEFINE known == Learned(g.s.found, key, answer)
               u == [s EXCEPT !.found = known]
    <3>2. t = u
      BY <1>2, <2>2, <3>1 DEF Noted
    <3> HIDE DEF known
    <3>3. /\ u.index = i /\ u.cases = g.s.cases /\ u.inspected = g.s.inspected
          /\ u.found = known /\ u.revealed = g.s.revealed /\ u.reviewed = g.s.reviewed
      BY <1>2 DEF Keys
    <3> HIDE DEF u
    <3>4. Asks(g, t)
      BY <3>1, <3>2, <3>3 DEF Asks, Alone, known
    <3> QED
      BY <3>4 DEF Deeds, t
  <2> QED
    BY <2>3, <2>4
<1> QED
  BY <1>3, <1>4, <1>5, <1>6 DEF CheckpointMoves

\* Somebody who carries nothing is known to have somebody else's id exactly when
\* the rules ask for one.
LEMMA MismatchShows ==
  ASSUME NEW rules, NEW p, p.open \cup p.concealed = {}, p.purpose # "id", NEW found
  PROVE  <<"mismatch", "id">> \in Defects(rules, p, found)
           <=> NeedsId(PurposeLevel(rules, p)) /\ IdFlaw(p, NoFindings) = "mismatch"
<1> DEFINE level == PurposeLevel(rules, p)
           pair == <<"mismatch", "id">>
<1>1. Defects(rules, p, found) = PurposeDefects(rules, p, found) \cup Forgeries(p)
  <2>1. p.open = {} /\ p.concealed = {}
    OBVIOUS
  <2> QED
    BY <2>1 DEF Defects
<1>2. pair \notin Forgeries(p)
  BY DEF Forgeries
<1>3. IdFlaw(p, found) = "mismatch" <=> IdFlaw(p, NoFindings) = "mismatch"
  BY DEF IdFlaw, Flaw
<1>4. pair \in Unmet(level, p, p.purpose, found) <=> NeedsId(level) /\ IdFlaw(p, found) = "mismatch"
  BY DEF Unmet
<1>5. pair \in PurposeDefects(rules, p, found) <=> NeedsId(level) /\ IdFlaw(p, found) = "mismatch"
  BY <1>4 DEF PurposeDefects, NeedsId
<1> QED
  BY <1>1, <1>2, <1>3, <1>5

\* Of a candidate that has just come nothing is known.
LEMMA NothingKnown ==
  ASSUME NEW c, RosterGiven(c), NEW s, s.index \in DOMAIN c.roster, s.cases[s.index] = c.roster[s.index],
         s.inspected = {}, s.revealed = {}, s.reviewed = FALSE, s.found = NoFindings
  PROVE  Truly(c, s)
<1>1. DOMAIN s.found = {}
  BY DEF NoFindings
<1>2. Alike(c.roster[s.index], c.roster[s.index])
  BY DEF RosterGiven, Alike
<1> QED
  BY <1>1, <1>2 DEF Truly, IdAnswers, GoodsAnswers, PaperAnswers

\* What is asked for is answered truly.
LEMMA AnswersAreTrue ==
  ASSUME NEW g, NEW r, r = g.c.roster[g.s.index], Truly(g.c, g.s),
         RequestKeys \cap (DOMAIN r.papers \cup r.open \cup r.concealed \cup {r.purpose}) = {},
         NEW key, key \notin DOMAIN g.s.found, NEW answer, Replied(g, key, answer)
  PROVE  LET later == Learned(g.s.found, key, answer) IN
         /\ IdAnswers(g.c.rules, r, later) /\ GoodsAnswers(r, later)
         /\ ~HandedOver(later) => ~HandedOver(g.s.found) /\ PaperAnswers(r, later)
<1> DEFINE found == g.s.found
           later == Learned(found, key, answer)
           p == Current(g)
           rules == g.c.rules
<1>0. later = Learned(found, key, answer) /\ key \notin DOMAIN found
  OBVIOUS
<1> HIDE DEF found, later
<1>1. /\ DOMAIN later = DOMAIN found \cup {key} /\ later[key] = answer /\ Found(later, key) = answer
      /\ Found(found, key) = Nowhere
      /\ \A other : other # key => /\ other \in DOMAIN later <=> other \in DOMAIN found
                                   /\ other \in DOMAIN found => later[other] = found[other]
                                   /\ Found(later, other) = Found(found, other)
  BY <1>0 DEF Learned, Found
<1>2. /\ p.purpose = r.purpose /\ p.concealed = r.concealed /\ p.papers = r.papers /\ p.open = r.open
      /\ IdAnswers(rules, r, found) /\ GoodsAnswers(r, found)
      /\ ~HandedOver(found) => p = r /\ PaperAnswers(r, found)
  BY DEF Truly, Alike, Current, found
<1>3. key \in RequestKeys => key \notin DOMAIN p.papers
  BY <1>2
<1>4. Replied(g, key, answer)
  OBVIOUS
<1> USE DEF found
<1>5. IdAnswers(rules, r, later)
  <2>1. CASE key # "id"
    BY <1>1, <1>2, <2>1 DEF IdAnswers
  <2>2. CASE key = "id"
    <3>1. p = r
      BY <1>1, <1>2, <2>2 DEF HandedOver, Nowhere
    <3>2. \/ /\ p.id # NoDoc
             /\ answer = IF <<"mismatch", "id">> \in Defects(rules, p, found) THEN "confirmed" ELSE "verified"
          \/ LacksId(g) /\ answer = "refused"
      BY <1>3, <1>4, <2>2 DEF Replied, RequestKeys
    <3>3. r.open \cup r.concealed = {} =>
            (<<"mismatch", "id">> \in Defects(rules, r, found)
               <=> NeedsId(PurposeLevel(rules, r)) /\ IdFlaw(r, NoFindings) = "mismatch")
      <4>1. r.purpose # "id"
        BY DEF RequestKeys
      <4> QED
        BY <4>1, MismatchShows
    <3>4. LacksId(g) => r.id = NoDoc /\ NeedsId(PurposeLevel(rules, r))
      BY <3>1 DEF LacksId
    <3>5. "id" \in DOMAIN later /\ later["id"] = answer
      BY <1>1, <2>2
    <3>6. CASE r.id = NoDoc
      BY <3>1, <3>2, <3>4, <3>5, <3>6 DEF IdAnswers
    <3>7. CASE r.id # NoDoc
      <4>1. answer = IF <<"mismatch", "id">> \in Defects(rules, r, found) THEN "confirmed" ELSE "verified"
        BY <3>1, <3>2, <3>4, <3>7
      <4> QED
        BY <3>3, <3>5, <3>7, <4>1 DEF IdAnswers
    <3> QED
      BY <3>6, <3>7
  <2> QED
    BY <2>1, <2>2
<1>6. GoodsAnswers(r, later)
  <2>1. key = "search" => answer = IF r.concealed # {} THEN "confirmed" ELSE "cleared"
    BY <1>2, <1>3, <1>4 DEF Replied, RequestKeys
  <2>2. key = "disclosure" => answer \in {"declared", "too_late"}
    BY <1>2, <1>3, <1>4 DEF Replied, RequestKeys
  <2>3. key = "relinquish" => answer = "yielded" /\ SomethingDeclared(g)
    BY <1>2, <1>3, <1>4 DEF Replied, RequestKeys
  <2>4. SomethingDeclared(g) => r.open \cup r.concealed # {}
    BY <1>2 DEF SomethingDeclared
  <2>5. "search" \in DOMAIN later => later["search"] = IF r.concealed # {} THEN "confirmed" ELSE "cleared"
    BY <1>1, <1>2, <2>1 DEF GoodsAnswers
  <2>6. "disclosure" \in DOMAIN later => later["disclosure"] \in {"declared", "too_late"}
    BY <1>1, <1>2, <2>2 DEF GoodsAnswers
  <2>7. "relinquish" \in DOMAIN later => later["relinquish"] = "yielded" /\ r.open \cup r.concealed # {}
    BY <1>1, <1>2, <2>3, <2>4 DEF GoodsAnswers
  <2> QED
    BY <2>5, <2>6, <2>7 DEF GoodsAnswers
<1>7. ASSUME ~HandedOver(later)
      PROVE  ~HandedOver(found) /\ PaperAnswers(r, later)
  <2>1. ~HandedOver(found)
    BY <1>1, <1>7 DEF HandedOver, Nowhere
  <2>2. p = r /\ PaperAnswers(r, found)
    BY <1>2, <2>1
  <2>3. ASSUME NEW what \in DOMAIN r.papers, what \in DOMAIN later
        PROVE  /\ later[what] \in {"verified", "confirmed", "cleared"}
               /\ later[what] = "verified" <=> PaperFlaw(r, what, NoFindings) = "none"
    <3>1. CASE what # key
      BY <1>1, <2>2, <2>3, <3>1 DEF PaperAnswers
    <3>2. CASE what = key
      <4>1. key \notin RequestKeys
        BY <3>2
      <4>2. answer = CASE PaperFlaw(r, key, found) \in Crimes -> "confirmed"
                       [] PaperFlaw(r, key, found) = "none" -> "verified" [] OTHER -> "cleared"
        BY <1>4, <2>2, <4>1 DEF Replied, RequestKeys
      <4>3. PaperFlaw(r, key, found) = PaperFlaw(r, key, NoFindings)
        <5>1. Found(found, key) # "cleared" /\ Found(NoFindings, key) # "cleared"
          BY <1>1 DEF Found, NoFindings, Nowhere
        <5> QED
          BY <5>1 DEF PaperFlaw
      <4>4. "none" \notin Crimes
        BY DEF Crimes
      <4>5. later[what] = answer
        BY <1>1, <3>2
      <4> QED
        BY <3>2, <4>2, <4>3, <4>4, <4>5
    <3> QED
      BY <3>1, <3>2
  <2> QED
    BY <2>1, <2>3 DEF PaperAnswers
<1> QED
  BY <1>5, <1>6, <1>7 DEF later

\* A round that does not end the shift keeps it so.
LEMMA DeedsTruly ==
  ASSUME NEW g, RosterGiven(g.c), g.s.index \in DOMAIN g.c.roster, Truly(g.c, g.s),
         \A j \in DOMAIN g.c.roster : j > g.s.index => g.s.cases[j] = g.c.roster[j], NEW t, Deeds(g, t)
  PROVE  Truly(g.c, t)
<1> DEFINE r == g.c.roster[g.s.index]
           p == Current(g)
           s == g.s
           c == g.c
<1>1. /\ Alike(r, p) /\ IdAnswers(c.rules, r, s.found) /\ GoodsAnswers(r, s.found)
      /\ ~HandedOver(s.found) => /\ p = r /\ PaperAnswers(r, s.found)
                                 /\ s.revealed = s.inspected \cap r.facts /\ (s.reviewed => r.clue)
  BY DEF Truly, Current
<1>2. RequestKeys \cap (DOMAIN r.papers \cup r.open \cup r.concealed \cup {r.purpose}) = {}
  BY DEF RosterGiven
<1>3. ASSUME t.index = s.index, Alike(r, t.cases[s.index]), IdAnswers(c.rules, r, t.found), GoodsAnswers(r, t.found),
             ~HandedOver(t.found) => /\ t.cases[s.index] = r /\ PaperAnswers(r, t.found)
                                     /\ t.revealed = t.inspected \cap r.facts /\ (t.reviewed => r.clue)
      PROVE  Truly(c, t)
  BY <1>3 DEF Truly
<1>4. CASE Looks(g, t)
  <2>1. t.index = s.index /\ t.cases = s.cases /\ t.found = s.found /\ t.reviewed = s.reviewed
    BY <1>4 DEF Looks, Alone
  <2>2. PICK doc : /\ t.inspected = s.inspected \cup {doc}
                   /\ t.revealed = IF doc \in p.facts THEN s.revealed \cup {doc} ELSE s.revealed
    BY <1>4 DEF Looks
  <2>3. t.cases[s.index] = p
    BY <2>1 DEF Current
  <2> HIDE DEF r, p, s, c
  <2>4. ~HandedOver(s.found) => t.revealed = t.inspected \cap r.facts
    BY <1>1, <2>2
  <2> QED
    BY <1>1, <1>3, <2>1, <2>3, <2>4 DEF c, s
<1>5. CASE LooksAgain(g, t)
  <2>1. /\ t.index = s.index /\ t.cases = s.cases /\ t.found = s.found /\ t.inspected = s.inspected
        /\ t.revealed = s.revealed /\ p.clue
    BY <1>5 DEF LooksAgain, Alone
  <2>2. t.cases[s.index] = p
    BY <2>1 DEF Current
  <2> HIDE DEF r, p, s, c
  <2> QED
    BY <1>1, <1>3, <2>1, <2>2 DEF c
<1>6. CASE Asks(g, t)
  <2>1. /\ t.index = s.index /\ t.cases = s.cases /\ t.inspected = s.inspected
        /\ t.revealed = s.revealed /\ t.reviewed = s.reviewed
    BY <1>6 DEF Asks, Alone
  <2>2. PICK key, answer : key \notin DOMAIN s.found /\ Replied(g, key, answer) /\ t.found = Learned(s.found, key, answer)
    BY <1>6 DEF Asks
  <2>3. t.cases[s.index] = p
    BY <2>1 DEF Current
  <2>4. /\ IdAnswers(c.rules, r, t.found) /\ GoodsAnswers(r, t.found)
        /\ ~HandedOver(t.found) => ~HandedOver(s.found) /\ PaperAnswers(r, t.found)
    BY <1>2, <2>2, AnswersAreTrue
  <2> HIDE DEF r, p, s, c
  <2> QED
    BY <1>1, <1>3, <2>1, <2>3, <2>4 DEF c
<1>7. CASE TakesId(g, t)
  <2>1. /\ t.index = s.index /\ LacksId(g) /\ "id" \notin DOMAIN s.found /\ t.found = Learned(s.found, "id", "cleared")
        /\ Alike(p, t.cases[s.index])
    BY <1>7 DEF TakesId
  <2>2. ~HandedOver(s.found) /\ HandedOver(t.found)
    BY <2>1 DEF HandedOver, Found, Learned, Nowhere
  <2>3. p = r
    BY <1>1, <2>2
  <2>4. r.id = NoDoc /\ NeedsId(PurposeLevel(c.rules, r))
    BY <2>1, <2>3 DEF LacksId
  <2>5. t.found["id"] = "cleared" /\ \A key : key # "id" => /\ key \in DOMAIN t.found <=> key \in DOMAIN s.found
                                                            /\ key \in DOMAIN s.found => t.found[key] = s.found[key]
    BY <2>1 DEF Learned
  <2>7. Alike(r, t.cases[s.index])
    BY <2>1, <2>3
  <2> HIDE DEF r, p, s, c
  <2>6. IdAnswers(c.rules, r, t.found)
    BY <2>4, <2>5 DEF IdAnswers
  <2>8. GoodsAnswers(r, t.found)
    <3>1. \A key \in {"search", "disclosure", "relinquish"} :
            /\ key \in DOMAIN t.found <=> key \in DOMAIN s.found
            /\ key \in DOMAIN s.found => t.found[key] = s.found[key]
      BY <2>5
    <3>2. GoodsAnswers(r, s.found)
      BY <1>1
    <3> QED
      BY <3>1, <3>2 DEF GoodsAnswers
  <2> QED
    BY <1>3, <2>1, <2>2, <2>6, <2>7, <2>8 DEF c
<1>8. CASE CallsNext(g, t)
  <2>1. g.s.index \in Nat
    BY DEF RosterGiven
  <2>2. t.cases[t.index] = c.roster[t.index] /\ t.index \in DOMAIN c.roster
    BY <1>8, <2>1 DEF CallsNext
  <2> QED
    BY <1>8, <2>2, NothingKnown DEF CallsNext
<1> QED
  BY <1>4, <1>5, <1>6, <1>7, <1>8 DEF Deeds

\* The moves of a shift handle every candidate fairly.
LEMMA DeedsHandled ==
  ASSUME NEW g, RosterGiven(g.c), g.s.index \in DOMAIN g.c.roster, Truly(g.c, g.s),
         \A j \in DOMAIN g.c.roster : j > g.s.index => g.s.cases[j] = g.c.roster[j],
         NEW h, h.c = g.c, (h.s.complete = TRUE /\ h.s.index = g.s.index) \/ Deeds(g, h.s)
  PROVE  Handled(g, h)
<1> DEFINE r == g.c.roster[g.s.index]
           p == Current(g)
           q == Current(h)
           found == g.s.found
           later == h.s.found
<1>1. /\ p.purpose = r.purpose /\ p.concealed = r.concealed /\ p.open = r.open
      /\ "search" \in DOMAIN found => found["search"] = IF p.concealed # {} THEN "confirmed" ELSE "cleared"
  BY DEF Truly, Alike, Current, GoodsAnswers
<1>2. Named(p)
  BY <1>1 DEF RosterGiven, RequestKeys, Named
<1>3. g.s.index \in Nat
  BY DEF RosterGiven
<1>4. \A x : Severity(x) <= Severity(x)
  BY DEF Severity
<1>5. CASE h.s.complete = TRUE /\ h.s.index = g.s.index
  BY <1>5 DEF Handled
<1>6. ASSUME h.s.index = g.s.index, q.id = p.id => Severity(Verdict(h)) <= Severity(Verdict(g)),
             Found(found, "search") = "confirmed" /\ ~Disclosed(found) => ~Disclosed(later)
      PROVE  Handled(g, h)
  BY <1>6 DEF Handled
<1>7. CASE Looks(g, h.s) \/ LooksAgain(g, h.s)
  <2>1. h.s.index = g.s.index /\ h.s.cases = g.s.cases /\ later = found
    BY <1>7 DEF Looks, LooksAgain, Alone
  <2>2. Verdict(h) = Verdict(g)
    BY <2>1 DEF Verdict, Current
  <2> QED
    BY <1>4, <1>6, <2>1, <2>2
<1>8. CASE Asks(g, h.s)
  <2>1. h.s.index = g.s.index /\ h.s.cases = g.s.cases /\ q = p
    BY <1>8 DEF Asks, Alone, Current
  <2>2. PICK key, answer : key \notin DOMAIN found /\ Replied(g, key, answer) /\ later = Learned(found, key, answer)
    BY <1>8 DEF Asks
  <2>3. Found(found, key) \notin Helping /\ \A other : other # key => Found(later, other) = Found(found, other)
    BY <2>2 DEF Learned, Found, Helping, Nowhere
  <2>4. Eases(found, later)
    BY <2>3 DEF Eases
  <2>5. Severity(Disposition(g.c.rules, p, later)) <= Severity(Disposition(g.c.rules, p, found))
    BY <1>2, <2>4, RequestsAreMercy
  <2>6. ASSUME Found(found, "search") = "confirmed", ~Disclosed(found)
        PROVE  ~Disclosed(later)
    <3>1. p.concealed # {}
      BY <1>1, <2>6 DEF Found, Nowhere
    <3>2. CASE key = "disclosure"
      <4>1. key \notin DOMAIN p.papers
        BY <3>2 DEF Truly, Alike, Current, RosterGiven, RequestKeys
      <4>2. answer = "too_late"
        BY <2>2, <2>6, <3>1, <3>2, <4>1 DEF Replied
      <4>3. Found(later, "disclosure") = "too_late"
        BY <2>2, <3>2, <4>2 DEF Learned, Found
      <4> QED
        BY <4>3 DEF Disclosed
    <3>3. CASE key # "disclosure"
      BY <2>3, <2>6, <3>3 DEF Disclosed
    <3> QED
      BY <3>2, <3>3
  <2> QED
    BY <1>6, <2>1, <2>5, <2>6 DEF Verdict
<1>9. CASE TakesId(g, h.s)
  <2>1. /\ h.s.index = g.s.index /\ p.id = NoDoc /\ q.id # NoDoc /\ later = Learned(found, "id", "cleared")
    BY <1>9 DEF TakesId, LacksId, Current
  <2>2. Disclosed(later) <=> Disclosed(found)
    BY <2>1 DEF Disclosed, Found, Learned
  <2> QED
    BY <1>6, <2>1, <2>2
<1>10. CASE CallsNext(g, h.s)
  <2>1. /\ h.s.index # g.s.index /\ q = OnArrival(h) /\ later = NoFindings
        /\ h.s.revealed = {} /\ h.s.reviewed = FALSE
    BY <1>3, <1>10 DEF CallsNext, Current, OnArrival
  <2>2. Verdict(h) = Disposition(h.c.rules, OnArrival(h), NoFindings)
    BY <2>1 DEF Verdict
  <2>3. DOMAIN later = {} /\ Found(later, "disclosure") = Nowhere
    BY <2>1 DEF NoFindings, Found
  <2>4. ~Surfaced(h)
    BY <2>1, <2>3 DEF Surfaced, Nowhere
  <2> QED
    BY <2>1, <2>2, <2>4 DEF Handled
<1> QED
  BY <1>5, <1>7, <1>8, <1>9, <1>10 DEF Deeds

\* A shift that does not move on is handled fairly.
LEMMA RestIsFair ==
  ASSUME NEW g, NEW h, h.c = g.c, h.s = g.s
  PROVE  Handled(g, h)
<1>1. Verdict(h) = Verdict(g)
  BY DEF Verdict, Current
<1>2. Severity(Verdict(g)) <= Severity(Verdict(g))
  BY DEF Severity
<1> QED
  BY <1>1, <1>2 DEF Handled

\* Guilt shows in the verdict.
LEMMA GuiltShown ==
  ASSUME NEW g, ShiftFits(g.c, g.s), Truly(g.c, g.s)
  PROVE  Guilt(g)
<1> DEFINE r == OnArrival(g)
           p == Current(g)
<1>1. /\ p.purpose = r.purpose /\ p.open = r.open /\ p.concealed = r.concealed /\ p.papers = r.papers
      /\ p.id = r.id \/ r.id = NoDoc
  BY DEF Truly, Alike, Current, OnArrival, ShiftFits, IdOf
<1>2. Damning(g.c.rules, p) => Verdict(g) = "arrest"
  BY DamningArrests DEF Verdict
<1>3. ASSUME Disposition(g.c.rules, r, NoFindings) = "arrest", Verdict(g) # "arrest", ~Disclosed(g.s.found), ~Yielded(g.s.found)
      PROVE  Verdict(g) = "deny" /\ p.concealed # {}
  <2> HIDE DEF r, p
  <2>1. Verdict(g) = Disposition(g.c.rules, p, g.s.found)
    BY DEF Verdict, p
  <2> QED
    BY <1>1, <1>3, <2>1, NobodyWalks
<1> QED
  BY <1>2, <1>3 DEF Guilt

\* Somebody who carries nothing, with the papers that the rules ask for, all of
\* them sound, is let pass.
LEMMA NothingHeld ==
  ASSUME NEW rules, NEW p, NEW found, p.open = {}, p.concealed = {},
         LET level == PurposeLevel(rules, p) IN
           /\ level \notin {"criminal", "forbidden"}
           /\ NeedsId(level) => p.id # NoDoc /\ IdFlaw(p, NoFindings) # "mismatch"
           /\ NeedsPermit(level) => p.purpose \in DOMAIN p.papers,
         p.id # NoDoc => p.id.status = "valid",
         \A what \in DOMAIN p.papers : PaperFlaw(p, what, NoFindings) = "none" /\ p.papers[what].status = "valid"
  PROVE  Disposition(rules, p, found) = "pass"
<1> DEFINE level == PurposeLevel(rules, p)
<1>0. Found(NoFindings, "id") # "cleared" /\ Found(NoFindings, p.purpose) # "cleared"
  BY DEF Found, NoFindings, Nowhere
<1>1. Forgeries(p) = {}
  <2>1. p.id.status # "forged"
    BY DEF NoDoc
  <2> QED
    BY <2>1 DEF Forgeries
<1>2. NeedsId(level) => IdFlaw(p, found) = "none"
  BY DEF IdFlaw, Flaw
<1>3. NeedsPermit(level) => PaperFlaw(p, p.purpose, found) = "none"
  BY <1>0 DEF PaperFlaw, Flaw
<1>4. PurposeDefects(rules, p, found) = {}
  BY <1>2, <1>3 DEF PurposeDefects, Unmet
<1>5. Defects(rules, p, found) = {}
  BY <1>1, <1>4 DEF Defects
<1> QED
  BY <1>5 DEF Disposition

\* Where only the decision is left, everything was looked at and asked for.
LEMMA AllDone ==
  ASSUME NEW g, CheckpointMoves(g) = Decisions(g)
  PROVE  /\ Current(g).docs \subseteq g.s.inspected /\ DOMAIN Current(g).papers \subseteq DOMAIN g.s.found
         /\ {"search", "disclosure"} \subseteq DOMAIN g.s.found
         /\ Current(g).id # NoDoc \/ LacksId(g) => "id" \in DOMAIN g.s.found
<1>1. <<"decide", "pass">> \in Decisions(g) /\ \A m \in Decisions(g) : m[1] = "decide"
  BY DEF Decisions, Dispositions
<1>2. /\ \A m \in Inspections(g) : m[1] # "decide"
      /\ \A m \in Reviews(g) : m[1] # "decide"
      /\ \A m \in Requests(g) : m[1] # "decide"
  BY DEF Inspections, Reviews, Requests
<1>3. g.s.stage # "documents"
  BY <1>1, <1>2 DEF CheckpointMoves
<1>4. Inspections(g) = {} /\ Requests(g) = {}
  BY <1>1, <1>2, <1>3 DEF CheckpointMoves
<1>5. Current(g).docs \subseteq g.s.inspected
  BY <1>4 DEF Inspections
<1>6. DOMAIN Current(g).papers \subseteq DOMAIN g.s.found
  BY <1>4 DEF Requests, Asked
<1>7. {"search", "disclosure"} \subseteq DOMAIN g.s.found
  <2>1. \A key \in {"search", "disclosure"} : ~Asked(g, key) => <<"request", key>> \in Requests(g)
    BY DEF Requests
  <2> QED
    BY <1>4, <2>1 DEF Asked
<1>8. Current(g).id # NoDoc \/ LacksId(g) => "id" \in DOMAIN g.s.found
  <2>1. /\ Current(g).id # NoDoc /\ ~Asked(g, "id") => <<"verify_id", "id">> \in Requests(g)
        /\ LacksId(g) /\ ~Asked(g, "id") => <<"request_id", "id">> \in Requests(g)
    BY DEF Requests
  <2> QED
    BY <1>4, <2>1 DEF Asked
<1> QED
  BY <1>5, <1>6, <1>7, <1>8

\* What is adverse to a candidate.
Adverse(found, key) ==
  found[key] \in {"confirmed", "cleared", "yielded", "refused"} /\ ~(key = "search" /\ found[key] = "cleared")

LEMMA SurfacedIs ==
  ASSUME NEW g
  PROVE  Surfaced(g) <=>
           \/ g.s.revealed # {} \/ g.s.reviewed
           \/ \E key \in DOMAIN g.s.found : Adverse(g.s.found, key)
           \/ /\ Found(g.s.found, "disclosure") \in {"declared", "too_late"}
              /\ Current(g).open \cup Current(g).concealed # {}
  BY DEF Surfaced, Adverse

\* What render_case shows of a candidate.
LEMMA CandidShows ==
  ASSUME NEW rules, NEW r, Candid(rules, r)
  PROVE  /\ r.id # NoDoc => <<"id", "id">> \in r.docs
         /\ \A what \in DOMAIN r.papers : <<"paper", what>> \in r.docs
         /\ r.id # NoDoc /\ r.id.status # "valid" => <<"id", "id">> \in r.facts
         /\ \A what \in DOMAIN r.papers : r.papers[what].status # "valid" => <<"paper", what>> \in r.facts
         /\ (/\ Defects(rules, r, NoFindings) = {} /\ (r.id # NoDoc => r.id.status = "valid")
             /\ \A what \in DOMAIN r.papers : r.papers[what].status = "valid")
               => r.facts = {} /\ ~r.clue
<1>1. r.docs = Documents(r) /\ r.facts = Facts(rules, r, NoFindings) /\ r.clue = (r.facts # {})
  BY DEF Candid
<1>2. r.id # NoDoc => <<"id", "id">> \in r.docs
  BY <1>1 DEF Documents
<1>3. \A what \in DOMAIN r.papers : <<"paper", what>> \in r.docs
  BY <1>1 DEF Documents
<1>4. r.id # NoDoc /\ r.id.status # "valid" => <<"id", "id">> \in r.facts
  BY <1>1 DEF Facts
<1>5. \A what \in DOMAIN r.papers : r.papers[what].status # "valid" => <<"paper", what>> \in r.facts
  BY <1>1 DEF Facts
<1>6. ASSUME Defects(rules, r, NoFindings) = {}, r.id # NoDoc => r.id.status = "valid",
             \A what \in DOMAIN r.papers : r.papers[what].status = "valid"
      PROVE  r.facts = {} /\ ~r.clue
  BY <1>1, <1>6 DEF Facts
<1> QED
  BY <1>2, <1>3, <1>4, <1>5, <1>6

\* Once everything was looked at and asked for, who is not to pass has something
\* against him that was surfaced or can be seen.
LEMMA RejectionsHaveGrounds ==
  ASSUME NEW g, Truly(g.c, g.s), Candid(g.c.rules, OnArrival(g)), CheckpointMoves(g) = Decisions(g),
         RequestKeys \cap DOMAIN OnArrival(g).papers = {}, ~Surfaced(g), ~VisibleGrounds(g)
  PROVE  Verdict(g) = "pass"
<1> DEFINE r == OnArrival(g)
           p == Current(g)
           found == g.s.found
           rules == g.c.rules
           level == PurposeLevel(rules, r)
<1>1. /\ g.s.revealed = {} /\ ~g.s.reviewed /\ \A key \in DOMAIN found : ~Adverse(found, key)
      /\ Found(found, "disclosure") \in {"declared", "too_late"} => p.open \cup p.concealed = {}
  BY SurfacedIs
<1>2. /\ p.docs \subseteq g.s.inspected /\ DOMAIN p.papers \subseteq DOMAIN found
      /\ {"search", "disclosure"} \subseteq DOMAIN found /\ (p.id # NoDoc => "id" \in DOMAIN found)
  BY AllDone
<1>3. ~HandedOver(found)
  <2>1. HandedOver(found) => "id" \in DOMAIN found /\ Adverse(found, "id")
    BY DEF HandedOver, Found, Adverse, Nowhere
  <2> QED
    BY <1>1, <2>1
<1>4. /\ p = r /\ PaperAnswers(r, found) /\ g.s.revealed = g.s.inspected \cap r.facts
      /\ IdAnswers(rules, r, found) /\ GoodsAnswers(r, found)
  BY <1>3 DEF Truly, Current, OnArrival
<1>5. Candid(rules, r)
  OBVIOUS
<1>6. /\ level \notin {"criminal", "forbidden"} /\ ~(NeedsId(level) /\ p.id = NoDoc)
      /\ ~(NeedsPermit(level) /\ Paper(p, p.purpose) = NoDoc)
  BY <1>4 DEF VisibleGrounds
<1>7. RequestKeys \cap DOMAIN r.papers = {}
  OBVIOUS
<1>8. Verdict(g) = Disposition(rules, r, found)
  BY <1>4 DEF Verdict
<1> HIDE DEF r, p, found, rules
<1>9. r.open = {} /\ r.concealed = {}
  <2>1. found["disclosure"] \in {"declared", "too_late"}
    BY <1>2, <1>4 DEF GoodsAnswers
  <2>2. Found(found, "disclosure") \in {"declared", "too_late"}
    BY <1>2, <2>1 DEF Found
  <2> QED
    BY <1>1, <1>4, <2>2
<1>10. r.id # NoDoc => r.id.status = "valid" /\ ~(NeedsId(level) /\ IdFlaw(r, NoFindings) = "mismatch")
  <2> SUFFICES ASSUME r.id # NoDoc
               PROVE  r.id.status = "valid" /\ ~(NeedsId(level) /\ IdFlaw(r, NoFindings) = "mismatch")
    OBVIOUS
  <2>1. <<"id", "id">> \notin r.facts
    BY <1>1, <1>2, <1>4, <1>5, CandidShows
  <2>2. r.id.status = "valid"
    BY <1>5, <2>1, CandidShows
  <2>3. "id" \in DOMAIN found /\ found["id"] # "confirmed"
    BY <1>1, <1>2, <1>4 DEF Adverse
  <2> QED
    BY <1>4, <1>9, <2>2, <2>3 DEF IdAnswers
<1>11. \A what \in DOMAIN r.papers : PaperFlaw(r, what, NoFindings) = "none" /\ r.papers[what].status = "valid"
  <2> SUFFICES ASSUME NEW what \in DOMAIN r.papers
               PROVE  PaperFlaw(r, what, NoFindings) = "none" /\ r.papers[what].status = "valid"
    OBVIOUS
  <2>1. <<"paper", what>> \notin r.facts
    BY <1>1, <1>2, <1>4, <1>5, CandidShows
  <2>2. r.papers[what].status = "valid"
    BY <1>5, <2>1, CandidShows
  <2>3. what \in DOMAIN found
    BY <1>2, <1>4
  <2>4. found[what] \in {"verified", "confirmed", "cleared"} /\ (found[what] = "verified" <=> PaperFlaw(r, what, NoFindings) = "none")
    BY <1>4, <2>3 DEF PaperAnswers
  <2>5. what # "search"
    BY <1>7 DEF RequestKeys
  <2>6. found[what] = "verified"
    BY <1>1, <2>3, <2>4, <2>5 DEF Adverse
  <2> QED
    BY <2>2, <2>4, <2>6
<1>12. NeedsPermit(level) => r.purpose \in DOMAIN r.papers
  BY <1>4, <1>6 DEF Paper
<1>13. NeedsId(level) => r.id # NoDoc /\ IdFlaw(r, NoFindings) # "mismatch"
  BY <1>4, <1>6, <1>10
<1> QED
  BY <1>6, <1>8, <1>9, <1>10, <1>11, <1>12, <1>13, NothingHeld

\* Against somebody who carries nothing, has all papers in order and came to pass
\* there is nothing.
LEMMA InOrderHasNothing ==
  ASSUME NEW g, RosterGiven(g.c), ShiftFits(g.c, g.s), AtCounter(g.c, g.s), Truly(g.c, g.s), Candid(g.c.rules, OnArrival(g)),
         Current(g).open \cup Current(g).concealed = {}, Current(g).id \in {Valid("bearer"), NoDoc},
         \A what \in DOMAIN Current(g).papers : Current(g).papers[what] = Valid("bearer"),
         Disposition(g.c.rules, OnArrival(g), NoFindings) = "pass"
  PROVE  ~Surfaced(g) /\ ~VisibleGrounds(g)
<1> DEFINE r == OnArrival(g)
           p == Current(g)
           found == g.s.found
           rules == g.c.rules
           level == PurposeLevel(rules, r)
<1>1. /\ p.purpose = r.purpose /\ p.open = r.open /\ p.concealed = r.concealed /\ p.papers = r.papers
      /\ p.id = r.id \/ r.id = NoDoc
      /\ IdAnswers(rules, r, found) /\ GoodsAnswers(r, found)
      /\ ~HandedOver(found) => /\ p = r /\ PaperAnswers(r, found)
                               /\ g.s.revealed = g.s.inspected \cap r.facts /\ (g.s.reviewed => r.clue)
  BY DEF Truly, Alike, Current, OnArrival, ShiftFits, IdOf
<1>2. /\ DOMAIN found \subseteq DOMAIN r.papers \cup RequestKeys /\ RequestKeys \cap DOMAIN r.papers = {}
      /\ g.s.reviewed \in BOOLEAN
  <2>1. g.s.index \in DOMAIN g.c.roster
    BY DEF ShiftFits, RosterGiven
  <2> QED
    BY <2>1 DEF AtCounter, Answerable, RequestKeys, RosterGiven, OnArrival
<1>3. Candid(rules, r) /\ Disposition(rules, r, NoFindings) = "pass"
  OBVIOUS
<1>4. /\ p.open = {} /\ p.concealed = {} /\ p.id \in {Valid("bearer"), NoDoc}
      /\ \A what \in DOMAIN p.papers : p.papers[what] = Valid("bearer")
  OBVIOUS
<1>5. Valid("bearer") # NoDoc /\ Valid("bearer").status = "valid" /\ Valid("bearer").holder = "bearer" /\ NoDoc.holder = Nowhere
  BY DEF Valid, NoDoc, Nowhere
<1>6. VisibleGrounds(g) =>
        level \in {"criminal", "forbidden"} \/ (NeedsId(level) /\ p.id = NoDoc)
        \/ (NeedsPermit(level) /\ Paper(p, p.purpose) = NoDoc)
  BY <1>1, <1>4 DEF VisibleGrounds, PurposeLevel
<1>7. Surfaced(g) => \/ g.s.revealed # {} \/ g.s.reviewed
                     \/ \E key \in DOMAIN found : Adverse(found, key)
  BY <1>4, SurfacedIs
<1> HIDE DEF r, p, found, rules, level
<1>8. Defects(rules, r, NoFindings) = {}
  BY <1>3 DEF Disposition
<1>9. PurposeDefects(rules, r, NoFindings) = {}
  BY <1>8 DEF Defects
<1>10. /\ level \notin {"criminal", "forbidden"} /\ (NeedsId(level) => IdFlaw(r, NoFindings) = "none")
       /\ NeedsPermit(level) => PaperFlaw(r, r.purpose, NoFindings) = "none"
  BY <1>9 DEF PurposeDefects, Unmet, level
<1>11. NeedsId(level) => r.id # NoDoc
  BY <1>10 DEF IdFlaw, Flaw
<1>12. ~VisibleGrounds(g)
  <2>1. NeedsPermit(level) => Paper(r, r.purpose) # NoDoc
    BY <1>10 DEF PaperFlaw, Flaw
  <2>2. Paper(p, p.purpose) = Paper(r, r.purpose)
    BY <1>1 DEF Paper
  <2> QED
    BY <1>1, <1>6, <1>10, <1>11, <2>1, <2>2
<1>13. ~("id" \in DOMAIN found /\ r.id = NoDoc)
  BY <1>1, <1>11 DEF IdAnswers, level
<1>14. ~HandedOver(found)
  <2>1. HandedOver(found) => "id" \in DOMAIN found /\ found["id"] = "cleared"
    BY DEF HandedOver, Found, Nowhere
  <2> QED
    BY <1>1, <1>13, <2>1 DEF IdAnswers
<1>15. p = r
  BY <1>1, <1>14
<1>16. r.facts = {} /\ ~r.clue
  <2>1. r.id # NoDoc => r.id.status = "valid"
    BY <1>4, <1>5, <1>15
  <2>2. \A what \in DOMAIN r.papers : r.papers[what].status = "valid"
    BY <1>4, <1>5, <1>15
  <2> QED
    BY <1>3, <1>8, <2>1, <2>2, CandidShows
<1>17. ASSUME NEW key \in DOMAIN found
       PROVE  ~Adverse(found, key)
  <2>1. CASE key \in DOMAIN r.papers
    <3>1. r.papers[key] = Valid("bearer") /\ r.id.holder \in {"bearer", Nowhere}
      BY <1>4, <1>5, <1>15, <2>1
    <3>2. PaperFlaw(r, key, NoFindings) = "none"
      BY <1>5, <2>1, <3>1 DEF PaperFlaw, Paper, Flaw
    <3>3. PaperAnswers(r, found)
      BY <1>1, <1>14
    <3>4. found[key] = "verified"
      BY <1>17, <2>1, <3>2, <3>3 DEF PaperAnswers
    <3> QED
      BY <3>4 DEF Adverse
  <2>2. CASE key = "id"
    <3>1. r.id # NoDoc
      BY <1>13, <1>17, <2>2
    <3>2. ~(NeedsId(level) /\ IdFlaw(r, NoFindings) = "mismatch")
      BY <1>10
    <3>3. found["id"] = "verified"
      BY <1>1, <1>4, <1>17, <2>2, <3>1, <3>2 DEF IdAnswers, level
    <3> QED
      BY <2>2, <3>3 DEF Adverse
  <2>3. CASE key = "search"
    BY <1>1, <1>4, <1>17, <2>3 DEF Adverse, GoodsAnswers
  <2>4. CASE key = "disclosure"
    BY <1>1, <1>17, <2>4 DEF Adverse, GoodsAnswers
  <2>5. CASE key = "relinquish"
    BY <1>1, <1>4, <1>17, <2>5 DEF GoodsAnswers
  <2> QED
    BY <1>2, <1>17, <2>1, <2>2, <2>3, <2>4, <2>5 DEF RequestKeys
<1>18. ~Surfaced(g)
  <2>1. g.s.revealed = {} /\ ~g.s.reviewed
    BY <1>1, <1>2, <1>14, <1>16
  <2> QED
    BY <1>7, <1>17, <2>1
<1> QED
  BY <1>12, <1>18

\* So the tax has its reasons.
LEMMA GroundedShown ==
  ASSUME NEW g, RosterGiven(g.c), ShiftFits(g.c, g.s), AtCounter(g.c, g.s), Truly(g.c, g.s), Candid(g.c.rules, OnArrival(g))
  PROVE  Grounded(g)
<1> DEFINE p == Current(g)
<1>1. RequestKeys \cap DOMAIN OnArrival(g).papers = {}
  <2>1. g.s.index \in DOMAIN g.c.roster
    BY DEF ShiftFits, RosterGiven
  <2> QED
    BY <2>1 DEF RosterGiven, OnArrival
<1>2. ASSUME p.mark = "none", p.verdict = Nowhere, CheckpointMoves(g) = Decisions(g), Expected(g) # "pass"
      PROVE  Surfaced(g) \/ VisibleGrounds(g)
  <2>1. Expected(g) = Verdict(g)
    BY <1>2 DEF Expected, Verdict
  <2> QED
    BY <1>1, <1>2, <2>1, RejectionsHaveGrounds
<1> QED
  BY <1>2, InOrderHasNothing DEF Grounded

\* What is owed so far: as long as no call was wrong, nothing but the tax.
Owes(s, score) ==
  /\ s.penalty \in Int /\ s.taxed \in Int /\ score.opponent \in Nat
  /\ score.opponent = 0 => s.penalty = s.taxed

\* A candidate who comes does not change it, nor does the end of the shift.
LEMMA AdvancedOwes ==
  ASSUME NEW s, DOMAIN s = Keys
  PROVE  Advanced(s).penalty = s.penalty /\ Advanced(s).taxed = s.taxed
<1> DEFINE t == Advanced(s)
<1>1. ASSUME NEW new, NEW old, DOMAIN new = Slate, DOMAIN old = Keys, t = Over(new, old),
             old.penalty = s.penalty, old.taxed = s.taxed
      PROVE  t.penalty = s.penalty /\ t.taxed = s.taxed
  <2>1. {"penalty", "taxed"} \subseteq DOMAIN old \ DOMAIN new
    BY <1>1 DEF Keys, Slate
  <2>2. \A x \in DOMAIN old \ DOMAIN new : Over(new, old)[x] = old[x]
    BY DEF Over
  <2> HIDE DEF t
  <2>3. \A x \in DOMAIN old \ DOMAIN new : t[x] = old[x]
    BY <1>1, <2>2
  <2> QED
    BY <1>1, <2>1, <2>3
<1>2. CASE s.index = Len(s.cases)
  <2> DEFINE new == [Arrived(s.cases[s.index]) EXCEPT !.stage = "packet"]
             old == [s EXCEPT !.complete = TRUE]
  <2>1. t = Over(new, old)
    BY <1>2 DEF Advanced
  <2>2. DOMAIN new = Slate
    BY ArrivedFields DEF Slate
  <2>3. DOMAIN old = Keys /\ old.penalty = s.penalty /\ old.taxed = s.taxed
    BY DEF Keys
  <2> HIDE DEF t, new, old
  <2> QED
    BY <1>1, <2>1, <2>2, <2>3 DEF t
<1>3. CASE s.index # Len(s.cases)
  <2> DEFINE new == Arrived(s.cases[s.index + 1])
             n == s.index + 1
             old == [s EXCEPT !.index = n]
  <2>1. t = Over(new, old)
    BY <1>3 DEF Advanced
  <2>2. DOMAIN new = Slate
    BY ArrivedFields
  <2> HIDE DEF n
  <2>3. DOMAIN old = Keys /\ old.penalty = s.penalty /\ old.taxed = s.taxed
    BY DEF Keys
  <2> HIDE DEF t, new, old
  <2> QED
    BY <1>1, <2>1, <2>2, <2>3 DEF t
<1> QED
  BY <1>2, <1>3

\* A shift opens with nothing owed.
LEMMA NothingOwed ==
  ASSUME NEW c, NEW score, score.opponent = 0
  PROVE  Owes(ShiftOpening(c), score)
<1> DEFINE old == [index |-> 1, cases |-> c.roster, time |-> 0, penalty |-> 0, taxed |-> 0, complete |-> FALSE]
           new == Arrived(c.roster[1])
           s == ShiftOpening(c)
<1>1. s = Over(new, old)
  BY DEF ShiftOpening
<1>2. DOMAIN old = {"index", "cases", "time", "penalty", "taxed", "complete"} /\ old.penalty = 0 /\ old.taxed = 0
  OBVIOUS
<1>3. DOMAIN new = Slate
  BY ArrivedFields
<1> HIDE DEF old, new, s
<1>4. {"penalty", "taxed"} \subseteq DOMAIN old \ DOMAIN new
  BY <1>2, <1>3 DEF Slate
<1>5. \A x \in DOMAIN old \ DOMAIN new : s[x] = old[x]
  BY <1>1 DEF Over
<1>6. s.penalty = 0 /\ s.taxed = 0
  BY <1>2, <1>4, <1>5
<1> QED
  BY <1>6 DEF Owes, s

\* Nor does an answer.
LEMMA AnswersOwe ==
  ASSUME NEW g, NEW m \in Requests(g), NEW s, DOMAIN s = Keys
  PROVE  LET t == Requested(g, s, m) IN t.penalty = s.penalty /\ t.taxed = s.taxed
<1>1. ASSUME NEW key, NEW answer
      PROVE  LET n == Noted(s, key, answer) IN DOMAIN n = Keys /\ n.penalty = s.penalty /\ n.taxed = s.taxed
  <2> DEFINE known == Learned(s.found, key, answer)
             n == [s EXCEPT !.found = known]
  <2>1. Noted(s, key, answer) = n
    BY Zenon DEF Noted
  <2> HIDE DEF known
  <2>2. DOMAIN n = Keys /\ n.penalty = s.penalty /\ n.taxed = s.taxed
    BY DEF Keys
  <2> QED
    BY <2>1, <2>2
<1>2. CASE m[1] = "request_id"
  <2>1. Requested(g, s, m) = IdRequested(g, s)
    BY <1>2 DEF Requested
  <2> DEFINE after == Noted(s, "id", "cleared")
             given == [Current(g) EXCEPT !.id = Current(g).hidden, !.hidden = NoDoc]
             shown == Rendered(g.c.rules, given, after.found)
             u == [after EXCEPT !.cases[s.index] = shown]
  <2>2. IdRequested(g, s) = u \/ IdRequested(g, s) = Noted(s, "id", "refused")
    BY DEF IdRequested
  <2>3. DOMAIN after = Keys /\ after.penalty = s.penalty /\ after.taxed = s.taxed
    BY <1>1
  <2> HIDE DEF after, shown
  <2>4. u.penalty = after.penalty /\ u.taxed = after.taxed
    BY <2>3 DEF Keys
  <2> HIDE DEF u
  <2> QED
    BY <1>1, <2>1, <2>2, <2>3, <2>4
<1>3. CASE m[1] # "request_id"
  <2>1. \E key, answer : Requested(g, s, m) = Noted(s, key, answer)
    BY <1>3, RequestReplies
  <2> QED
    BY <1>1, <2>1
<1> QED
  BY <1>2, <1>3

\* Every round keeps the account.
LEMMA RoundOwes ==
  ASSUME NEW g, RosterGiven(g.c), ShiftFits(g.c, g.s), Owes(g.s, g.score), NEW m \in CheckpointMoves(g)
  PROVE  LET out == CheckpointRound(g, m) IN Owes(out.s, out.score)
<1> DEFINE now == g.s.time + Cost(m)
           s == [g.s EXCEPT !.time = now]
           out == CheckpointRound(g, m)
           fee == Taxed(g, m[2])
           fine == Penalty(Expected(g), m[2])
<1>1. DOMAIN g.s = Keys
  BY DEF ShiftFits
<1>2. DOMAIN s = Keys /\ s.penalty = g.s.penalty /\ s.taxed = g.s.taxed
  <2> HIDE DEF now
  <2> QED
    BY <1>1 DEF Keys
<1>3. /\ g.s.penalty \in Int /\ g.s.taxed \in Int /\ g.score.opponent \in Nat
      /\ g.score.opponent = 0 => g.s.penalty = g.s.taxed
  BY DEF Owes
<1>4. ASSUME NEW t, t.penalty = g.s.penalty, t.taxed = g.s.taxed, out = Outcome(g, t, 0, 0, "continue")
      PROVE  Owes(out.s, out.score)
  <2>1. out.s = t /\ out.score.opponent = g.score.opponent + 0
    BY <1>4 DEF Outcome
  <2> HIDE DEF out
  <2> QED
    BY <1>3, <1>4, <2>1 DEF Owes
<1>5. fee \in Int /\ fine \in {0, 2, 5} /\ (m[2] = Expected(g) => fine = 0)
  BY DEF Taxed, Penalty, RosterGiven
<1>6. CASE m[1] = "decide"
  <2> DEFINE owed == s.penalty + fine + fee
             tax == s.taxed + fee
             u == [s EXCEPT !.penalty = owed, !.taxed = tax]
             t == Advanced(u)
  <2>1. out = IF m[2] = Expected(g) THEN Outcome(g, t, 1, 0, "win") ELSE Outcome(g, t, 0, 1, "lose")
    BY <1>6 DEF CheckpointRound, Decided
  <2> HIDE DEF s, now, fee, fine
  <2>2. owed \in Int /\ tax \in Int /\ (m[2] = Expected(g) /\ g.score.opponent = 0 => owed = tax)
    BY <1>2, <1>3, <1>5
  <2> HIDE DEF owed, tax, out
  <2>3. DOMAIN u = Keys /\ u.penalty = owed /\ u.taxed = tax
    BY <1>2 DEF Keys
  <2> HIDE DEF u
  <2>4. t.penalty = owed /\ t.taxed = tax
    BY <2>3, AdvancedOwes
  <2> HIDE DEF t
  <2>5. out.s = t /\ out.score.opponent = g.score.opponent + (IF m[2] = Expected(g) THEN 0 ELSE 1)
    BY <2>1 DEF Outcome
  <2> QED
    BY <1>3, <2>2, <2>4, <2>5 DEF Owes, out
<1>7. CASE m[1] # "decide"
  <2>1. m \in Inspections(g) \cup Reviews(g) \cup Requests(g)
    BY <1>7 DEF CheckpointMoves, Decisions
  <2>2. CASE m \in Inspections(g)
    <3>1. m[1] = "inspect"
      BY <2>2 DEF Inspections
    <3> DEFINE t == Inspected(g, s, m[2])
    <3>2. out = Outcome(g, t, 0, 0, "continue")
      BY <3>1 DEF CheckpointRound
    <3> HIDE DEF s
    <3>3. t.penalty = s.penalty /\ t.taxed = s.taxed
      BY <1>2 DEF Inspected, Keys
    <3> QED
      BY <1>2, <1>4, <3>2, <3>3
  <2>3. CASE m \in Reviews(g)
    <3>1. m[1] = "review"
      BY <2>3 DEF Reviews
    <3> DEFINE t == [s EXCEPT !.reviewed = TRUE]
    <3>2. out = Outcome(g, t, 0, 0, "continue")
      BY <3>1 DEF CheckpointRound
    <3> HIDE DEF s
    <3>3. t.penalty = s.penalty /\ t.taxed = s.taxed
      BY <1>2 DEF Keys
    <3> QED
      BY <1>2, <1>4, <3>2, <3>3
  <2>4. CASE m \in Requests(g)
    <3>1. m[1] \in {"request_document", "verify_id", "request_id", "request"}
      BY <2>4 DEF Requests
    <3> DEFINE t == Requested(g, s, m)
    <3>2. out = Outcome(g, t, 0, 0, "continue")
      BY <3>1 DEF CheckpointRound
    <3> HIDE DEF s
    <3>3. t.penalty = s.penalty /\ t.taxed = s.taxed
      BY <1>2, <2>4, AnswersOwe
    <3> QED
      BY <1>2, <1>4, <3>2, <3>3
  <2> QED
    BY <2>1, <2>2, <2>3, <2>4
<1> QED
  BY <1>6, <1>7

\* A shift without a wrong call is lost to overtime or to the tax.
LEMMA FlawlessShown ==
  ASSUME NEW g, RosterGiven(g.c), Owes(g.s, g.score), g.result = ShiftResult(g)
  PROVE  Flawless(g)
<1> SUFFICES ASSUME g.result = "lose", g.score.opponent = 0, ~(g.s.time > g.c.time)
             PROVE  g.s.taxed > 0
  BY DEF Flawless
<1>1. g.s.penalty \in Int /\ g.s.taxed = g.s.penalty
  BY DEF Owes
<1>2. g.c.threshold \in Nat /\ g.c.overtimeRate \in Int
  BY DEF RosterGiven
<1>3. ~(g.s.penalty + 0 * g.c.overtimeRate <= g.c.threshold)
  BY DEF ShiftResult
<1> QED
  BY <1>1, <1>2, <1>3

\* Every round handles fairly, and goes on with true findings unless it is the last.
LEMMA RoundIsFair ==
  ASSUME NEW g, RosterGiven(g.c), ShiftFits(g.c, g.s), AtCounter(g.c, g.s), Truly(g.c, g.s), Owes(g.s, g.score),
         NEW m \in CheckpointMoves(g), NEW h, h.c = g.c,
         h.s = CheckpointRound(g, m).s, h.score = CheckpointRound(g, m).score
  PROVE  /\ Handled(g, h) /\ Owes(h.s, h.score)
         /\ h.s.complete = TRUE \/ Truly(h.c, h.s)
<1>1. g.s.index \in DOMAIN g.c.roster
  BY DEF ShiftFits, RosterGiven
<1>2. \A j \in DOMAIN g.c.roster : j > g.s.index => g.s.cases[j] = g.c.roster[j]
  BY DEF AtCounter
<1>3. Alike(g.c.roster[g.s.index], Current(g))
  BY DEF Truly, Current
<1>4. (h.s.complete = TRUE /\ h.s.index = g.s.index) \/ Deeds(g, h.s)
  BY <1>3, RoundDeeds
<1>5. Handled(g, h)
  BY <1>1, <1>2, <1>4, DeedsHandled
<1>6. Owes(h.s, h.score)
  BY RoundOwes
<1>7. Deeds(g, h.s) => Truly(h.c, h.s)
  BY <1>1, <1>2, DeedsTruly
<1> QED
  BY <1>4, <1>5, <1>6, <1>7

\* A shift opens with nothing known of the first candidate, and nothing owed.
LEMMA OpensFairly ==
  ASSUME NEW c, RosterGiven(c), NEW score, score.opponent = 0
  PROVE  Truly(c, ShiftOpening(c)) /\ Owes(ShiftOpening(c), score)
<1> DEFINE old == [index |-> 1, cases |-> c.roster, time |-> 0, penalty |-> 0, taxed |-> 0, complete |-> FALSE]
           new == Arrived(c.roster[1])
           s == ShiftOpening(c)
<1>1. s = Over(new, old)
  BY DEF ShiftOpening
<1>2. DOMAIN new = Slate /\ new.revealed = {} /\ new.reviewed = FALSE /\ new.found = NoFindings
  BY DEF Arrived, Slate
<1> HIDE DEF old, new, s
<1>3. \A x \in DOMAIN new : s[x] = new[x]
  BY <1>1 DEF Over
<1>4. s.revealed = {} /\ s.reviewed = FALSE /\ s.found = NoFindings
  BY <1>2, <1>3 DEF Slate
<1>5. s.index = 1 /\ 1 \in DOMAIN c.roster /\ AtCounter(c, s)
  BY CounterOpens DEF s
<1>6. s.cases = c.roster /\ s.inspected = {}
  <2>1. DOMAIN old = {"index", "cases", "time", "penalty", "taxed", "complete"} /\ old.cases = c.roster
    BY DEF old
  <2>2. new.inspected = {}
    BY ArrivedFields DEF new
  <2>3. DOMAIN new \cup DOMAIN old = Keys
    BY <1>2, <2>1 DEF Keys, Slate
  <2> QED
    BY <1>1, <1>2, <2>1, <2>2, <2>3, SlateOver
<1>7. Truly(c, s)
  BY <1>4, <1>5, <1>6, NothingKnown
<1> QED
  BY <1>7, NothingOwed DEF s
===============================================================================
