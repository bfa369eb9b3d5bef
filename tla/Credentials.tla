----------------------------- MODULE Credentials -----------------------------
(* What the checkpoint of tangl.mechanics.credentials and the credentials game  *)
(* make of a packet: which of its papers, goods and purposes are at fault under *)
(* the rules of the day, what disposition that calls for, and how packets are   *)
(* sampled: a valid one, degraded by a failure mode.                            *)
(*                                                                              *)
(* The rules of a day map indications, purposes and goods alike, to levels; the *)
(* origin is fixed. A paper has a status ("stale" stands for every status that  *)
(* can be mended) and a holder. A packet has a purpose, an id on the table      *)
(* and one not presented, papers by indication, open goods and concealed ones.  *)
(* What has been found out is a function of those keys that were looked into.   *)
EXTENDS Integers, FiniteSets

Dispositions == {"pass", "deny", "arrest"}

NoDoc == [status |-> "none", holder |-> "none"]
Nowhere == "none"
NoFindings == [key \in {} |-> Nowhere]

LevelFor(rules, what, default) == IF what \in DOMAIN rules THEN rules[what] ELSE default
PurposeLevel(rules, p) == LevelFor(rules, p.purpose, "anonymous")
GoodsLevel(rules, what) == LevelFor(rules, what, "forbidden")
NeedsPermit(level) == level = "permit"
NeedsId(level) == level \in {"permit", "id"}

Learned(found, key, answer) == [k \in DOMAIN found \cup {key} |-> IF k = key THEN answer ELSE found[k]]
Found(found, key) == IF key \in DOMAIN found THEN found[key] ELSE Nowhere
Paper(p, what) == IF what \in DOMAIN p.papers THEN p.papers[what] ELSE NoDoc

-------------------------------------------------------------------------------
(* Defects, pairs of a kind and the document they are about. Some are crimes.   *)
Crimes == {"forged", "mismatch", "criminal", "smuggled"}

(* The one flaw of a document, by priority: a wrong holder matters only if it   *)
(* is known whom to expect, a mended document has none of the lesser ones.      *)
Flaw(doc, expected, cleared) ==
  IF doc = NoDoc THEN "missing"
  ELSE IF doc.status = "forged" THEN "forged"
  ELSE IF expected # Nowhere /\ doc.holder # expected THEN "mismatch"
  ELSE IF doc.status = "valid" \/ cleared THEN "none" ELSE "invalid"

IdFlaw(p, found) == Flaw(p.id, "bearer", Found(found, "id") = "cleared")
PaperFlaw(p, what, found) == Flaw(Paper(p, what), p.id.holder, Found(found, what) = "cleared")

Unmet(level, p, what, found) ==
       (IF NeedsPermit(level) /\ PaperFlaw(p, what, found) # "none"
        THEN {<<PaperFlaw(p, what, found), what>>} ELSE {})
  \cup (IF NeedsId(level) /\ IdFlaw(p, found) # "none" THEN {<<IdFlaw(p, found), "id">>} ELSE {})

PurposeDefects(rules, p, found) ==
  LET level == PurposeLevel(rules, p) IN
  IF level = "criminal" THEN {<<"criminal", Nowhere>>}
  ELSE IF level = "forbidden" THEN {<<"prohibited", Nowhere>>}
  ELSE Unmet(level, p, p.purpose, found)

Disclosed(found) == Found(found, "disclosure") = "declared"
Yielded(found) == Found(found, "relinquish") = "yielded"

(* Goods are assessed as declared when they are open or were disclosed; what    *)
(* was declared can be surrendered. To conceal what could not have been carried *)
(* openly is smuggling.                                                         *)
DeclaredDefects(rules, p, what, found) ==
  LET level == GoodsLevel(rules, what) IN
  IF level = "criminal" THEN {<<"criminal", Nowhere>>}
  ELSE IF Yielded(found) THEN {}
  ELSE IF level = "forbidden" THEN {<<"unauthorized", Nowhere>>}
  ELSE Unmet(level, p, what, found)

ConcealedDefects(rules, p, what, found) ==
  LET level == GoodsLevel(rules, what)
      unmet == Unmet(level, p, what, found)
  IN IF level = "criminal" THEN {<<"criminal", Nowhere>>}
     ELSE IF level = "forbidden" THEN {<<"smuggled", Nowhere>>}
     ELSE {d \in unmet : d[1] \in Crimes}
          \cup {<<IF unmet = {} THEN "undeclared" ELSE "smuggled", Nowhere>>}

HiddenDefects(rules, p, what, found) ==
  IF Disclosed(found) THEN DeclaredDefects(rules, p, what, found) ELSE ConcealedDefects(rules, p, what, found)

(* A forged document is a crime even where no rule asks for it.                 *)
Forgeries(p) ==
  (IF p.id.status = "forged" THEN {<<"forged", "id">>} ELSE {})
  \cup {<<"forged", what>> : what \in {x \in DOMAIN p.papers : p.papers[x].status = "forged"}}

Defects(rules, p, found) ==
  PurposeDefects(rules, p, found)
  \cup (UNION {DeclaredDefects(rules, p, what, found) : what \in p.open})
  \cup (UNION {HiddenDefects(rules, p, what, found) : what \in p.concealed})
  \cup Forgeries(p)

Disposition(rules, p, found) ==
  LET defects == Defects(rules, p, found) IN
  IF \E d \in defects : d[1] \in Crimes THEN "arrest" ELSE IF defects # {} THEN "deny" ELSE "pass"

Severity(disposition) == IF disposition = "pass" THEN 0 ELSE IF disposition = "deny" THEN 1 ELSE 2

-------------------------------------------------------------------------------
(* What lies on the table, and which of it shows a fault when it is inspected.  *)
Documents(p) ==
  (IF p.id = NoDoc THEN {} ELSE {<<"id", "id">>})
  \cup {<<"paper", what>> : what \in DOMAIN p.papers} \cup {<<"goods", what>> : what \in p.open}

Facts(rules, p, found) ==
  LET wrong(doc, of) == doc.status # "valid" \/ <<"mismatch", of>> \in Defects(rules, p, found) IN
  (IF p.id # NoDoc /\ wrong(p.id, "id") THEN {<<"id", "id">>} ELSE {})
  \cup {<<"paper", what>> : what \in {x \in DOMAIN p.papers : wrong(p.papers[x], x)}}

-------------------------------------------------------------------------------
(* The factory: a valid packet, its goods declared, and the ways to spoil it.   *)
Valid(holder) == [status |-> "valid", holder |-> holder]

ValidPacket(rules, purpose, goods) ==
  LET level == LevelFor(rules, purpose, "anonymous") IN
  [purpose |-> purpose, open |-> goods, concealed |-> {}, hidden |-> NoDoc,
   id |-> IF NeedsId(level) THEN Valid("bearer") ELSE NoDoc,
   papers |-> [what \in (IF NeedsPermit(level) THEN {purpose} ELSE {})
                          \cup {x \in goods : NeedsPermit(GoodsLevel(rules, x))} |-> Valid("bearer")]]

PermitModes == {"missing_permit", "unsealed_permit", "forged_permit", "wrong_holder_permit"}
IdModes == {"missing_id", "expired_id", "fake_id"}
GoodsModes == {"unpermitted_goods", "concealed_goods"}
CrimeModes == {"forged_permit", "wrong_holder_permit", "fake_id", "concealed_goods"}

(* A mode spoils the permit of the purpose, the id, and with a faked id the     *)
(* holder of all papers, or adds a good.                                        *)
SpoiledPaper(p, mode, what) ==
  LET own == what = p.purpose IN
  [status |-> IF own /\ mode = "unsealed_permit" THEN "stale"
              ELSE IF own /\ mode = "forged_permit" THEN "forged" ELSE p.papers[what].status,
   holder |-> IF (own /\ mode = "wrong_holder_permit") \/ (mode = "fake_id" /\ p.id # NoDoc)
              THEN "other" ELSE p.papers[what].holder]

SpoiledId(p, mode) ==
  IF p.id = NoDoc \/ mode = "missing_id" THEN NoDoc
  ELSE [status |-> IF mode = "expired_id" THEN "stale" ELSE p.id.status,
        holder |-> IF mode = "fake_id" THEN "other" ELSE p.id.holder]

Degraded(p, mode) ==
  LET lost == IF mode = "missing_permit" THEN {p.purpose} ELSE {} IN
  [purpose |-> p.purpose,
   papers |-> [what \in (DOMAIN p.papers) \ lost |-> SpoiledPaper(p, mode, what)],
   id |-> SpoiledId(p, mode),
   hidden |-> IF mode = "missing_id" THEN p.id ELSE p.hidden,
   open |-> IF mode = "unpermitted_goods" THEN p.open \cup {"weapon"} ELSE p.open,
   concealed |-> IF mode = "concealed_goods" THEN p.concealed \cup {"weapon"} ELSE p.concealed]

Applicable(rules, purpose) ==
  LET level == LevelFor(rules, purpose, "anonymous") IN
  GoodsModes \cup (IF NeedsPermit(level) THEN PermitModes ELSE {}) \cup (IF NeedsId(level) THEN IdModes ELSE {})

(* The sampler asks what a mode would lead to before there is any packet.       *)
GoodsPreflight(rules, purpose, mode) ==
  LET level == GoodsLevel(rules, "weapon")
      own == LevelFor(rules, purpose, "anonymous")
      credentialed == /\ NeedsId(level) => NeedsId(own)
                      /\ NeedsPermit(level) => purpose = "weapon" /\ NeedsPermit(own)
  IN IF level = "criminal" THEN "arrest"
     ELSE IF level = "forbidden" THEN IF mode = "concealed_goods" THEN "arrest" ELSE "deny"
     ELSE IF mode = "concealed_goods" THEN IF credentialed THEN "deny" ELSE "arrest"
     ELSE IF credentialed THEN "pass" ELSE "deny"

Worse(a, b) == IF Severity(a) >= Severity(b) THEN a ELSE b

Preflight(rules, purpose, mode) ==
  LET level == LevelFor(rules, purpose, "anonymous")
      base == IF level = "criminal" THEN "arrest" ELSE IF level = "forbidden" THEN "deny" ELSE "pass"
      spoiled == IF mode \in GoodsModes THEN GoodsPreflight(rules, purpose, mode)
                 ELSE IF mode \in PermitModes /\ ~NeedsPermit(level) THEN "pass"
                 ELSE IF mode \in IdModes /\ ~NeedsId(level) THEN "pass"
                 ELSE IF mode \in CrimeModes THEN "arrest"
                 ELSE IF mode \in PermitModes \cup IdModes THEN "deny" ELSE "pass"
  IN Worse(base, spoiled)

(* The modes with which an offer may be made for a target; "none" if it is      *)
(* reached without.                                                             *)
Verified(rules, purpose, target) ==
  IF Preflight(rules, purpose, "none") = target THEN {"none"}
  ELSE IF target = "pass" THEN {}
  ELSE {m \in Applicable(rules, purpose) :
          (m \in CrimeModes) = (target = "arrest") /\ Preflight(rules, purpose, m) = target}
===============================================================================
