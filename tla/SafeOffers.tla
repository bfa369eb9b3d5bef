------------------------------ MODULE SafeOffers ------------------------------
(***************************************************************************)
(* The use of transaction offers under which a failed acceptance leaves    *)
(* nothing behind and the plan of the preflight is enough.  Without any    *)
(* one of these conditions one of the two may fail.                        *)
(***************************************************************************)
EXTENDS Transaction

Kind(o, i, kind) == Legs[o][i].kind = kind

\* An item is not moved back into the holder that an offer moves it out of.
OneWay == \A o \in Offers : \A i, j \in DOMAIN Legs[o] :
    Kind(o, i, "move") /\ Kind(o, j, "move") /\ Legs[o][i].token = Legs[o][j].token
        => Legs[o][i].giver # Legs[o][j].receiver

\* A slot that items are moved out of has no prerequisites: the rollback has
\* to assign them again.
Reassignable == \A o \in Offers : \A i \in DOMAIN Legs[o] :
    Kind(o, i, "move") /\ Legs[o][i].giver \in Slots => Prerequisites[Legs[o][i].giver] = {}

\* What goes into a slot by a move is registered already, or registered by
\* the leg: a rollback of the move does not unregister it.
Registered == \A o \in Offers : \A i \in DOMAIN Legs[o] :
    /\ Kind(o, i, "move") /\ Legs[o][i].receiver \in Slots
           => Legs[o][i].token \in Opening.registry
    /\ Kind(o, i, "create") /\ Legs[o][i].receiver \in Slots => Legs[o][i].register

\* A slot is filled by moves or by assignments, not by both.
SlotsApart == \A o \in Offers : \A i \in DOMAIN Legs[o] :
    Kind(o, i, "mount") => Legs[o][i].slot \notin Homes

\* An offer changes a number by deltas of one kind: the plan keeps an account
\* for each kind.
OneAccount == \A o \in Offers : \A i, j \in DOMAIN Legs[o] :
    LET l == Legs[o][i]
        m == Legs[o][j] IN
    /\ Kind(o, i, "delta") /\ Kind(o, j, "delta") /\ l.pool = m.pool
    /\ l.of # "unkeyed" /\ m.of # "unkeyed"
    => l.of = m.of

\* A holder has one item under a key, and an item one holder.
Tidy(w) ==
    /\ \A p \in Homes : \A t, u \in Contents(w, p) : KeyOf[t] = KeyOf[u] => t = u
    /\ \A p \in Homes \cap Rows : \A i, j \in DOMAIN w.row[p] :
           w.row[p][i] = w.row[p][j] => i = j
    /\ \A p, q \in Homes : Contents(w, p) \cap Contents(w, q) # {} => p = q
    /\ \A s \in Slots : /\ Len(w.row[s]) <= Capacity[s]
                        /\ Range(w.row[s]) \subseteq Selects[s] \cap w.registry
    /\ Mounted(w) \in Affordable

ASSUME SafeOffersAssumption ==
    /\ ~Reuse
    /\ OneWay /\ Reassignable /\ Registered /\ SlotsApart /\ OneAccount
    /\ Tidy(Opening)
=============================================================================
