------------------------------ MODULE Transaction ------------------------------
(***************************************************************************)
(* Transaction offers (mechanics/transaction.py): an offer is an ordered   *)
(* list of commitments, its legs.  Accepting it checks every leg first     *)
(* (the preflight), then commits the legs one by one, and when one raises  *)
(* rolls the started ones back in reverse order.  The legs move coins      *)
(* between wallets, change numbers, move items between holders, create and *)
(* register items, and fill the slots of a component manager.              *)
(***************************************************************************)
EXTENDS Integers, SequencesExt

CONSTANTS
    Purses,         \* holders of coins: HasAssets with its AssetWallet
    Pools,          \* numbers: resource mappings' keys, stats, scalar fields
    Lists,          \* ListAssetHolder: items in an order that is kept
    Dicts,          \* HasAssets.assets: items by key, in no order
    Slots,          \* slots of a component manager, which are holders too
    Tokens, KeyOf,  \* items and the label each is held under
    NoToken, Absent,
    Capacity,       \* max_count of a slot
    Selects,        \* the components that meet a slot's criteria
    Prerequisites,  \* the slots that must be filled before a slot is
    Affordable,     \* the sets of <<slot, component>> within the budgets
    GroupMax,       \* max_total of the one slot group
    Offers, Legs,   \* the offers built so far, and the legs of each
    Opening,        \* the holdings when the offers were built
    Reuse           \* whether accepted offers may be accepted again

Rows == Lists \cup Slots        \* holders that keep an order
Holders == Rows \cup Dicts

\* The commitment classes.  `fragile' legs run domain code that may raise.
Transfers  == [kind : {"transfer"}, giver : Purses, receiver : Purses,
               amount : Nat, fragile : BOOLEAN]
Deltas     == {l \in [kind : {"delta"}, of : {"value", "unkeyed", "mapping", "stat"},
                      pool : Pools, by : Int, min : Int, max : Int, drop : BOOLEAN,
                      fragile : BOOLEAN] : l.drop => l.of = "mapping"}
Moves      == [kind : {"move"}, giver : Holders, receiver : Holders,
               token : Tokens, fragile : BOOLEAN]
Creations  == [kind : {"create"}, receiver : Holders, register : BOOLEAN,
               key : {KeyOf[t] : t \in Tokens}, fragile : BOOLEAN]
Additions  == [kind : {"register"}, token : Tokens, fragile : BOOLEAN]
Mountings  == [kind : {"mount"}, slot : Slots, token : Tokens,
               replace : BOOLEAN, validate : BOOLEAN, fragile : BOOLEAN]
Callbacks  == [kind : {"call"}, pool : Pools, by : Int, fragile : BOOLEAN]
AnyLeg == Transfers \cup Deltas \cup Moves \cup Creations \cup Additions
          \cup Mountings \cup Callbacks

Worlds == [purse : [Purses -> Nat], value : [Pools -> Int \cup {Absent}],
           row : [Rows -> Seq(Tokens)], dict : [Dicts -> SUBSET Tokens],
           registry : SUBSET Tokens, recall : [Rows -> [Tokens -> Nat]]]

ASSUME TransactionAssumption ==
    /\ Lists \cap Slots = {} /\ Dicts \cap Rows = {}
    /\ NoToken \notin Tokens /\ Absent \notin Int
    /\ Capacity \in [Slots -> Nat] /\ GroupMax \in Nat
    /\ Selects \in [Slots -> SUBSET Tokens]
    /\ Prerequisites \in [Slots -> SUBSET Slots]
    /\ \A s \in Slots : s \notin Prerequisites[s]
    /\ Affordable \subseteq SUBSET (Slots \X Tokens)
    /\ \A fit \in Affordable : SUBSET fit \subseteq Affordable
    /\ IsFiniteSet(Purses) /\ Offers # {}
    /\ \A o \in Offers : Legs[o] \in Seq(AnyLeg) /\ Legs[o] # << >>
    /\ Opening \in Worlds
    /\ Reuse \in BOOLEAN

VARIABLES
    world,   \* what everybody holds; world.recall is the adapters' memory
             \* of where an item was taken from (_removed_indices_by_uid)
    memo,    \* the private fields of each commitment object
    phase,   \* "idle", "applying", "undoing", "accepted" or "undone"
    cur, at, \* the offer being accepted and the leg it has come to
    errors,  \* the legs whose rollback raised
    spent,   \* the offers accepted so far
    was      \* history: the world before each leg that was started

vars == <<world, memo, phase, cur, at, errors, spent, was>>

Blank == [committed |-> FALSE, value |-> 0, had |-> FALSE, row |-> << >>,
          made |-> NoToken]
leg == Legs[cur][at]
own == memo[cur][at]
-----------------------------------------------------------------------------
(* Holders of items.                                                       *)

Contents(w, p) == IF p \in Dicts THEN w.dict[p] ELSE Range(w.row[p])

\* _receiver_key_available: no other item is held under the same key.
KeyFree(w, p, key, t) == \A u \in Contents(w, p) : KeyOf[u] = key => u = t

Mounted(w) == {m \in Slots \X Tokens : m[2] \in Range(w.row[m[1]])}
Ready(w, s) == \A q \in Prerequisites[s] : w.row[q] # << >>

CanAssign(w, s, t) ==
    /\ t \in Selects[s] /\ Ready(w, s)
    /\ Len(w.row[s]) < Capacity[s]
    /\ Mounted(w) \cup {<<s, t>>} \in Affordable

\* Mutant: a slot holder takes whatever it is given.
CanReceiveAnything(w, p, t) == TRUE
CanReceive(w, p, t) ==
    p \in Slots => t \in Contents(w, p) \/ CanAssign(w, p, t)

\* remove_asset.  A list or slot holder remembers the place.
Place(w, p, t) == CHOOSE i \in DOMAIN w.row[p] : w.row[p][i] = t
Taken(w, p, t) ==
    IF p \in Dicts THEN [w EXCEPT !.dict[p] = @ \ {t}]
    ELSE [w EXCEPT !.row[p] = RemoveAt(@, Place(w, p, t)),
                   !.recall[p][t] = Place(w, p, t)]

\* add_asset.  A dict forgets the item it held under the key; a list or slot
\* holder refuses to, and puts an item back where it was taken from; a slot
\* holder assigns, which registers the component with the owner's graph.
CanAdd(w, p, t) ==
    /\ p \in Rows => KeyFree(w, p, KeyOf[t], t)
    /\ CanReceive(w, p, t)
Spot(w, p, t) == IF w.recall[p][t] \in 1..Len(w.row[p])
                 THEN w.recall[p][t] ELSE Len(w.row[p]) + 1
Added(w, p, t) ==
    IF p \in Dicts
    THEN [w EXCEPT !.dict[p] = {u \in @ : KeyOf[u] # KeyOf[t]} \cup {t}]
    ELSE IF t \in Range(w.row[p]) THEN w
    ELSE [w EXCEPT !.row[p] = InsertAt(@, Spot(w, p, t), t),
                   !.recall[p][t] = 0,
                   !.registry = IF p \in Slots THEN @ \cup {t} ELSE @]

\* Mutant: the giver does not get a rejected item back.
GivenBackNever(w, p, t) == w
\* A rejected item goes back to its giver, who may refuse it too.
GivenBack(w, p, t) == IF CanAdd(w, p, t) THEN Added(w, p, t) ELSE w
-----------------------------------------------------------------------------
(* can_commit, and the preflight of a whole offer.                         *)

\* Mutant: one coin of credit.
AffordsOnCredit(w, p, amount) == amount <= w.purse[p] + 1
Affords(w, p, amount) == amount <= w.purse[p]

Reading(w, pool) == IF w.value[pool] = Absent THEN 0 ELSE w.value[pool]
Within(l, current) == current + l.by \in l.min..l.max

Emptied(w, s) == [w EXCEPT !.row[s] = << >>]
Occupants(w, s) == Range(w.row[s])
CanReplace(w, l) ==
    /\ l.replace /\ Capacity[l.slot] = 1 /\ w.row[l.slot] # << >>
    /\ l.token \in Selects[l.slot] /\ Ready(w, l.slot)
    /\ {m \in Mounted(w) : m[2] \notin Occupants(w, l.slot)}
           \cup {<<l.slot, l.token>>} \in Affordable

\* What a supplier can make: an item that is new, nobody holds it and no leg
\* names it.
Mentioned == {t \in Tokens : \E o \in Offers : \E i \in DOMAIN Legs[o] :
                 /\ Legs[o][i].kind \in {"move", "register", "mount"}
                 /\ Legs[o][i].token = t}
Supply(w, l) == {t \in Tokens \ (Mentioned \cup w.registry) :
                    KeyOf[t] = l.key /\ \A p \in Holders : t \notin Contents(w, p)}

\* A stat may be missing; the field of a value delta never is.
CanCommit(w, l) ==
    /\ l.kind = "transfer" => Affords(w, l.giver, l.amount)
    /\ l.kind = "delta" => /\ l.of # "mapping" => w.value[l.pool] # Absent
                           /\ Within(l, Reading(w, l.pool))
    /\ l.kind = "move" => /\ l.token \in Contents(w, l.giver)
                          /\ CanReceive(w, l.receiver, l.token)
                          /\ KeyFree(w, l.receiver, KeyOf[l.token], l.token)
    /\ l.kind = "create" => /\ KeyFree(w, l.receiver, l.key, NoToken)
                            /\ \E t \in Supply(w, l) : CanReceive(w, l.receiver, t)
    /\ l.kind = "mount" => CanAssign(w, l.slot, l.token) \/ CanReplace(w, l)

\* Mutant: every delta is checked alone.
PlannedAlone(o, i) == 0
\* One plan key: the kind of the deltas and the number they change.
SameAccount(l, m) == /\ l.kind = "delta" /\ m.kind = "delta" /\ l.of # "unkeyed"
                     /\ l.of = m.of /\ l.pool = m.pool
\* What the first n legs add to the account of leg l.
Account(o, l) ==
    LET sum[n \in 0..Len(Legs[o])] ==
            IF n = 0 THEN 0
            ELSE sum[n - 1] + IF SameAccount(l, Legs[o][n]) THEN Legs[o][n].by ELSE 0
    IN  sum
\* The deltas planned before leg i for the same resource.
Planned(o, i) == Account(o, Legs[o][i])[i - 1]

\* Two moves that cannot both happen: of one item out of one holder, or of
\* two items to one key of one holder.
Clash(l, m) ==
    \/ l.giver = m.giver /\ l.token = m.token
    \/ /\ l.receiver = m.receiver /\ l.token # m.token
       /\ KeyOf[l.token] = KeyOf[m.token]

MovesPlanned(o) == \A i, j \in DOMAIN Legs[o] :
    Legs[o][i].kind = "move" /\ Legs[o][j].kind = "move" /\ i < j
        => ~Clash(Legs[o][i], Legs[o][j])

\* can_accept.
CanAccept(o) ==
    /\ \A i \in DOMAIN Legs[o] :
         LET l == Legs[o][i] IN
         IF l.kind = "delta"
         THEN /\ l.of # "mapping" => world.value[l.pool] # Absent
              /\ Within(l, Reading(world, l.pool) + Planned(o, i))
         ELSE CanCommit(world, l)
    /\ MovesPlanned(o)
    /\ \A i, j \in DOMAIN Legs[o] :
         /\ Legs[o][i].kind = "delta" /\ Legs[o][i].of = "unkeyed"
         /\ Legs[o][j].kind = "delta" /\ Legs[o][j].of = "unkeyed"
         => i = j
-----------------------------------------------------------------------------
(* commit of each class: what the leg does and what it notes.              *)

Pay(purse, giver, receiver, amount) ==
    [[purse EXCEPT ![giver] = @ - amount] EXCEPT ![receiver] = @ + amount]

Paid(w, l) == [w EXCEPT !.purse = Pay(@, l.giver, l.receiver, l.amount)]

Changed(w, l) == LET next == Reading(w, l.pool) + l.by IN
    [w EXCEPT !.value[l.pool] = IF l.drop /\ next = 0 THEN Absent ELSE next]

Moved(w, l) == Added(Taken(w, l.giver, l.token), l.receiver, l.token)

Created(w, l, t) ==
    Added([w EXCEPT !.registry = IF l.register THEN @ \cup {t} ELSE @], l.receiver, t)

Called(w, l) == [w EXCEPT !.value[l.pool] = Reading(w, l.pool) + l.by]

Cleared(w, l) == IF CanAssign(w, l.slot, l.token) THEN w ELSE Emptied(w, l.slot)
Mountable(w, l) == CanAssign(Cleared(w, l), l.slot, l.token)
MountedOn(w, l) == [Cleared(w, l) EXCEPT
    !.row[l.slot] = Append(@, l.token), !.registry = @ \cup {l.token}]

\* ComponentManager.validate: prerequisites of filled slots, the slot group.
Valid(w) ==
    /\ \A s \in Slots : w.row[s] # << >> => Ready(w, s)
    /\ MapThenSumSet(LAMBDA s : Len(w.row[s]), Slots) <= GroupMax

Note(fields) == memo' = [memo EXCEPT ![cur][at] = fields]

Transfer == /\ leg.kind = "transfer"
            /\ world' = Paid(world, leg)
            /\ Note([own EXCEPT !.committed = TRUE])

Delta == /\ leg.kind = "delta"
         /\ world' = Changed(world, leg)
         /\ Note([own EXCEPT !.committed = TRUE, !.value = Reading(world, leg.pool),
                  !.had = world.value[leg.pool] # Absent])

Move == /\ leg.kind = "move"
        /\ CanAdd(Taken(world, leg.giver, leg.token), leg.receiver, leg.token)
        /\ world' = Moved(world, leg)
        /\ Note([own EXCEPT !.committed = TRUE])

Create == /\ leg.kind = "create"
          /\ \E t \in Supply(world, leg) :
               /\ CanReceive(world, leg.receiver, t)
               /\ world' = Created(world, leg, t)
               /\ Note([own EXCEPT !.committed = TRUE, !.made = t])

Register == /\ leg.kind = "register"
            /\ world' = [world EXCEPT !.registry = @ \cup {leg.token}]
            /\ IF leg.token \in world.registry THEN UNCHANGED memo
               ELSE Note([own EXCEPT !.committed = TRUE])

\* The leg is marked committed before the manager is validated.
Mount == /\ leg.kind = "mount"
         /\ Mountable(world, leg)
         /\ world' = MountedOn(world, leg)
         /\ Note([own EXCEPT !.committed = TRUE, !.row = world.row[leg.slot],
                  !.made = IF leg.token \in world.registry THEN own.made ELSE leg.token])

Call == /\ leg.kind = "call"
        /\ world' = Called(world, leg)
        /\ Note([own EXCEPT !.committed = TRUE, !.value = Reading(world, leg.pool),
                 !.had = world.value[leg.pool] # Absent])
-----------------------------------------------------------------------------
(* rollback of each class; one that raises leaves its leg committed.       *)

Undone == memo' = [memo EXCEPT ![cur][at] = Blank] /\ UNCHANGED errors
Raises == errors' = errors \cup {at} /\ UNCHANGED memo

UndoTransfer ==
    /\ leg.kind = "transfer"
    /\ IF Affords(world, leg.receiver, leg.amount)
       THEN /\ world' = [world EXCEPT !.purse =
                             Pay(@, leg.receiver, leg.giver, leg.amount)]
            /\ Undone
       ELSE UNCHANGED world /\ Raises

\* Mutant: a key that was missing comes back with the default value.
BeforeAsRead == own.value
\* The value as it was, or no value where a mapping had none.
Before == IF leg.kind = "delta" /\ leg.of # "mapping" THEN own.value
          ELSE IF own.had THEN own.value ELSE Absent
UndoDelta == /\ leg.kind \in {"delta", "call"}
             /\ world' = [world EXCEPT !.value[leg.pool] = Before]
             /\ Undone

UndoMove ==
    /\ leg.kind = "move"
    /\ LET back == Taken(world, leg.receiver, leg.token) IN
       IF leg.token \notin Contents(world, leg.receiver) THEN UNCHANGED world /\ Raises
       ELSE IF CanAdd(back, leg.giver, leg.token)
       THEN world' = Added(back, leg.giver, leg.token) /\ Undone
       ELSE world' = back /\ Raises

UndoCreate ==
    /\ leg.kind = "create"
    /\ IF own.made \in Contents(world, leg.receiver)
       THEN /\ world' = [Taken(world, leg.receiver, own.made) EXCEPT
                            !.registry = IF leg.register THEN @ \ {own.made} ELSE @]
            /\ Undone
       ELSE UNCHANGED world /\ Raises

UndoRegister == /\ leg.kind = "register"
                /\ world' = [world EXCEPT !.registry = @ \ {leg.token}]
                /\ Undone

\* The occupants before are assigned again one after the other, each checked.
Fitted(w, s, row, n) == [w EXCEPT !.row[s] = SubSeq(row, 1, n),
                                  !.registry = @ \cup Range(SubSeq(row, 1, n))]
Fits(w, s, row, n) ==
    \A j \in 1..n : CanAssign(Fitted(w, s, row, j - 1), s, row[j])

UndoMount ==
    /\ leg.kind = "mount"
    /\ \E n \in 0..Len(own.row) :
         LET again == Fitted(world, leg.slot, own.row, n) IN
         /\ Fits(world, leg.slot, own.row, n)
         /\ n < Len(own.row) => ~Fits(world, leg.slot, own.row, n + 1)
         /\ IF n = Len(own.row)
            THEN world' = [again EXCEPT !.registry = @ \ {own.made}] /\ Undone
            ELSE world' = again /\ Raises
-----------------------------------------------------------------------------
(* accept                                                                  *)

Init ==
    /\ world = Opening
    /\ memo = [o \in Offers |-> [i \in DOMAIN Legs[o] |-> Blank]]
    /\ phase = "idle" /\ cur = (CHOOSE o \in Offers : TRUE) /\ at = 1
    /\ errors = {} /\ spent = {} /\ was = << >>

\* The preflight passes; a rejected offer changes nothing.
Accept(o) ==
    /\ phase \in {"idle", "accepted", "undone"}
    /\ o \notin spent \/ Reuse
    /\ CanAccept(o)
    /\ phase' = "applying" /\ cur' = o /\ at' = 1
    /\ errors' = {} /\ was' = <<world>>
    /\ UNCHANGED <<world, memo, spent>>

Commit ==
    /\ phase = "applying"
    /\ CanCommit(world, leg)
    /\ Transfer \/ Delta \/ Move \/ Create \/ Register \/ Mount \/ Call
    /\ IF leg.kind = "mount" /\ leg.validate /\ ~Valid(world')
       THEN phase' = "undoing" /\ UNCHANGED <<at, spent, was>>
       ELSE IF at < Len(Legs[cur])
       THEN /\ at' = at + 1 /\ was' = Append(was, world')
            /\ UNCHANGED <<phase, spent>>
       ELSE /\ phase' = "accepted" /\ spent' = spent \cup {cur}
            /\ was' = << >> /\ UNCHANGED at
    /\ UNCHANGED <<cur, errors>>

\* The leg raises without being committed: its own check fails on the world
\* the legs before it left, or the domain code it calls raises.
Balk ==
    /\ phase = "applying"
    /\ \/ /\ \/ ~CanCommit(world, leg)
             \/ leg.kind = "mount" /\ ~Mountable(world, leg)
             \/ leg.kind = "create" /\ \E t \in Supply(world, leg) :
                                          ~CanReceive(world, leg.receiver, t)
             \/ leg.fragile /\ leg.kind # "move"
          /\ UNCHANGED world
       \/ /\ leg.kind = "move" /\ CanCommit(world, leg)
          /\ LET out == Taken(world, leg.giver, leg.token) IN
             /\ leg.fragile \/ ~CanAdd(out, leg.receiver, leg.token)
             /\ world' = GivenBack(out, leg.giver, leg.token)
    \* MappingDeltaCommitment notes whether the key is there before it checks
    /\ IF leg.kind = "delta"
       THEN Note([own EXCEPT !.had = world.value[leg.pool] # Absent]) ELSE UNCHANGED memo
    /\ phase' = "undoing"
    /\ UNCHANGED <<cur, at, errors, spent, was>>

\* One step of the rollback; a leg that is not committed has nothing to undo.
Undo ==
    /\ phase = "undoing"
    /\ IF own.committed
       THEN \/ UndoTransfer \/ UndoDelta \/ UndoMove \/ UndoCreate
            \/ UndoRegister \/ UndoMount
       ELSE UNCHANGED <<world, memo, errors>>
    /\ IF at > 1 THEN at' = at - 1 /\ UNCHANGED phase
       ELSE phase' = "undone" /\ UNCHANGED at
    /\ UNCHANGED <<cur, spent, was>>

Next == (\E o \in Offers : Accept(o)) \/ Commit \/ Balk \/ Undo
Spec == Init /\ [][Next]_vars
-----------------------------------------------------------------------------
(* Properties                                                              *)

Memos == [committed : BOOLEAN, value : Int, had : BOOLEAN, row : Seq(Tokens),
          made : Tokens \cup {NoToken}]

\* Types of the variables; while an offer is accepted, `was' holds one world
\* for each leg that was started (accept).
TypeOK ==
    /\ world \in Worlds
    /\ \A o \in Offers : memo[o] \in [DOMAIN Legs[o] -> Memos]
    /\ phase \in {"idle", "applying", "undoing", "accepted", "undone"}
    /\ cur \in Offers /\ at \in DOMAIN Legs[cur]
    /\ errors \subseteq Nat /\ spent \subseteq Offers /\ was \in Seq(Worlds)
    /\ phase = "applying" => Len(was) = at

\* What the parties hold, without what the adapters remember.
Holdings(w) == <<w.purse, w.value, w.row, w.dict, w.registry>>

\* "If any commitment fails, no durable partial mutation should survive"
\* (mechanics/TRANSACTION_OFFER_DESIGN.md): an acceptance that raises leaves
\* every wallet, number, holder, slot and the registry as it found them, the
\* order of lists and slots included, and no leg's rollback raises (accept and
\* the rollback methods, TransactionRollbackError).
NothingSurvives ==
    /\ phase = "undone" => Holdings(world) = Holdings(was[1])
    /\ errors = {}

\* All the coins there are, each in its purse.
Coins(w) == Cardinality(UNION {{p} \X (1..w.purse[p]) : p \in Purses})

\* The holders items are moved between: a component that is mounted may be in
\* a slot and in the throwaway list it was moved to.
Homes == {p \in Holders : \E o \in Offers : \E i \in DOMAIN Legs[o] :
             \/ Legs[o][i].kind = "move" /\ p \in {Legs[o][i].giver, Legs[o][i].receiver}
             \/ Legs[o][i].kind = "create" /\ p = Legs[o][i].receiver}

\* Between any two legs, and half way through a rollback too, coins are neither
\* made nor lost (CountableTransferCommitment), and an item in the hands of one
\* holder stays in the hands of exactly one, whatever is moved, refused or moved
\* back (AssetMoveCommitment).
NothingLost ==
    /\ Coins(world) = Coins(Opening)
    /\ \A t \in Tokens :
        /\ \A p, q \in Homes : t \in Contents(world, p) /\ t \in Contents(world, q) => p = q
        /\ (\E p \in Homes : t \in Contents(Opening, p))
               => \E p \in Homes : t \in Contents(world, p)

\* A slot never holds too many components, one of the wrong kind or one the
\* budgets do not cover, and what it holds belongs to the owner's graph: a
\* rollback that puts components back keeps this too (ComponentManager).
SlotsFit ==
    /\ \A s \in Slots : /\ Len(world.row[s]) <= Capacity[s]
                        /\ Range(world.row[s]) \subseteq Selects[s] \cap world.registry
    /\ Mounted(world) \in Affordable

\* An offer of keyed deltas and of moves between lists and dicts that passes
\* the preflight is accepted: the plan adds the legs up, so that none fails
\* half way (can_commit_with_plan).
FullyPlanned(l) ==
    /\ ~l.fragile
    /\ \/ l.kind = "delta" /\ l.of # "unkeyed"
       \/ l.kind = "move" /\ l.receiver \notin Slots
PlanIsEnough == phase = "undoing" =>
    \E i \in DOMAIN Legs[cur] : ~FullyPlanned(Legs[cur][i])
=============================================================================
