---------------------------- MODULE MCTransaction ----------------------------
(***************************************************************************)
(* A shop, a customer, a chest, a wardrobe and an outfit, and offers of    *)
(* every kind of leg, used as SafeOffers asks.                             *)
(***************************************************************************)
EXTENDS SafeOffers

Pay2(n, fragile) == [kind |-> "transfer", giver |-> "customer", receiver |-> "shop",
                     amount |-> n, fragile |-> fragile]
Use(of, pool, n, drop) == [kind |-> "delta", of |-> of, pool |-> pool, by |-> n,
                           min |-> 0, max |-> 3, drop |-> drop, fragile |-> FALSE]
Carry(t, from, to, fragile) == [kind |-> "move", giver |-> from, receiver |-> to,
                                token |-> t, fragile |-> fragile]
Make(key, to, register) == [kind |-> "create", receiver |-> to, key |-> key,
                            register |-> register, fragile |-> FALSE]
Enter(t) == [kind |-> "register", token |-> t, fragile |-> FALSE]
Wear(t, s, replace, validate) == [kind |-> "mount", slot |-> s, token |-> t,
    replace |-> replace, validate |-> validate, fragile |-> FALSE]
Tell(pool, n) == [kind |-> "call", pool |-> pool, by |-> n, fragile |-> TRUE]

\* Two swords share a key; a second potion is brewed when one is bought.
SomeTokens == {"sword", "blade", "potion", "brew", "coat", "cape", "shirt"}
SomeKeys == [t \in SomeTokens |-> CASE t = "blade" -> "sword" [] t = "brew" -> "potion"
                                    [] OTHER -> t]
SomeSelects == [s \in {"rack", "body", "over"} |->
    IF s = "body" THEN {"shirt"} ELSE {"coat", "cape", "shirt"}]
SomeCapacity == [s \in {"rack", "body", "over"} |-> IF s = "rack" THEN 2 ELSE 1]
SomePrerequisites == [s \in {"rack", "body", "over"} |-> IF s = "over" THEN {"body"} ELSE {}]
\* The outfit's budget: no more than two garments in body, over and rack
\* together with the heavy cape on.
SomeAffordable == {fit \in SUBSET {m \in {"rack", "body", "over"} \X SomeTokens :
                                      m[2] \in SomeSelects[m[1]]} :
                      <<"over", "cape">> \in fit => Cardinality(fit) <= 2}

SomeLegs == [
    \* each payment alone is covered, the two together are not
    twice  |-> <<Carry("blade", "shop", "pack", FALSE), Pay2(2, FALSE), Pay2(2, FALSE)>>,
    \* a brewed potion for a coin and one from the stock
    buy    |-> <<Pay2(1, TRUE), Use("mapping", "stock", -1, TRUE), Make("potion", "pack", TRUE),
                 Tell("mood", 1)>>,
    \* repeated use of one resource: planned as a total
    repair |-> <<Use("stat", "health", 1, FALSE), Use("mapping", "stock", -1, TRUE),
                 Use("mapping", "stock", -1, TRUE)>>,
    stow   |-> <<Carry("sword", "chest", "pack", FALSE), Carry("potion", "chest", "shop", FALSE),
                 Use("stat", "health", 1, FALSE)>>,
    \* out of an ordered list, from the front, with a callback that may fail
    fetch  |-> <<Carry("sword", "chest", "shop", FALSE), Carry("cape", "chest", "worn", TRUE),
                 Use("unkeyed", "health", 1, FALSE), Tell("mood", 1)>>,
    return |-> <<Carry("potion", "shop", "chest", FALSE), Enter("sword"), Tell("mood", -1)>>,
    dress  |-> <<Carry("coat", "rack", "worn", FALSE), Wear("coat", "over", FALSE, TRUE),
                 Tell("mood", 1)>>,
    \* the coat is still on the rack: the group limit of the outfit is exceeded
    layer  |-> <<Tell("mood", 1), Wear("coat", "over", FALSE, TRUE)>>,
    change |-> <<Enter("cape"), Tell("mood", 1), Wear("cape", "over", TRUE, TRUE)>>,
    hang   |-> <<Carry("coat", "worn", "rack", TRUE), Tell("mood", 1)>>]

SomeOpening == [
    purse |-> [p \in {"customer", "shop"} |-> IF p = "customer" THEN 4 ELSE 0],
    value |-> [p \in {"stock", "health", "mood"} |->
                  IF p = "stock" THEN 2 ELSE IF p = "health" THEN 1 ELSE Absent],
    row |-> [chest |-> <<"sword", "potion", "cape">>, worn |-> << >>,
             rack |-> <<"coat">>, body |-> <<"shirt">>, over |-> << >>],
    dict |-> [h \in {"pack", "shop"} |-> IF h = "shop" THEN {"blade"} ELSE {}],
    registry |-> {"coat", "shirt", "sword"},
    recall |-> [r \in {"chest", "worn", "rack", "body", "over"} |-> [t \in SomeTokens |-> 0]]]
=============================================================================
