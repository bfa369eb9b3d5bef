----------------------------- MODULE ServiceProofs -----------------------------
(***************************************************************************)
(* What the store holds wherever the process stops.  The invariant says    *)
(* which writes a request may have left to make, and what each of them     *)
(* relies on: then every prefix of them leaves the store consistent.       *)
(***************************************************************************)
EXTENDS Service, TLAPS

\* Nobody but u has l for its active ledger.
LeftTo(l, u) == \A x \in PersistedUsers : Active(x) = l => x = u

\* The value v may be written for u: nobody else has its secret.
MaySave(u, v) ==
    /\ u \in Users \cap issued /\ v \in UserValues
    /\ \A x \in PersistedUsers : x # u => store[x].content_hash # v.content_hash

\* The ledger that v points at, if any, is persisted and belongs to u.
PointsAtOwn(u, v) ==
    v.current_ledger_id # NoLedger =>
        /\ v.current_ledger_id \in PersistedLedgers
        /\ store[v.current_ledger_id].user_id = u

\* One disjunct for each list of writes a request starts with or is left with.
SavesUser == \E u \in Users : \E v \in UserValues :
    todo = <<Save(u, v)>> /\ MaySave(u, v) /\ PointsAtOwn(u, v)
SavesStory == \E u \in Users : \E v \in UserValues : \E l \in Ledgers \cap issued :
    /\ todo = <<Save(l, LedgerOf(u)), Save(u, v)>>
    /\ MaySave(u, v) /\ v.current_ledger_id \in {l, NoLedger} /\ LeftTo(l, u)
DropsStory == \E u \in Users : \E v \in UserValues : \E l \in Ledgers :
    /\ todo = <<Save(u, v), Delete(l)>>
    /\ MaySave(u, v) /\ v.current_ledger_id = NoLedger /\ LeftTo(l, u)
DeletesStory == \E l \in Ledgers :
    todo = <<Delete(l)>> /\ \A x \in PersistedUsers : Active(x) # l
DeletesUser == \E u \in Users : todo = <<Delete(u)>>

TodoInv ==
    todo = <<>> \/ SavesUser \/ SavesStory \/ DropsStory \/ DeletesStory \/ DeletesUser

StoreInv ==
    /\ DOMAIN store \subseteq (Users \cup Ledgers) \cap issued
    /\ \A u \in PersistedUsers : store[u] \in UserValues
    /\ \A l \in PersistedLedgers : store[l] \in LedgerValues
    /\ issued \subseteq Users \cup Ledgers

IInv ==
    /\ StoreInv
    /\ process \in {"down", "starting", "up"}
    /\ api_key_index \in [Secrets -> Users \cup {NoUser}]
    /\ ActiveIsPersisted
    /\ SecretsUnique
    /\ TodoInv

-----------------------------------------------------------------------------
\* The part of the invariant that is about the store alone.
StoreConsistent == StoreInv /\ ActiveIsPersisted /\ SecretsUnique

\* The invariant gives every part of TypeOK, the types of the writes included.
LEMMA InvTypes == ASSUME IInv PROVE TypeOK
<1> USE DEF IInv, StoreInv, LedgerValues, UserValues, LedgerOf
<1>1. TodoOK(todo)
  <2>1. CASE todo = <<>>
    BY <2>1 DEF TodoOK
  <2>2. CASE SavesUser
    BY <2>2 DEF SavesUser, MaySave, TodoOK, Save
  <2>3. CASE SavesStory
    BY <2>3 DEF SavesStory, MaySave, TodoOK, Save
  <2>4. CASE DropsStory
    BY <2>4 DEF DropsStory, MaySave, TodoOK, Save, Delete
  <2>5. CASE DeletesStory
    BY <2>5 DEF DeletesStory, TodoOK, Delete
  <2>6. CASE DeletesUser
    BY <2>6 DEF DeletesUser, TodoOK, Delete
  <2> QED BY <2>1, <2>2, <2>3, <2>4, <2>5, <2>6 DEF TodoInv
<1> QED BY <1>1 DEF TypeOK

\* The empty store is consistent.
LEMMA InitInv == ASSUME Init PROVE IInv
BY ServiceAssumption DEF Init, IInv, StoreInv, ActiveIsPersisted, SecretsUnique, TodoInv,
   PersistedUsers, PersistedLedgers, NoKeys

-----------------------------------------------------------------------------
\* Writing a user whose secret is its own and whose ledger is persisted.
LEMMA SaveUserKeeps ==
  ASSUME StoreConsistent, NEW u \in Users, NEW v \in UserValues,
         MaySave(u, v), PointsAtOwn(u, v), issued' = issued,
         store' = [x \in DOMAIN store \cup {u} |-> IF x = u THEN v ELSE store[x]]
  PROVE  /\ StoreConsistent'
         /\ PersistedUsers' = PersistedUsers \cup {u}
         /\ \A x \in PersistedUsers' : store'[x] = IF x = u THEN v ELSE store[x]
<1>1. u \notin Ledgers
  BY ServiceAssumption
<1>2. /\ PersistedUsers' = PersistedUsers \cup {u}
      /\ PersistedLedgers' = PersistedLedgers
      /\ \A x \in PersistedUsers' : store'[x] = IF x = u THEN v ELSE store[x]
      /\ \A l \in PersistedLedgers : store'[l] = store[l]
  BY <1>1 DEF PersistedUsers, PersistedLedgers
<1>3. StoreInv'
  BY <1>2 DEF StoreConsistent, StoreInv, MaySave, PersistedUsers, PersistedLedgers
<1>4. ActiveIsPersisted'
  <2> SUFFICES ASSUME NEW x \in PersistedUsers', Active(x)' # NoLedger
               PROVE  Active(x)' \in PersistedLedgers' /\ store'[Active(x)'].user_id = x
    BY DEF ActiveIsPersisted
  <2>1. CASE x = u
    BY <2>1, <1>2 DEF PointsAtOwn, Active
  <2>2. CASE x # u
    <3>1. x \in PersistedUsers /\ Active(x)' = Active(x)
      BY <2>2, <1>2 DEF Active
    <3>2. Active(x) \in PersistedLedgers /\ store[Active(x)].user_id = x
      BY <3>1 DEF StoreConsistent, ActiveIsPersisted
    <3> QED BY <3>1, <3>2, <1>2
  <2> QED BY <2>1, <2>2
<1>5. SecretsUnique'
  <2> SUFFICES ASSUME NEW x \in PersistedUsers', NEW y \in PersistedUsers',
                      store'[x].content_hash = store'[y].content_hash
               PROVE  x = y
    BY DEF SecretsUnique
  <2>1. \A z \in PersistedUsers' : z = u \/ (z \in PersistedUsers /\ store'[z] = store[z])
    BY <1>2
  <2>2. store'[u] = v
    BY <1>2
  <2> QED BY ZenonT(40), <2>1, <2>2 DEF StoreConsistent, SecretsUnique, MaySave
<1> QED BY <1>2, <1>3, <1>4, <1>5 DEF StoreConsistent

\* Writing a ledger for the only user who may point at it.
LEMMA SaveLedgerKeeps ==
  ASSUME StoreConsistent, NEW u \in Users, NEW l \in Ledgers \cap issued,
         LeftTo(l, u), issued' = issued,
         store' = [x \in DOMAIN store \cup {l} |-> IF x = l THEN LedgerOf(u) ELSE store[x]]
  PROVE  /\ StoreConsistent'
         /\ PersistedUsers' = PersistedUsers
         /\ \A x \in PersistedUsers : store'[x] = store[x]
         /\ l \in PersistedLedgers' /\ store'[l].user_id = u
<1>1. l \notin Users
  BY ServiceAssumption
<1>2. /\ PersistedUsers' = PersistedUsers
      /\ PersistedLedgers' = PersistedLedgers \cup {l}
      /\ \A x \in PersistedUsers : store'[x] = store[x]
      /\ \A m \in PersistedLedgers' : store'[m] = IF m = l THEN LedgerOf(u) ELSE store[m]
  BY <1>1 DEF PersistedUsers, PersistedLedgers
<1>3. StoreInv'
  BY <1>2 DEF StoreConsistent, StoreInv, PersistedUsers, PersistedLedgers, LedgerOf, LedgerValues
<1>4. ActiveIsPersisted'
  <2> SUFFICES ASSUME NEW x \in PersistedUsers', Active(x)' # NoLedger
               PROVE  Active(x)' \in PersistedLedgers' /\ store'[Active(x)'].user_id = x
    BY DEF ActiveIsPersisted
  <2>1. Active(x)' = Active(x) /\ x \in PersistedUsers
    BY <1>2 DEF Active
  <2>2. Active(x) \in PersistedLedgers /\ store[Active(x)].user_id = x
    BY <2>1 DEF StoreConsistent, ActiveIsPersisted
  <2>3. CASE Active(x) = l
    BY <2>1, <2>2, <2>3, <1>2 DEF LeftTo, LedgerOf
  <2>4. CASE Active(x) # l
    BY <2>1, <2>2, <2>4, <1>2
  <2> QED BY <2>3, <2>4
<1>5. SecretsUnique'
  <2> SUFFICES ASSUME NEW x \in PersistedUsers', NEW y \in PersistedUsers',
                      store'[x].content_hash = store'[y].content_hash
               PROVE  x = y
    BY DEF SecretsUnique
  <2>1. /\ x \in PersistedUsers /\ y \in PersistedUsers
        /\ store'[x] = store[x] /\ store'[y] = store[y]
    BY <1>2
  <2> QED BY <2>1 DEF StoreConsistent, SecretsUnique
<1> QED BY <1>2, <1>3, <1>4, <1>5 DEF StoreConsistent, LedgerOf

\* Deleting a user, or a ledger that nobody points at.
LEMMA DeleteKeeps ==
  ASSUME StoreConsistent, NEW d \in Users \cup Ledgers,
         \A x \in PersistedUsers : Active(x) # NoLedger => Active(x) # d,
         issued' = issued, store' = [x \in DOMAIN store \ {d} |-> store[x]]
  PROVE  StoreConsistent'
<1>1. /\ PersistedUsers' = PersistedUsers \ {d}
      /\ PersistedLedgers' = PersistedLedgers \ {d}
      /\ \A x \in PersistedUsers' : store'[x] = store[x]
      /\ \A x \in PersistedLedgers' : store'[x] = store[x]
  BY DEF PersistedUsers, PersistedLedgers
<1>2. StoreInv'
  BY <1>1 DEF StoreConsistent, StoreInv, PersistedUsers, PersistedLedgers
<1>3. ActiveIsPersisted'
  <2> SUFFICES ASSUME NEW x \in PersistedUsers', Active(x)' # NoLedger
               PROVE  Active(x)' \in PersistedLedgers' /\ store'[Active(x)'].user_id = x
    BY DEF ActiveIsPersisted
  <2>1. x \in PersistedUsers /\ Active(x)' = Active(x) /\ Active(x) # d
    BY <1>1 DEF Active
  <2>2. Active(x) \in PersistedLedgers /\ store[Active(x)].user_id = x
    BY <2>1 DEF StoreConsistent, ActiveIsPersisted
  <2> QED BY <2>1, <2>2, <1>1
<1>4. SecretsUnique'
  <2> SUFFICES ASSUME NEW x \in PersistedUsers', NEW y \in PersistedUsers',
                      store'[x].content_hash = store'[y].content_hash
               PROVE  x = y
    BY DEF SecretsUnique
  <2> QED BY ZenonT(40), <1>1 DEF StoreConsistent, SecretsUnique
<1> QED BY <1>2, <1>3, <1>4 DEF StoreConsistent

-----------------------------------------------------------------------------
\* Each write a request may have left keeps the store consistent and leaves
\* writes that rely on what the store now holds.
LEMMA WriteStep == ASSUME IInv, Write PROVE IInv'
<1> USE DEF StoreConsistent
<1>1. StoreConsistent /\ issued' = issued
  BY DEF IInv, Write
<1>2. SUFFICES StoreConsistent' /\ TodoInv'
  BY DEF IInv, Write
<1> HIDE DEF StoreConsistent
<1>3. ASSUME NEW u \in Users, NEW v \in UserValues, todo = <<Save(u, v)>>,
             MaySave(u, v), PointsAtOwn(u, v)
      PROVE  StoreConsistent' /\ TodoInv'
  <2>1. /\ store' = [x \in DOMAIN store \cup {u} |-> IF x = u THEN v ELSE store[x]]
        /\ todo' = <<>>
    BY <1>3 DEF Write, Save
  <2> QED BY <1>1, <1>3, <2>1, SaveUserKeeps DEF TodoInv
<1>4. ASSUME NEW u \in Users, NEW v \in UserValues, NEW l \in Ledgers \cap issued,
             todo = <<Save(l, LedgerOf(u)), Save(u, v)>>,
             MaySave(u, v), v.current_ledger_id \in {l, NoLedger}, LeftTo(l, u)
      PROVE  StoreConsistent' /\ TodoInv'
  <2>1. /\ store' = [x \in DOMAIN store \cup {l} |-> IF x = l THEN LedgerOf(u) ELSE store[x]]
        /\ todo' = <<Save(u, v)>>
    BY <1>4 DEF Write, Save
  <2>2. /\ StoreConsistent'
        /\ PersistedUsers' = PersistedUsers
        /\ \A x \in PersistedUsers : store'[x] = store[x]
        /\ l \in PersistedLedgers' /\ store'[l].user_id = u
    BY <1>1, <1>4, <2>1, SaveLedgerKeeps
  <2>3. MaySave(u, v)' /\ PointsAtOwn(u, v)'
    BY <1>1, <1>4, <2>2 DEF MaySave, PointsAtOwn
  <2>4. SavesUser'
    BY <2>1, <2>3 DEF SavesUser, Save
  <2> QED BY <2>2, <2>4 DEF TodoInv
<1>5. ASSUME NEW u \in Users, NEW v \in UserValues, NEW l \in Ledgers,
             todo = <<Save(u, v), Delete(l)>>,
             MaySave(u, v), v.current_ledger_id = NoLedger, LeftTo(l, u)
      PROVE  StoreConsistent' /\ TodoInv'
  <2>1. /\ store' = [x \in DOMAIN store \cup {u} |-> IF x = u THEN v ELSE store[x]]
        /\ todo' = <<Delete(l)>>
    BY <1>5 DEF Write, Save
  <2>2. /\ StoreConsistent'
        /\ PersistedUsers' = PersistedUsers \cup {u}
        /\ \A x \in PersistedUsers' : store'[x] = IF x = u THEN v ELSE store[x]
    BY <1>1, <1>5, <2>1, SaveUserKeeps DEF PointsAtOwn
  <2>3. \A x \in PersistedUsers' : Active(x)' # l
    BY <1>5, <2>2, ServiceAssumption DEF LeftTo, Active
  <2>4. DeletesStory'
    BY <2>1, <2>3 DEF DeletesStory, Delete
  <2> QED BY <2>2, <2>4 DEF TodoInv
<1>6. ASSUME NEW d \in Users \cup Ledgers, todo = <<Delete(d)>>,
             \A x \in PersistedUsers : Active(x) # NoLedger => Active(x) # d
      PROVE  StoreConsistent' /\ TodoInv'
  <2>1. store' = [x \in DOMAIN store \ {d} |-> store[x]] /\ todo' = <<>>
    BY <1>6 DEF Write, Delete
  <2> QED BY <1>1, <1>6, <2>1, DeleteKeeps DEF TodoInv
<1>7. DeletesUser => StoreConsistent' /\ TodoInv'
  <2> SUFFICES ASSUME NEW u \in Users, todo = <<Delete(u)>>
               PROVE  StoreConsistent' /\ TodoInv'
    BY DEF DeletesUser
  <2>1. \A x \in PersistedUsers : Active(x) # NoLedger => Active(x) # u
    BY <1>1, ServiceAssumption DEF StoreConsistent, ActiveIsPersisted, PersistedLedgers
  <2> QED BY <1>6, <2>1
<1>8. DeletesStory => StoreConsistent' /\ TodoInv'
  BY <1>6 DEF DeletesStory
<1> QED
  BY <1>3, <1>4, <1>5, <1>7, <1>8
  DEF IInv, TodoInv, Write, SavesUser, SavesStory, DropsStory

\* A step that writes nothing yet: it is enough that the writes it leaves are
\* among those the invariant allows.
LEMMA PlanStep ==
  ASSUME IInv, store' = store, process' \in {"down", "starting", "up"},
         api_key_index' \in [Secrets -> Users \cup {NoUser}],
         issued \subseteq issued', issued' \subseteq Users \cup Ledgers, TodoInv'
  PROVE  IInv'
<1>1. PersistedUsers' = PersistedUsers /\ PersistedLedgers' = PersistedLedgers
  BY DEF PersistedUsers, PersistedLedgers
<1>2. StoreInv'
  BY <1>1 DEF IInv, StoreInv
<1>3. ActiveIsPersisted' /\ SecretsUnique'
  BY <1>1 DEF IInv, ActiveIsPersisted, SecretsUnique, Active
<1> QED BY <1>2, <1>3 DEF IInv

\* Authentication records a user, or nobody, under the key.
LEMMA IndexTyped ==
  ASSUME IInv, NEW key \in Secrets, NEW u \in Users \cup {NoUser}, Authenticate(key, u)
  PROVE  api_key_index' \in [Secrets -> Users \cup {NoUser}]
BY DEF IInv, Authenticate

\* Writing a persisted user back under its own secret.
LEMMA OwnSecret ==
  ASSUME IInv, NEW u \in PersistedUsers, NEW l \in Ledgers \cup {NoLedger}
  PROVE  MaySave(u, User(store[u].content_hash, l))
<1>1. u \in Users \cap issued /\ store[u] \in UserValues
  BY DEF IInv, StoreInv, PersistedUsers
<1>2. User(store[u].content_hash, l) \in UserValues
  BY <1>1 DEF User, UserValues
<1> QED BY <1>1, <1>2 DEF IInv, SecretsUnique, MaySave, User

\* The active ledger of a user with a session: persisted, and nobody else's.
LEMMA SessionLedger ==
  ASSUME IInv, NEW u \in Users, HasSession(u)
  PROVE  /\ u \in PersistedUsers /\ Active(u) \in Ledgers \cap issued
         /\ LeftTo(Active(u), u)
<1>1. u \in PersistedUsers /\ Active(u) \in Ledgers \cap issued
  BY DEF IInv, StoreInv, HasSession, PersistedLedgers
<1>2. Active(u) # NoLedger
  BY <1>1, ServiceAssumption
<1>3. LeftTo(Active(u), u)
  <2> SUFFICES ASSUME NEW x \in PersistedUsers, Active(x) = Active(u) PROVE x = u
    BY DEF LeftTo
  <2>1. store[Active(x)].user_id = x /\ store[Active(u)].user_id = u
    BY <1>1, <1>2 DEF IInv, ActiveIsPersisted
  <2> QED BY <2>1
<1> QED BY <1>1, <1>3

-----------------------------------------------------------------------------
\* The user made or restored for a secret, by a request or at startup.
LEMMA CreateUserStep ==
  ASSUME IInv, NEW secret \in Secrets, CreateUser(secret), process' \in {"down", "starting", "up"}
  PROVE  IInv'
<1>1. /\ store' = store
      /\ api_key_index' \in [Secrets -> Users \cup {NoUser}]
      /\ PersistedUsers' = PersistedUsers
  BY DEF CreateUser, IInv, PersistedUsers
<1>2. CASE todo' = <<>> /\ issued' = issued
  BY <1>1, <1>2, PlanStep DEF TodoInv, IInv, StoreInv
<1>3. ASSUME NEW u \in Users \ issued, todo' = <<Save(u, User(secret, NoLedger))>>,
             issued' = issued \cup {u}, Owners(secret) = {}
      PROVE  IInv'
  <2>1. User(secret, NoLedger) \in UserValues
    BY DEF User, UserValues
  <2>2. MaySave(u, User(secret, NoLedger))'
    BY <1>1, <1>3, <2>1 DEF MaySave, Owners, User
  <2>3. PointsAtOwn(u, User(secret, NoLedger))'
    BY DEF PointsAtOwn, User
  <2>4. SavesUser'
    BY <1>3, <2>1, <2>2, <2>3 DEF SavesUser, Save
  <2> QED BY <1>1, <1>3, <2>4, PlanStep DEF TodoInv, IInv, StoreInv
<1> QED BY <1>2, <1>3 DEF CreateUser

\* A new secret is written only when no other user has it.
LEMMA UpdateSecretStep ==
  ASSUME IInv, NEW key \in Secrets, NEW u \in Users \cup {NoUser}, NEW secret \in Secrets,
         UpdateSecret(key, u, secret)
  PROVE  IInv'
<1> PICK v : v = User(secret, store[u].current_ledger_id)
  OBVIOUS
<1>1. /\ u \in PersistedUsers /\ u \in Users \cap issued /\ store[u] \in UserValues
      /\ store' = store /\ issued' = issued /\ process' = process
      /\ todo' = <<Save(u, v)>>
  BY DEF UpdateSecret, Writes, IInv, StoreInv, PersistedUsers
<1>2. v \in UserValues
  BY <1>1 DEF User, UserValues
<1>3. MaySave(u, v)
  BY <1>1, <1>2 DEF MaySave, UpdateSecret, SecretTaken, Owners, User
<1>4. PointsAtOwn(u, v)
  BY <1>1 DEF IInv, ActiveIsPersisted, PointsAtOwn, Active, User
<1>5. MaySave(u, v)' /\ PointsAtOwn(u, v)'
  BY <1>1, <1>3, <1>4 DEF MaySave, PointsAtOwn, PersistedUsers, PersistedLedgers
<1>6. SavesUser'
  BY <1>1, <1>2, <1>5 DEF SavesUser, Save
<1> QED BY <1>1, <1>6, IndexTyped, PlanStep DEF UpdateSecret, TodoInv, IInv, StoreInv

\* A dropped user is deleted; its stories stay, with nobody pointing at them.
LEMMA DropUserStep ==
  ASSUME IInv, NEW key \in Secrets, NEW u \in Users \cup {NoUser}, DropUser(key, u)
  PROVE  IInv'
<1>1. /\ u \in Users /\ store' = store /\ issued' = issued /\ process' = process
      /\ todo' = <<Delete(u)>>
  BY DEF DropUser, Writes, PersistedUsers
<1>2. DeletesUser'
  BY <1>1 DEF DeletesUser, Delete
<1> QED BY <1>1, <1>2, IndexTyped, PlanStep DEF DropUser, TodoInv, IInv, StoreInv

\* A new ledger has a new uid, so nobody points at it before its user does.
LEMMA CreateStoryStep ==
  ASSUME IInv, NEW key \in Secrets, NEW u \in Users \cup {NoUser}, CreateStory(key, u)
  PROVE  IInv'
<1>1. u \in PersistedUsers /\ u \in Users /\ Authenticate(key, u)
  BY DEF CreateStory, PersistedUsers
<1>2. PICK l \in Ledgers \ issued :
        /\ issued' = issued \cup {l} /\ todo' = StoryWrites(u, l)
        /\ store' = store /\ process' = process
  BY DEF CreateStory
<1> PICK v : v = User(store[u].content_hash, l)
  OBVIOUS
<1>3. MaySave(u, v)
  BY <1>1, OwnSecret
<1>4. v.current_ledger_id = l /\ v \in UserValues
  BY <1>3 DEF MaySave, User
<1>5. LeftTo(l, u)
  BY <1>2, ServiceAssumption
  DEF LeftTo, IInv, ActiveIsPersisted, StoreInv, PersistedLedgers
<1>6. MaySave(u, v)' /\ LeftTo(l, u)'
  BY <1>1, <1>2, <1>3, <1>5 DEF MaySave, LeftTo, PersistedUsers, Active
<1>7. todo' = <<Save(l, LedgerOf(u)), Save(u, v)>>
  BY <1>2 DEF StoryWrites
<1>8. SavesStory'
  BY <1>1, <1>2, <1>4, <1>6, <1>7 DEF SavesStory, Save, LedgerOf
<1> QED BY <1>1, <1>2, <1>8, IndexTyped, PlanStep DEF TodoInv, IInv, StoreInv

\* A choice writes back the active ledger and the user that points at it.
LEMMA ResolveChoiceStep ==
  ASSUME IInv, NEW key \in Secrets, NEW u \in Users \cup {NoUser}, ResolveChoice(key, u)
  PROVE  IInv'
<1>1. u \in Users /\ HasSession(u) /\ Authenticate(key, u)
  BY DEF ResolveChoice, HasSession, PersistedUsers
<1>2. u \in PersistedUsers /\ Active(u) \in Ledgers \cap issued /\ LeftTo(Active(u), u)
  BY <1>1, SessionLedger
<1>3. /\ store' = store /\ issued' = issued /\ process' = process
      /\ todo' = <<Save(Active(u), LedgerOf(u)), Save(u, store[u])>>
  BY DEF ResolveChoice, Writes
<1>4. store[u] \in UserValues /\ MaySave(u, store[u])
  BY <1>2 DEF IInv, StoreInv, SecretsUnique, MaySave, PersistedUsers
<1>5. MaySave(u, store[u])' /\ LeftTo(Active(u), u)'
  BY <1>2, <1>3, <1>4 DEF MaySave, LeftTo, PersistedUsers, Active
<1> PICK v : v = store[u]
  OBVIOUS
<1> PICK l : l = Active(u)
  OBVIOUS
<1>6. /\ v \in UserValues /\ l \in Ledgers \cap issued /\ v.current_ledger_id = l
      /\ todo' = <<Save(l, LedgerOf(u)), Save(u, v)>>
      /\ MaySave(u, store[u])' /\ LeftTo(Active(u), u)'
  BY <1>2, <1>3, <1>4, <1>5 DEF Active
<1>7. store'[u] = v /\ Active(u)' = l
  BY <1>3 DEF Active
<1>8. SavesStory'
  BY <1>1, <1>3, <1>6, <1>7 DEF SavesStory, Save, LedgerOf
<1> QED BY <1>1, <1>3, <1>8, IndexTyped, PlanStep DEF TodoInv, IInv, StoreInv

\* A dropped story is let go of first; archived, it is not deleted.
LEMMA DropStoryStep ==
  ASSUME IInv, NEW key \in Secrets, NEW u \in Users \cup {NoUser}, NEW archive \in BOOLEAN,
         DropStory(key, u, archive)
  PROVE  IInv'
<1>1. u \in Users /\ HasSession(u) /\ Authenticate(key, u)
  BY DEF DropStory, HasSession, PersistedUsers
<1> PICK v : v = User(store[u].content_hash, NoLedger)
  OBVIOUS
<1> PICK l : l = Active(u)
  OBVIOUS
<1>2. u \in PersistedUsers /\ l \in Ledgers \cap issued /\ LeftTo(l, u)
  BY <1>1, SessionLedger
<1>3. store' = store /\ issued' = issued /\ process' = process
  BY DEF DropStory, Writes
<1>4. MaySave(u, v) /\ v.current_ledger_id = NoLedger /\ v \in UserValues
  BY <1>2, OwnSecret DEF MaySave, User
<1>5. CASE archive
  <2>1. todo' = <<Save(u, v)>>
    BY <1>5 DEF DropStory, Writes
  <2>2. MaySave(u, v)' /\ PointsAtOwn(u, v)'
    BY <1>3, <1>4 DEF MaySave, PointsAtOwn, PersistedUsers, User
  <2>3. SavesUser'
    BY <1>1, <1>4, <2>1, <2>2 DEF SavesUser, Save
  <2> QED BY <1>1, <1>3, <2>3, IndexTyped, PlanStep DEF TodoInv, IInv, StoreInv
<1>6. CASE ~archive
  <2>1. todo' = <<Save(u, v), Delete(l)>>
    BY <1>6 DEF DropStory, Writes
  <2>2. MaySave(u, v)' /\ LeftTo(l, u)'
    BY <1>2, <1>3, <1>4 DEF MaySave, LeftTo, PersistedUsers, Active
  <2>3. DropsStory'
    BY <1>1, <1>2, <1>3, <1>4, <2>1, <2>2 DEF DropsStory, Save, Delete
  <2> QED BY <1>1, <1>3, <2>3, IndexTyped, PlanStep DEF TodoInv, IInv, StoreInv
<1> QED BY <1>5, <1>6

-----------------------------------------------------------------------------
\* Every step of the service keeps the invariant.
LEMMA StepInv == ASSUME IInv, [Next]_vars PROVE IInv'
<1>1. CASE Write
  BY <1>1, WriteStep
<1>2. ASSUME NEW key \in Secrets, NEW u \in Users \cup {NoUser}, NoWrites(key, u)
      PROVE  IInv'
  BY <1>2, IndexTyped, PlanStep DEF NoWrites, Writes, TodoInv, IInv, StoreInv
<1>3. ASSUME NEW key \in Secrets, NEW u \in Users \cup {NoUser},
             \/ \E secret \in Secrets : UpdateSecret(key, u, secret)
             \/ DropUser(key, u)
             \/ CreateStory(key, u)
             \/ ResolveChoice(key, u)
             \/ \E archive \in BOOLEAN : DropStory(key, u, archive)
      PROVE  IInv'
  BY <1>3, UpdateSecretStep, DropUserStep, CreateStoryStep, ResolveChoiceStep, DropStoryStep
<1>4. ASSUME NEW secret \in Secrets, CreateUserRequest(secret)
      PROVE  IInv'
  BY <1>4, CreateUserStep DEF CreateUserRequest, IInv
<1>5. CASE Crash
  BY <1>5, PlanStep DEF Crash, NoKeys, TodoInv, IInv, StoreInv
<1>6. CASE Fail
  BY <1>6, PlanStep DEF Fail, TodoInv, IInv, StoreInv
<1>7. CASE Started
  BY <1>7, PlanStep DEF Started, TodoInv, IInv, StoreInv
<1>8. CASE Startup
  BY <1>8, CreateUserStep, ServiceAssumption DEF Startup
<1>9. CASE UNCHANGED vars
  BY <1>9 DEF vars, IInv, StoreInv, ActiveIsPersisted, SecretsUnique, Active,
     PersistedUsers, PersistedLedgers, TodoInv, SavesUser, SavesStory, DropsStory,
     DeletesStory, DeletesUser, MaySave, PointsAtOwn, LeftTo
<1> QED BY <1>1, <1>2, <1>3, <1>4, <1>5, <1>6, <1>7, <1>8, <1>9 DEF Next

\* What the writes left over rely on, and what the store holds, always.
THEOREM StoreAlwaysConsistent == Spec => []IInv
<1>1. Init => IInv
  BY InitInv
<1>2. IInv /\ [Next]_vars => IInv'
  BY StepInv
<1> QED BY <1>1, <1>2, PTL DEF Spec

\* Store, writes and index have their types, whatever requests run and
\* wherever the process crashes.
THEOREM ServiceTypeCorrect == Spec => []TypeOK
<1>1. IInv => TypeOK
  BY InvTypes
<1> QED BY <1>1, StoreAlwaysConsistent, PTL

\* After every write, and so after a crash between any two, the ledger a user
\* points at is persisted and its own.
THEOREM ActiveLedgerPersisted == Spec => []ActiveIsPersisted
<1>1. IInv => ActiveIsPersisted
  BY DEF IInv
<1> QED BY <1>1, StoreAlwaysConsistent, PTL

\* No two users in the store share a recovery secret.
THEOREM SecretsAlwaysUnique == Spec => []SecretsUnique
<1>1. IInv => SecretsUnique
  BY DEF IInv
<1> QED BY <1>1, StoreAlwaysConsistent, PTL

\* Where iterating the store yields uids, authentication finds the owner of the
\* key and nobody else, whatever the index holds.
THEOREM KeyResolvesToOwner == ASSUME ScanYieldsKeys PROVE Spec => []KeyFindsOwner
<1>1. IInv => KeyFindsOwner
  <2> SUFFICES ASSUME IInv, NEW key \in Secrets
               PROVE  Authenticated(key) = Owners(key)
    BY DEF KeyFindsOwner
  <2>1. \A u, w \in Owners(key) : u = w
    BY DEF IInv, SecretsUnique, Owners
  <2> QED BY <2>1 DEF Authenticated, CacheHit, ScanRaises
<1> QED BY <1>1, StoreAlwaysConsistent, PTL
=============================================================================
