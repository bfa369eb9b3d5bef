-------------------------------- MODULE Service --------------------------------
(***************************************************************************)
(* Users and their stories in the persistent store, as the REST service    *)
(* handles them (service/service_manager.py, service/auth.py,              *)
(* persistence/manager.py, rest/dependencies_gateway.py).  One process     *)
(* runs a request at a time, but a request writes several resources one    *)
(* after the other, and the process may crash between any two writes.      *)
(* What is inside a ledger is the subject of module Ledger.                *)
(***************************************************************************)
EXTENDS Sequences

CONSTANTS
    Users, Ledgers,    \* uids
    Secrets,           \* recovery secrets; a key is the hash of a secret
    NoUser, NoLedger,  \* no uid
    client_secret,     \* settings.client.secret, the user made at startup
    ScanYieldsKeys     \* iterating the store yields uids (sqlite, redis), not
                       \* paths or documents (file, mongo)

ASSUME ServiceAssumption ==
    /\ Users \cap Ledgers = {}
    /\ NoUser \notin Users \cup Ledgers
    /\ NoLedger \notin Users \cup Ledgers
    /\ client_secret \in Secrets
    /\ ScanYieldsKeys \in BOOLEAN

VARIABLES
    store,          \* the persisted resources, by uid
    issued,         \* the uids given out so far: uuid4 never gives one twice
    process,        \* "down", "starting" or "up"
    todo,           \* the writes the request in flight has yet to make
    api_key_index   \* key -> the user it was last resolved to

vars == <<store, issued, process, todo, api_key_index>>

User(secret, ledger) == [content_hash |-> secret, current_ledger_id |-> ledger]
UserValues == [content_hash: Secrets, current_ledger_id: Ledgers \cup {NoLedger}]
\* Mutant: the new ledger is not linked to its user.
LedgerUnlinked(u) == [user_id |-> NoUser]

LedgerOf(u) == [user_id |-> u]
LedgerValues == [user_id: Users]

PersistedUsers == Users \cap DOMAIN store
PersistedLedgers == Ledgers \cap DOMAIN store

NoKeys == [key \in Secrets |-> NoUser]

Init ==
    /\ store = [uid \in {} |-> LedgerOf(uid)]
    /\ issued = {}
    /\ process = "down"
    /\ todo = <<>>
    /\ api_key_index = NoKeys

-----------------------------------------------------------------------------
\* PersistenceManager.save and remove, as the writes of a request.
Save(uid, value) == [op |-> "save", uid |-> uid, value |-> value]
Delete(uid) == [op |-> "delete", uid |-> uid]

\* One write of the request in flight.
Write ==
    /\ todo # <<>>
    /\ LET w == Head(todo)
       IN  store' = IF w.op = "save"
                    THEN [uid \in DOMAIN store \cup {w.uid} |->
                             IF uid = w.uid THEN w.value ELSE store[uid]]
                    ELSE [uid \in DOMAIN store \ {w.uid} |-> store[uid]]
    /\ todo' = Tail(todo)
    /\ UNCHANGED <<issued, process, api_key_index>>

-----------------------------------------------------------------------------
\* user_id_by_key.  The scan loads every value; it raises when iterating the
\* store yields something else than its keys.
ScanRaises == ~ScanYieldsKeys /\ DOMAIN store # {}
Owners(key) == {u \in PersistedUsers : store[u].content_hash = key}

\* Mutant: an indexed user is trusted while it is persisted.
CacheHitUnchecked(key) == api_key_index[key] \in PersistedUsers

\* An indexed user counts only if it still has the key's hash.
CacheHit(key) == api_key_index[key] \in Owners(key)

Authenticated(key) ==
    IF CacheHit(key) THEN {api_key_index[key]}
    ELSE IF ScanRaises THEN {} ELSE Owners(key)

Ready == process = "up" /\ todo = <<>>

\* A REST request: resolve_user_auth, then the service method for that user.
\* A key that resolves to nobody leaves the index without it.
Authenticate(key, u) ==
    /\ Ready
    /\ IF Authenticated(key) = {} THEN u = NoUser ELSE u \in Authenticated(key)
    /\ api_key_index' = [api_key_index EXCEPT ![key] = u]

\* The writes the method makes, after everything that could raise.
Writes(s) == todo' = s /\ UNCHANGED <<store, process>>

\* The request is refused, or only reads.
NoWrites(key, u) ==
    Authenticate(key, u) /\ Writes(<<>>) /\ UNCHANGED issued

-----------------------------------------------------------------------------
\* Mutant: a rotated secret is not looked up first.
SecretTakenUnchecked(secret, u) == FALSE

\* Another user has the secret.
SecretTaken(secret, u) == Owners(secret) \ {u} # {}

\* create_user, unauthenticated: restores the owner of the secret, or makes one.
CreateUser(secret) ==
    /\ ~ScanRaises
    /\ \/ /\ Owners(secret) # {}
          /\ todo' = <<>> /\ UNCHANGED issued
       \/ /\ Owners(secret) = {}
          /\ \E u \in Users \ issued :
                /\ todo' = <<Save(u, User(secret, NoLedger))>>
                /\ issued' = issued \cup {u}
    /\ UNCHANGED <<store, api_key_index>>

CreateUserRequest(secret) ==
    Ready /\ CreateUser(secret) /\ UNCHANGED process

\* update_user with a new secret; the whole user is written back.
UpdateSecret(key, u, secret) ==
    /\ Authenticate(key, u) /\ u \in PersistedUsers
    /\ ~ScanRaises /\ ~SecretTaken(secret, u)
    /\ Writes(<<Save(u, User(secret, store[u].current_ledger_id))>>)
    /\ UNCHANGED issued

\* drop_user deletes the user, and nothing else.
DropUser(key, u) ==
    /\ Authenticate(key, u) /\ u \in PersistedUsers
    /\ Writes(<<Delete(u)>>)
    /\ UNCHANGED issued

-----------------------------------------------------------------------------
\* Mutant: the user is written before its new ledger.
StoryWritesUserFirst(u, l) ==
    <<Save(u, User(store[u].content_hash, l)), Save(l, LedgerOf(u))>>

\* create_story saves the new ledger; open_user writes the user on exit.
StoryWrites(u, l) ==
    <<Save(l, LedgerOf(u)), Save(u, User(store[u].content_hash, l))>>

CreateStory(key, u) ==
    /\ Authenticate(key, u) /\ u \in PersistedUsers
    /\ \E l \in Ledgers \ issued :
          /\ issued' = issued \cup {l}
          /\ todo' = StoryWrites(u, l)
          /\ UNCHANGED <<store, process>>

\* open_session of a user: the active ledger, which must be in the store.
Active(u) == store[u].current_ledger_id
HasSession(u) == u \in PersistedUsers /\ Active(u) \in PersistedLedgers

\* resolve_choice: ledger and user are written back, the inner context first.
ResolveChoice(key, u) ==
    /\ Authenticate(key, u) /\ HasSession(u)
    /\ Writes(<<Save(Active(u), LedgerOf(u)), Save(u, store[u])>>)
    /\ UNCHANGED issued

\* drop_story: the user lets go of its ledger, which is then deleted unless it
\* is to be archived.
DropStory(key, u, archive) ==
    /\ Authenticate(key, u) /\ HasSession(u)
    /\ LET letgo == Save(u, User(store[u].content_hash, NoLedger))
       IN  Writes(IF archive THEN <<letgo>> ELSE <<letgo, Delete(Active(u))>>)
    /\ UNCHANGED issued

-----------------------------------------------------------------------------
\* A write raises, or removing the media of a dropped story does before its
\* ledger is deleted: the request gives up.
Fail ==
    /\ process = "up" /\ todo # <<>>
    /\ todo' = <<>>
    /\ UNCHANGED <<store, issued, process, api_key_index>>

\* The process ends, in the middle of a request or not: what it had in memory
\* is lost, the store stays.
Crash ==
    /\ process # "down"
    /\ process' = "down"
    /\ todo' = <<>>
    /\ api_key_index' = NoKeys
    /\ UNCHANGED <<store, issued>>

\* The lifespan of the REST app begins with the user of the client's secret.
Startup ==
    /\ process = "down"
    /\ process' = "starting"
    /\ CreateUser(client_secret)

Started ==
    /\ process = "starting" /\ todo = <<>>
    /\ process' = "up"
    /\ UNCHANGED <<store, issued, todo, api_key_index>>

Next ==
    \/ Write
    \/ \E key \in Secrets, u \in Users \cup {NoUser} :
          \/ NoWrites(key, u)
          \/ \E secret \in Secrets : UpdateSecret(key, u, secret)
          \/ DropUser(key, u)
          \/ CreateStory(key, u)
          \/ ResolveChoice(key, u)
          \/ \E archive \in BOOLEAN : DropStory(key, u, archive)
    \/ \E secret \in Secrets : CreateUserRequest(secret)
    \/ Fail
    \/ Crash
    \/ Startup
    \/ Started

Spec == Init /\ [][Next]_vars

-----------------------------------------------------------------------------
TodoOK(s) ==
    \A i \in DOMAIN s :
        \/ s[i].op = "delete" /\ s[i].uid \in Users \cup Ledgers
        \/ s[i].op = "save" /\ s[i].uid \in Users /\ s[i].value \in UserValues
        \/ s[i].op = "save" /\ s[i].uid \in Ledgers /\ s[i].value \in LedgerValues

TypeOK ==
    /\ DOMAIN store \subseteq Users \cup Ledgers
    /\ \A u \in PersistedUsers : store[u] \in UserValues
    /\ \A l \in PersistedLedgers : store[l] \in LedgerValues
    /\ issued \subseteq Users \cup Ledgers
    /\ process \in {"down", "starting", "up"}
    /\ TodoOK(todo)
    /\ api_key_index \in [Secrets -> Users \cup {NoUser}]

\* Wherever the process stops, a user's active ledger is in the store, and is
\* its own: a story is saved before the user points at it, and let go of before
\* it is deleted (create_story, drop_story; open_session raises otherwise).
ActiveIsPersisted ==
    \A u \in PersistedUsers :
        Active(u) # NoLedger =>
            Active(u) \in PersistedLedgers /\ store[Active(u)].user_id = u

\* A recovery secret names one user at most, also after rotations, crashes and
\* dropped users (create_user, update_user).
SecretsUnique ==
    \A u, v \in PersistedUsers :
        store[u].content_hash = store[v].content_hash => u = v

\* A key always resolves to the user who holds its secret now, whatever the
\* index remembers of rotated secrets and dropped users (user_id_by_key).
KeyFindsOwner == \A key \in Secrets : Authenticated(key) = Owners(key)
=============================================================================
