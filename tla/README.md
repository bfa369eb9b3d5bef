# StoryTangl in TLA+

StoryTangl runs branching stories. A *story graph* of nodes and edges is
traversed by a player; every choice runs a *frame*, a chain of hops through a
pipeline of phases; a *ledger* keeps the traversal's long-lived state and the
records from which any earlier step can be restored; a *service* keeps users and
ledgers in a persistent store. The modules here model that spine: traversal,
ledger, replay and rollback, and the service with its store. Beside it they model
what handlers of the phases do to the graph: *provisioning*, which builds the story
while it is played; the *media* a worker draws for it; and the mechanics, namely
*games* with the queue simulation, the *sandbox*, and the *transaction offers* by
which parties exchange coins, items and components. All of it is checked by TLC on
small instances; the spine, the offers, the sandbox, the media and the credentials are
also proved with TLAPS, for every story and every size.

## 1. The system

| Component | Code | State it keeps | Operations | Talks to |
|---|---|---|---|---|
| Story graph | `vm/traversable.py`, `vm/system_handlers.py`, `core/` | nodes, edges, visit counts, providers of dependencies | follow, redirect, descend, mark visited | mutated by handlers of frames |
| Frame | `vm/runtime/frame.py` | cursor, return stack, pending redirect, step trace | `follow_edge`, `resolve_choice`, `goto_node` | reads and mutates the ledger's graph and stream; reports each hop to the ledger's step observer |
| Ledger | `vm/runtime/ledger.py`, `causality.py` | graph, output stream, cursor, history, counters, call stack, causality mode | `resolve_choice`, `save_snapshot`, `rollback_to_step`, `mark_soft_dirty`, `escalate_to_hard_dirty`, `set_bookmark`, `get_current_update` | creates frames; loaded and saved by the service |
| Replay | `vm/replay/` | none of its own | build a delta, apply it, make and restore a checkpoint | called by the ledger |
| Provisioning | `vm/provision/` | requirements and providers in the graph | gather, rank and accept offers, create from templates | called in PLANNING and when a choice's destination is open |
| Service manager | `service/service_manager.py` | none between calls | create/drop story and user, choose, update, info, rotate secret | opens resources of the store as nested contexts |
| Authentication | `service/auth.py`, `rest/dependencies_gateway.py` | reverse index of keys | `user_id_by_key` | scans the store |
| Persistence | `persistence/` | the stored resources | save, load, remove, open with write-back | storage back ends: memory, files, sqlite, redis, mongo |
| REST server | `apps/server` | the service singleton, per-user locks | requests, startup | service manager |
| Transactions | `mechanics/transaction.py`, `mechanics/assembly/`, `story/concepts/asset/` | an offer's commitments with what they need to be undone; wallets, holders, slots | `can_accept`, `accept`; `can_commit`, `commit`, `rollback` of eight kinds of commitment | holders, component managers, the graph's registry |
| Games | `mechanics/games/`, `mechanics/simulation/` | a game's state, score and history; the moves on its block's dynamic actions; queues, places and a calendar | set up, offer moves, receive a move, run events | handlers of PLANNING and UPDATE |
| Credentials | `mechanics/credentials/`, `games/credentials_*.py` | packets of papers and goods under the rules of a day; a shift's candidate, findings, time and penalties | sample and spoil packets; inspect, request, decide | a kind of game |
| Sandbox | `mechanics/sandbox/` | clock, holdings, light, charge, locks, lids | project a location's choices, apply the effect of one, schedule events | handlers of PREREQS, PLANNING and UPDATE |
| Media | `media/`, `service/media.py` | resource tags in the graph, jobs of workers, files | provision, poll, submit, fall back | PLANNING, journal, workers, what the service sends |
| Story | `story/`, `loaders/`, `ir/` | compiled worlds | compile, materialise, journal a block's choices | graph, provisioning |
| Front ends | `apps/cli`, `apps/renpy`, `apps/web`, `service/remote_service_manager.py` | a session's ids | call the service | service manager or REST |
| Text | `journal/`, `lang/`, `prose/` | none | fragments and rendering | stream |

`PROJECT.json` lists each of them with its status.

### What is hard here

* A choice is a chain of hops whose effects are applied as they happen. There is
  no transaction around it: a handler, a validation or the depth limit may raise
  after any hop, with the graph changed and records appended while the ledger's
  counters stand still.
* Rollback does not go back; it rebuilds. The graph comes from one record and
  the deltas after it, the cursor and the stack from another, the history and
  the counters from a third kind, and the stream is cut by a rule about its
  order. They were all written at different moments of a choice.
* What a graph is in memory is more than what it is when it is written down: visits
  are counted in place in a field that is only written if it was set, and every
  rollback and every request builds the graph from what was written.
* Records of one stream carry steps that are not monotone: a causality
  transition is stamped with the last *committed* step, in the middle of a
  choice.
* Calls return through the same loop that follows redirects, may be open at the
  step a rollback lands on, and may nest.
* The service writes several resources one after the other, with no transaction.
* The key index is a cache over users that rotate their secrets and are dropped.
* An offer is undone leg by leg through the same guarded methods that carried it
  out, in a world that is only half put back, by objects that remember what they
  did, and may be used again.
* A choice is offered in one request and taken in a later one: it was previewed on a
  graph that has changed since, projected before the effect of the choice that led
  there, or built from a game state that a failing frame left half changed.
* Building recurses: a choice needs a scene, the scene its entry, the entry a role,
  and a menu whose items are built while its neighbours are planned.
* A worker answers passes later, badly or never, and shares nothing with a session
  that fails, rolls back or is loaded again.

### What makes each component correct

| Component | Promise | Stated as |
|---|---|---|
| Frame | calls made during a choice return; every choice ends; visits are only counted for arrivals | `CallsReturn`, `ChoicesSettle`, `VisitsWithinHistory` |
| Ledger | a line of moments: choices add, rollbacks cut, nothing is rewritten | `Timeline`, `ImplementsTimeline` |
| Replay | every step restores what was lived there, as far as a graph can be stored | `RestoresEveryStep`, `CountersMatchRecords`, `RollbackKeepsHistory` |
| Stream | no record is ahead of the ledger; a rollback truncates; an update is the last choice | `NoRecordAhead`, `RollbackTruncates`, `UpdateIsLastChoice` |
| Service | after any write, a user's active ledger is persisted and its own; a secret names one user | `ActiveIsPersisted`, `SecretsUnique` |
| Authentication | a key finds the owner of its secret and nobody else | `KeyFindsOwner` |
| Transactions | an offer takes effect wholly or not at all; nothing is made, lost or doubled; slots are never overfilled; what the plan adds up does not fail later | `NothingSurvives`, `NothingLost`, `SlotsFit`, `PlanIsEnough` |
| Provisioning, story | nothing is built twice or in the wrong place; what is wired is wired whole; a choice shown as available can be taken; planning again changes nothing and a menu is complete | `EpisodesInPlace`, `WiredWhole`, `ShownIsTaken`, `Settled` |
| Games | a waiting game offers exactly what its rules allow; it is decided for a reason its state shows; nothing scarce is lost or overdrawn; it ends in time | `ReadyOffers`, `DecidedRightly`, `NothingOverdrawn`, `EndsInTime` |
| Credentials | asking helps or changes nothing, in any order; what is criminal by itself is not talked away; thorough work is not taxed; the next candidate is judged by its own packet | `DecidedRightly` (its parts `JudgedFairly` and `HandledFairly`), `RequestsAreMercy` |
| Simulation | a patient is in one place, no place idles while somebody waits, the books balance, stepping ends where running does | `QueueSound` |
| Sandbox | an offer that the predicates let through can be done; things are in one place and pass no closed lid; an event that happens once leads away once | `OffersSound`, `ThingsKept`, `OnceOnly` |
| Media | a picture is asked for once; what a slot was bound to stays; the client is sent the picture that was asked for; every pass collects what is done | `OneJob`, `ClaimedForGood`, `PictureFits`, `ResultsCollected` |

## 2. The modules

```
StoryGraph <- Frame <- Ledger <- LedgerHistory --implements--> Timeline
     ^                    ^             ^
  MCStory              MCLedger     MCHistory            MCService
                                                             |
   Ledger <- LedgerProofs                               Service <- ServiceProofs
                  ^
            LedgerHistory <- HistoryProofs

   Transaction <- SafeOffers <- MCTransaction
                      ^---- TransactionProofs
   Contests <- Solitaires <- Games <- MCGames        Provisioning <- MCProvisioning
                 Queueing <----|  ^---- GamesProofs  Sandbox      <- MCSandbox
   Credentials <- Checkpoint <-'                       ^---- SandboxProofs
     ^---- CredentialProofs                          MediaJobs    <- MCMediaJobs
                                                       ^---- MediaProofs
```

**StoryGraph** has no variables. A story is given by constants: nodes, edges with
their trigger, entry and return phases, containers with the members they may be
entered at, gated nodes. The graph's *value*, the part traversal changes, is a
record of visit counts, successors (an edge may be left open for provisioning)
and provided dependencies. `Stored` is what `unstructure` writes of it: a node authored without locals
(not in `Stateful`) has none, and the visits that `mark_visited` counted in the field's
default are left out. Its operators are the built-in handlers:
`PrereqRedirects` (`descend_into_container`, `follow_triggered_prereqs`),
`PostreqRedirects`, `MarkVisited`, `MayReject` (`validate_successor_exists`).
Whether a gated node is available at a moment is an authored predicate: a free
choice, unless causality is hard-dirty, where gates are permissive.

**Frame** has the variables a frame shares with its ledger, `graph`,
`output_stream` and `causality_mode`, and `frame`, a record with the fields of the
frame object and a place in its program. Each phase of the pipeline is an action,
because a handler may raise at any of them. `frame.loaded` is what the action
started from, to which a reload goes back. Records are sequences of tagged
records; a step record names its delta by its place in the stream.

**Ledger** adds the ledger's own fields. `BeginChoice`, then the frame's steps, then
`CommitChoice` or `FailChoice` are `Ledger.resolve_choice` under
`ServiceManager.resolve_choice`; `Prime` and `CommitPrime` are
`_prime_initial_update`; `Escalate` both transitions of the causality mode;
`RollbackToStep` the whole of `rollback_to_step`, computed by `Replay` and `Cutoff`.
Whatever is compared, hashed or written of a graph is `Stored` of it: deltas, checkpoints
and, at the end of each request to a store that does not keep live objects, the ledger's own
graph (`Persisted`), which the next request loads. What happens to a failed choice depends on the caller and on the store: a request
that names an edge drops the object (`Reload`); one that searches for an edge
answers a `ValueError` itself and saves the object (`KeepsRejected`); the default
in-memory store holds the live object itself (`NativeStore`).

**Timeline** says in one page what a player may rely on, with no word of frames or
records. **LedgerHistory** adds the history variable `lived`, the moment in which
each hop ended, and the refinement mapping: the moments of the timeline are the
lived ones of committed steps, with what can be stored of the graph of each, and `now` is what the ledger itself holds, so that
the refinement fails as soon as a rollback lands on something else than what was
lived.

**Service** is the store with users and ledgers under the requests of the REST
server. A request is authenticated, computes the list `todo` of the writes its
nested contexts make, in their order, and `Write` makes them one at a time; `Fail`
gives up in the middle and `Crash` ends the process. Ids are drawn from `issued`,
so that none is given twice. What is inside a ledger is left to `Ledger`.

**Transaction** has a `world`, what all parties hold: coins, numbers, ordered rows of
items (lists and slots), unordered ones (`HasAssets`), and the registry of the graph.
An offer is a sequence of legs, records of one of the commitment classes; `memo` is
what each commitment object keeps in its private fields, which outlives the
acceptance. `Accept` is the preflight, with the legs of the plan added up;
`Commit` one `commit()`, which is an action per class; `Balk` a commit that raises,
because the check it repeats fails now or because the domain's own code raises;
`Undo` one `rollback()`, which may itself raise and is then passed over, as in
`accept`. The order of a slot or list, the place an adapter remembers for an item
it gave away (`recall`), and the registration that a slot assignment brings about
are all state, since a rollback has to restore them. `was` is a history variable.

**SafeOffers** names the conditions under which a failed acceptance leaves nothing
behind: offers are not accepted twice, an item is not moved out of and back into a
holder by one offer, slots that are emptied by moves have no prerequisites, what moves
into a slot is registered, and a slot is filled either by moves or by assignments. For
the plan of the preflight, the deltas of an offer change a number as one kind of resource:
a plan key begins with the kind, so that an account is kept for each.
`MCTransaction` keeps to them.

**Provisioning** has one `graph` value: nodes with the template they were made from,
dependencies, choices and menus (fanouts), and which nodes are wired. Its operators
are the resolver and the materializer: `Offers` and their ranking, the chain of
missing scenes (`BuildChain`), `Attach`, `Wire`, validation of a new node by resolving
its own frontier, `Viable` (the preview, which does the same without changing
anything), and the planning phase of a cursor and of all it leads to. They call each
other as the code does, hence the recursion. A story is created eagerly, eagerly and
frozen, or lazily (`Init`), opened, and played by `Choose`, which binds the destination
first and then arrives, descends and plans; one that fails is dropped or kept
(`KeepsFailed`). `dirty` accepts stubs.

**Contests**, **Solitaires** and **Queueing** are pure: the rules of the games against an
opponent, of those against the house, and of the clinic's queues, each with its
opponents' strategies and what a round may lead to. **Games** is the round loop
(`has_game`, `handlers`, `handler`) over them: a block sets its game up on arrival, the
moves of the game become dynamic actions, a chosen one is played in UPDATE, and the exits
follow the result. Everything the code does between two choices is one action; the
places where rules or strategies raise end it early, and `keeps` says whether the session
then keeps what was done.

**Credentials** says what is at fault with a packet: `Defects` of its purpose, papers and
goods under the rules of the day, as `derive_defects` finds them, mended by what was found
out; how the factory builds a valid packet and a mode spoils it (`Degraded`), and what the
sampler expects of that before there is a packet (`Preflight`). **Checkpoint** is the game
played with it: a shift of candidates whose papers are inspected, who are asked for an id,
a document, a disclosure or their goods and are searched, and are then passed, denied or
arrested; each move takes time, each wrong call and each call without evidence costs. The
origin is fixed, there is one paper per purpose or good, and `"stale"` stands for every
status that can be mended.

**Sandbox** plays one of several `Worlds`. `Projected` are the choices the
projectors make of the state: links, waiting, assets, bags, fixtures, mobs, events, under
light and schedule. `menu` is what the *journal* lists, projected in PLANNING, before
UPDATE applies the effect of the action that led there. `Act` applies an effect with
light, charge and the clock after it; `Fail` is an effect that raises; `Attend`, `Leave`,
`Follow` and `Return` lead to the blocks of events and back.

**MediaJobs** has the resources of the graph with each slot's binding, the worker's
`jobs`, the files on `disk`, and the fragments of the journal. A hop is a *sequence* of
steps, `Hop`: poll every resource, resolve the cursor's slots, submit what is pending,
resolve the successors' slots, update, journal. A choice that fails runs any prefix that
the code may stop at (`Stops`) of the worlds it leads through (`Course`), with jobs and
files left as they are then; a submission may also raise when the worker has taken the job
(`Taken`). `undone` holds the jobs that the session's graph then knows nothing of (`Orphans`); a rollback goes
back to a checkpoint, and the worker finishes jobs whenever it likes. `Served` is what the
client is sent for a fragment under each policy for pending media.

## 3. The runs

The story of `MCStory` has four nodes and five edges: a container entered at a
member, a postreq redirect whose target may be unavailable, a call that returns at
a later phase, a prereq redirect out of the callee, which is itself a call, and an
edge left open to provisioning. It is the smallest in which a choice takes several
hops, a call is open while another is made, a redirect cuts a hop short and a
delta is empty.

| Run | Checks | What it shows |
|---|---|---|
| `timeline` | `TypeOK`, `RestoresEveryStep`, `CountersMatchRecords`, `ImplementsTimeline`, `RollbackKeepsHistory` | a ledger whose failed choices are dropped, rolled back to every step, also into the middle of a choice, and played on: everything restored is what was lived, as far as a graph can be stored |
| `session` | `NoRecordAhead`, `VisitsWithinHistory`, `RollbackTruncates`, `CallsReturn`, `UpdateIsLastChoice`, `ChoicesSettle` | a session as the service makes it, primed, with handlers that raise, bookmarks, and tools that break causality between choices |
| `requests` | `TypeOK`, `ActiveIsPersisted`, `SecretsUnique`, `KeyFindsOwner` | any order of requests with failing writes, crashes, restarts |
| `offers` | `TypeOK`, `NothingSurvives`, `NothingLost`, `SlotsFit`, `PlanIsEnough` | ten offers with legs of every kind, in every order, failing at every leg that can: all or nothing |
| `provisioning` | `TypeOK`, `EpisodesInPlace`, `WiredWhole`, `ShownIsTaken`, `Settled` | a story created in each of three ways and played in every order, building what it needs |
| `games` | `TypeOK`, `ReadyOffers`, `DecidedRightly` (that is `DecidedForReason`, `JudgedFairly` and, move by move, `HandledFairly`), `NothingOverdrawn`, `QueueSound`, `EndsInTime` | every game with its strategies and scorings, in sessions that drop and that keep failed frames |
| `sandbox` | `TypeOK`, `OffersSound`, `ThingsKept`, `OnceOnly` | three sandboxes played in every order, from stale menus too |
| `media` | `TypeOK`, `OneJob`, `ClaimedForGood`, `PictureFits`, `ResultsCollected` | pictures of a slow, failing or unreachable worker, which may take a job without the session hearing of it, under failures, rollbacks and reloads |
| `truncation` | violates `RollbackTruncates` | a transition raised within a choice makes a later rollback keep steps beyond its target |
| `reordered` | violates `RestoresEveryStep` | two actions built in one hop are put back in the order of their uids, and the hash check of the patch fails |
| `stale` | violates `ShownCanBeDone` | the sandbox's journal lists choices projected before the effect of the last action |
| `unpolled` | violates `EveryPassPolls` | a ledger that was loaded again has no dispatcher: nothing is polled or submitted any more |

The violated ones are disagreements between the code and its own documents, quoted
under `findings` in `PROJECT.json`. The passing runs state the same properties, or
weaker ones, under the conditions in which they hold; the conditions are constants of
the configurations or assumptions of the MC modules, not changes of the modules.

**Conditions.** What each of these conditions keeps out is behaviour of the code, seen
in the models when the condition is dropped; no document settles most of it.

* `Stateful`: the visits of a node that was authored without locals are in no
  save, checkpoint, delta or hash, since `unstructure` leaves out fields that were never
  set, even when `mark_visited` has changed their default in place (`system_handlers.py:424`,
  `core/bases.py:463-482`). They are 0 again after every rollback, and after every request unless
  the store keeps live objects, although the visits themselves stay in the history; and
  `system_handlers.py:410-412` offers them to conditions such as `visit_count > 3`. That
  in-place changes of unmarked fields are lost is documented (`core/bases.py:272-276`,
  `test_entity.py:188`). `RestoresEveryStep` and the moments of `Timeline` are therefore of what
  is `Stored`; stated of the live graph, `timeline` refutes them.
* `Dirtying` = {}: a handler that breaks causality within a choice makes `truncation`. The
  passing runs break it between choices only, so no property that holds says anything of
  a mode that changes within one.
* `Projects` at most 1: a node that builds two members at once makes `reordered`.
* `Destination` bound beforehand: an open one is bound before the first snapshot of the
  hop, is in no delta, and breaks the chain of hashes in the same way; every run has it bound, so none covers it.
* `~KeepsRejected`: a choice found by query that raises a `ValueError` is answered
  inside the open session, which saves the records of the hops it ran; the next update
  returns them, against `UpdateIsLastChoice`. No run has it.
* `Primed` only in `session`: the priming hop leaves no step record, so a rollback
  rebuilds a history without it, against `RollbackKeepsHistory`, which `session` does not check.
* A rollback cuts off the transition record of a causality mode and leaves the mode.
* `ScanYieldsKeys`: where a store iterates over values instead of ids, as half of the
  back ends do, the scan finds no user and `KeyFindsOwner` fails after a restart.
* `~Reuse` and the others of `SafeOffers`, so that no run accepts an offer twice: a leg that succeeded in an earlier acceptance
  and fails in this one still passes for committed and is rolled back; an unregistered
  item moved into a slot stays registered after the rollback; a component cannot be put
  back into a slot whose prerequisite is put back later.
* `Authored` in `MCProvisioning`: links resolve to one template (a dangling one raises in
  the middle of wiring, and any edge is then taken as the sign that a node is wired, so that
  `WiredWhole` says nothing of dangling links); the
  hard roles of a scene's entry can be provided (the preview asks for those of the scene
  itself only, so a choice is shown and cannot be taken, which `VM_DESIGN.md:620` rules
  out); items of a menu lie beside it (a fanout builds them there). `KeepsFailed` = FALSE: a
  provider that was rejected stays in a live graph and is bound unvalidated on retry.
* `Authored` in `MCSandbox`: events that lead back to where they start happen once;
  otherwise the redirects chase each other up to the recursion limit.
* `ConfigsAssumption` in `Games`: what an author has to give a game that can be played,
  none of which the code checks before it starts. The least take of a heap is at most one
  (`HeapGiven`): with a larger one a heap can be left that is too small to take from, and the
  game waits for a move it has none for. A side has a force to commit (`ForcesGiven`), and either side a phrase
  to call and one to answer with (`PhrasesGiven`); a tray has an item (`TrayGiven`), a roster a
  candidate, and none of its purposes, goods and papers has the name of a request, under
  which the code would note two answers in one place (`RosterGiven`); a deal is of two distinct cards each, of ranks up to the king
  (`DeckGiven`); places and steps in the corridor are numbers (`CorridorGiven`). Tasks and
  buildings of a shell neither make nor use up "elite", of which a promotion gains as much as it
  takes workers for, at the shell's rate, and a building brings workers for the works it adds
  (`ShellGiven`): what `NothingOverdrawn` balances is counted by these rates.
* `keeps` in `ReadyOffers` and `EndsInTime`: a setup or round that raises in a live
  session leaves a game ready without a state, or resolving for good.
* `keeps` in `ResultsCollected`: see `unpolled`. An unreachable worker (`remote`) is
  given a pass to answer in.

What the checkpoint's model shows beside its properties: surrendering open goods and then
disclosing others excuses those too, where `CREDENTIALS_LOOP_DESIGN.md:759` has surrender
clear what was declared; an expired id that is handed over on request counts as cleared;
`build_valid` promises a packet that passes, and gives one without an id where a good asks for
it and the purpose does not; and an open good that asks for an id nobody presented is no
"visible ground", so that denying it is taxed unless a request brought something up before. An
authored packet whose texts are silent about its faults may be taxed whatever was done. A
smuggler whose concealed good lacked a paper, or an id, that is produced on request is no longer
arrested but denied, without having disclosed anything.

**Bounds.** `MaxSteps` = 2 bounds the step at which a choice may *start*; one choice
takes up to `MAX_RESOLVE_DEPTH` = 5 hops (50 in the code), so ledgers of up to six
or seven steps arise, with two or three choices between which every rollback is
possible. `Stateful` differs by run: in `timeline` one node whose visits are kept and
one open to provisioning, beside two whose visits are lost; one in `session` and
`reordered`, none in `truncation`. `checkpoint_cadence` = 2 makes a checkpoint due after every other choice,
so that replay starts from a checkpoint older than the target with deltas between.
`MaxStream` bounds the records a choice may start with and bites in `session`,
where transitions and bookmarks add records without steps. Three users, three
ledgers and two secrets let one user drop, another take its secret, and a third be
created while a stale index entry is left; ids are symmetric. The offers of
`MCTransaction` have two to four legs; among them are two payments of which only
one is covered, three uses of planned resources, an item taken from the front of a
list, a component replaced under a budget, and a callback that may fail after each of
them. Each offer is accepted once, so no bound on their number is needed.

The world of `MCProvisioning` has three scenes, of which one has no entry block, a role
that some blocks create and others only find, a location that comes with one scene and
that another waits for, and a menu of two items, one of which needs the role: every pair
of builders meets in some order. It is finite because nothing is built twice. `MCGames`
has one or more configurations for each kind of game, strategy and scoring, with numbers
just large enough for a revision, an exhausted reserve, an ace counted down, a promotion
and two patients that wait; the shifts take each packet the sampler offers for two purposes and
authored ones with goods in the open and concealed, ids kept back, refused or somebody
else's, marks and overruled verdicts, one candidate or two in a row, and play all their
moves in every order; `bound` ends games that need not end, and `EndsInTime` says it
is not reached by those that must, which `BoundToEnd` tells from the configuration. The three sandboxes have two places, a lamp with two
turns of charge, a lock, nested bags with room for one thing, a mob with a schedule, and
events in both phases; the clock counts the four periods of one day, so they are finite.
The portraits of `MCMediaJobs` are two slots that ask for the same picture, in two moods,
and a map that is drawn on the spot; `MaxSteps` = 3 lets a session go somewhere, come back
and be rolled back over, `MaxJobs` = 3 ends failures and rollbacks once each picture was
asked for and one of them asked for anew, after a rollback or because the answer to the
first submission was lost.

**Fairness.** A choice is one synchronous call: `RunsOn` is weakly fair, so that a
choice once begun is carried on. Nothing makes a player choose, roll back or
mark. `ChoicesSettle` needs no more; what ends a redirect loop is the depth limit
alone, as the mutant without it shows.

Deadlock is checked in `sandbox`, where there is always something to do. Elsewhere a
ledger at its bound, a story at an end, a game that is over, a service whose ids are used
up or offers that were all made do stop.

## 4. The proofs

| Theorem | Says |
|---|---|
| `TypeCorrect` | `TypeOK` for every story, every bound and every mix of the options |
| `CallsReturnCorrect` | `CallsReturn`, likewise |
| `NoRecordAheadCorrect`, `TruncationSound` | `NoRecordAhead` and `RollbackTruncates` for ledgers whose handlers keep causality, whose bookmarks are set at the current step and whose failed choices are dropped (`Undisturbed`) |
| `UpdateIsLastChoiceCorrect` | `UpdateIsLastChoice`, likewise |
| `RestoresEveryStepCorrect`, `CountersMatchRecordsCorrect`, `VisitsWithinHistoryCorrect`, `RollbackKeepsHistoryCorrect` | `RestoresEveryStep`, `CountersMatchRecords`, `VisitsWithinHistory`, `RollbackKeepsHistory` for every `Replayable` story, whichever of its nodes have locals; the first says of a step's graph what can be stored of it |
| `LedgerImplementsTimeline` | the ledger implements `Timeline`, likewise: moments hold what can be stored of a graph |
| `NothingSurvivesCorrect`, `NothingLostCorrect`, `SlotsFitCorrect`, `PlanIsEnoughCorrect` and `TypeCorrect` of `TransactionProofs` | `NothingSurvives`, `NothingLost`, `SlotsFit`, `PlanIsEnough`, `TypeOK` for all parties, items and offers that satisfy `SafeOffersAssumption` |
| `ServiceTypeCorrect`, `ActiveLedgerPersisted`, `SecretsAlwaysUnique` | `TypeOK`, `ActiveIsPersisted`, `SecretsUnique` for any number of users, ledgers and secrets |
| `KeyResolvesToOwner` | `KeyFindsOwner` where the store iterates over its ids |
| `RequestsAreMercy`, `SilentRequests` | further findings never make the disposition of a packet worse, and a search or an answer that is no help leaves it as it is, for all rules and packets |
| `PreflightAgrees` | the sampler's preflight is the disposition of the packet the factory builds, for all rules, purposes and modes that apply |
| `SandboxTypeCorrect`, `OffersAlwaysSound`, `ThingsKeptAlways`, `OnceOnlyAlways` | `TypeOK`, `OffersSound`, `ThingsKept`, `OnceOnly` for every set of sandboxes that satisfies `WorldsAssumption` |
| `MediaTypes`, `PicturesAskedForOnce`, `BindingsStand`, `ClientsSeeWhatWasAsked` | `TypeOK`, `OneJob`, `ClaimedForGood`, `PictureFits` for every story, its slots, moods and specifications, and any number of steps and jobs |
| `AnswersAreCollected` | the action property `ResultsCollected`, likewise |
| `GamesAreTyped` | `TypeOK` of `Games` for all configurations of all games that satisfy `ConfigsAssumption` |
| `SimulationsAreSound` | `QueueSound` for any number of patients and stations, any arrivals, capacities, service turns and limits of events |
| `GamesGoOn` | `ReadyOffers` for all configurations of all games that satisfy `ConfigsAssumption`: any heap, reserves, phrase book, deck, tray, shell, roster or net, every strategy of an opponent and every way of scoring |
| `NothingIsOverdrawn` | `NothingOverdrawn` likewise, whether failed frames are dropped or kept |
| `GamesEndInTime` | `EndsInTime` for all configurations that bind a game to end (`BoundToEnd`): a heap one may take one from, forces of which any two that meet cost somebody a unit, any deck, tray, net and roster, and contests scored by rounds or points |
| `GamesDecidedRightly` | `DecidedRightly` for all configurations of all games, however a round ended and whether failed frames are dropped or kept; it puts together `GamesHaveReason` (`DecidedForReason`), `ShiftsAreJudgedFairly` (`JudgedFairly`) and `ShiftsAreHandledFairly` (the action property `HandledFairly`) |

`TypeOK` of the ledger is not inductive: a rollback takes cursor, stack and graph out of
records, so the strengthening `TypeInv` says that the stream begins with the
checkpoint of step 0, that a rollback therefore always finds one and keeps it, and
that the delta a step record names is in the stream before it. `CallsReturn`
follows from the place `done` being reached only on an empty stack.

Truncation rests on `OrderInv`: the steps in the stream never decrease, none is
ahead of the ledger between choices nor of the frame within one, and what a frame
loaded satisfied all this too, so that dropping a failed choice does. In an ordered
stream the last record within the target is followed by none within it and
preceded by none beyond it, which is what the cut needs. Each hypothesis of
`Undisturbed` is needed, as the run `truncation` shows for the first. `UpdateInv` adds
what a choice has appended (`Grown`): the stream it loaded is a beginning of the present
one, and the journal records added since are of steps beyond the ledger's. Those it loaded
are not, by `OrderInv`. So the client's update, which selects records by their steps, gets
those of the last choice by their place.

That a replay gives back what was lived is an invariant of three kinds of records at
once, `HistoryInv`. It is stated over `lived`: the stream has exactly one step record for
each step lived, with the cursor and stack of its moment (`StepsAgree`); the delta a step
record names takes what is stored of the graph of the step before to what is stored of its own, and a record without a
delta stands for a step that changed nothing (`DeltasAgree`); a checkpoint holds what is stored of the
graph of its step; and the journal records of a step are those its moment shows. Between choices
the ledger stands at the last moment; within a choice it stands there, plus what the
frame's present phase has done, and what the frame loaded is an earlier such state. Of the
graph this too is meant as stored: what is live may have visits beside (`StoredGraphs` shows
that nothing else differs, and that storing twice is storing once), and `VisitsWithinHistory`
follows because storing only ever lowers a count. A
stream that `Agrees` with the moments lived is replayed by induction over the chain of its
deltas, and a stream cut by `Cutoff` agrees with the moments up to the
target. The refinement follows: the mapping is `lived` up to `cursor_steps`, so commit
appends moments, rollback shortens the sequence, and all else stutters. `Replayable`
adds to `Undisturbed` that there is no priming hop and no bookmark, that a hop builds at most
one member of a node, and that open destinations are bound within hops. `truncation` and
`reordered` show what happens without the first and the third; the constants of
`timeline` satisfy it.

That a failed offer leaves nothing behind is proved from `TransactionInv`. A world is
`Sound` if every party's rows and slots are in order (`Tidy`), nothing that was there at
the opening is unregistered or gone and no coin is missing. `was` holds the worlds before
each leg that was started, all of them sound; between one and the next stands what the
leg did and what it remembers (`Left`). While an offer is undone, the world differs from
`was[at]` by exactly the leg that is still to be undone. For this each leg needs a lemma
of its own, that its rollback takes what `Left` describes back to where it was. For
moves it is that an item taken out of a row and put in again at its remembered place
restores the row, and that no later leg of the offer overwrites that place (`PlacesKept`),
which is where `OneWay` is needed; for components that a slot that held them takes them
again, since budgets are closed under taking components out and there are no
prerequisites to wait for. Legs still to come have blank memories (`Fresh`, `Clean`), which
`Reuse` would break.
For `PlanIsEnough` the invariant looks ahead (`Promised`): every leg still to come finds its
item with its giver and its key free at its receiver, and its number within the bounds
once what its account still expects (`More`) has been added. A move keeps this because
moves of one offer do not clash, a delta because what it adds to the number is what the
account no longer expects; a number that was dropped at zero reads as zero.

The store's invariant `IInv` lists the shapes of `todo`: what a request has yet to
write, and on what each of these writes relies (that the ledger is nobody else's,
that the secret is free, that nobody points at what is deleted). One lemma per kind
of write shows that the store stays consistent; one per request that the list it
leaves is one of those shapes. A crash or a failure empties the list, which is
always allowed: that is why every prefix of the writes of a request is safe.

The choices of a sandbox's menu are older than the state they are taken in, so its
invariant says what *remains* true of them (`OfferOK`): a way leads to a place, nothing is
put into itself, what is dropped is dropped at a place, an event that happens once has not
happened. `Projections` shows this of every fresh choice, and it survives because the only
step that visits a block replaces the menu. What an effect still needs, it checks when it
is taken; `Effects` collects that into one shape, `Moves`: an asset leaves the holder it
is in, for another that is not shut and, if it is a bag, is in the player's hand. From
`InOnePlace` and `NoCircle` such a move leads there again (`MovesKeep`): the bag in hand is
not in the asset, because an asset has one holder. `TidyIsOnce` gives the cardinalities of
`HeldOnce` back. `OffersSound` follows from the invariant state by state: each effect
raises only where what it asks of the state fails, and a predicate (`PredicatesSuffice`) or
the projection itself (`ProjectedCanBeDone`) has asked the same. `WorldsAssumption` is what is asked of a sandbox: names are not shared
between assets, fixtures and the rest, at first each asset is in one place, ways lead to
places and events to other blocks.

Of a packet only the weight of its defects counts: whether there are any, and whether one is
a crime (`Lighter`). A finding mends a flaw or removes it (`FlawEases`), so a requirement
only ever loses defects; concealed goods do not, since disclosing them replaces one kind of
defect by others, but never by heavier ones (`DisclosureEases`, `ConcealedEases`). That a
search changes nothing follows from applying the theorem in both directions. For
`PreflightAgrees`, `PacketJudged` reduces a disposition to the flaws of the two documents
and the goods, which are computed for each mode. It says that `materialize`, which raises
when a packet does not come out as its offer promised, does not raise for a sampled offer.

A media hop may stop anywhere, so each of its steps has to lead from a sound world to a
sound one (`WorldOK`) that is no earlier (`Later`). In a sound world a resource refers to a
job for its own specification exactly while it runs, its file is there when it is resolved,
no two resources are for one specification, and every job that stands, that is one the
session heard of and did not undo, belongs to a resource that was submitted, which is why a submission is never the second one. `Later` says
what later steps may not touch: bindings, ends that were reached, the job a resource waits
for, jobs and files. There is one lemma per step (`ApplyStep`, `SubmitStep`, `CreateStep`,
`ResolveStep`, ...); that a whole course is sound follows by the least step at which it is
not (`CourseOK`). `MediaInv` says it of the session's world and adds what a rollback relies
on: the graph of *every* saved step is sound by the jobs and files there are *now*, each follows
from the one before, and a fragment is bound in the graph of its own step and of all
after it (`HistoryOK`). Fragments that a failed choice left in a live session carry the
number of a step that is yet to come; they are covered because bindings stay.
For `ResultsCollected`, the poll of a resource is one of the hop's steps; until then it
waits for the same job, and what it then becomes it stays (`PolledIsSettled`).

The books of a simulation are kept event by event (`RunOK`). Each patient has one event in
the calendar, one place in one queue, or one among the discharged; who is served is who
has a completion (`Booked`); no place is free where somebody waits (`Manned`); and where
the route stands for a patient, the turns since the arrival are the waits so far and the
services so far (`Timed`). Half way through an event the station that was left is the one
exception, which is why `Manned` takes a set of stations: a completion frees a place, moves
the patient and then calls at both, and either call mends one of them (`TryStartKeeps`,
`NextMoves`). `RunNextKeeps` puts the halves together, `RunAllFacts` carries it through any
number of events. That running ends is a count of *steps*: the patients times the stations
of the route they have yet to enter or leave (`Steps`, at most patients times one more than
the stations). Every event takes one off (`RunNextSteps`), because a valid route does not
come back to a station (`RouteOnce`); so a run of that many events empties the calendar
(`RunAllEnds`), and with an empty calendar nobody can be anywhere but discharged
(`EmptyIsOver`): whoever waits at a station waits for someone in service there, and who
is in service has an event. The game keeps a run that the rules reach from the opening
(`Kept`), which an action may prolong by one event only while there is one (`Apt`): since
prolonging is associative, where it ends does not depend on how it was cut into rounds.

For the other games the invariant (`PlayInv`) says what the state of each kind keeps
(`Fits`), what it has besides while the game goes on (`GoesOn`), and what an opponent may
have told of the move to come (`MayTell`). A game that is `Held` has these, has recorded each
round it counts, and offers what its rules project. That a round keeps the books is a lemma
per kind, put together in `RoundFits`: a card only changes its hand, a clue is paid for as it
is inspected, a promotion takes the workers and gives the goods of one rate; losses lie within
commitments and commitments within reserves (`CasualtiesWithin`, `ClashKeeps`), so that what a
side lost is what the other scored. Each such balance is a sum over units, tasks or goods, which
the model folds over a finite set in an order nobody knows; `SumPlus` and `SumChange` give
the laws of such sums for every order. That a game goes on follows the result: each way of scoring calls a
game "in_process" only where the state leaves a move (`OpenGoesOn`), and then the rules offer
one (`OffersExist`). Opponents tell only what their own reserve or the heap allows
(`TellsFit`), which is why no round of these games raises for a move that was offered
(`AnnouncedFit`). Only a simulation can raise, for an invalid net or at its limit of events;
what it leaves in a session that keeps it is not held, hence the condition `Whole`.

That a game ends in time adds to `PlayInv` how far it has come (`EndInv`): what a game has
spent, of the kind it spends, is no less than its rounds (`Pace`). A lemma per kind says that
a round which leaves the game open spends some of it: a take shrinks the heap (`NimShrinks`),
a clash costs a unit of one side (`ClashShrinks`, `ForceShrinks`), which takes that the
opponent's move still commits something when it is played (`Commits`), a card is drawn or the
tray paid (`BlackjackDraws`, `KimSpends`), an event of the net takes place (`QueueAdvances`), and
at a checkpoint a document is inspected, a finding or request noted, or the candidate reviewed
(`StepUses`, `RequestNotes`, `CounterRound`). In a contest each round is tallied for one of two
sides or for none, so one that is still open has few enough (`OpenContest`, `OneMore`). The proof
showed where two requests of the model could not be told apart, a search and asking for
a document called "search"; `Requested` now tells them by the whole move, as the code does.

That a game is decided rightly compares two accounts of the same end. The handlers decide
by what a round did: the take that emptied the heap, a total force that came to nothing, a
turn in the corridor, hard totals raised by ten. `ForReason` says what the state then shows,
in terms of its own. It is not inductive: that a hand is bust has to be decided from one that
was not, a majority from a tally without one, a turn in the corridor from a score of nought
all. `DecidedInv` adds to `PlayInv` and the reasons this state before a round (`Poised`) while the game
is open. A lemma per kind shows that a round
leads from there to a reason or to such a state again
(`NimDecides`, `ForceDecides`, `CorridorDecides`, `BlackjackDecides`, `MajorityDecides`). In
attrition it takes that a weighted sum is zero just when no unit of any weight is left
(`ForceIsArms`), at blackjack that of the totals a hand can have the code's is the best that is
not bust (`AcesHelp`, `HandsTotal`). Proving it mended the property: a unit without weight is
no force, so that a side with only such units left is out, and both sides may be.

That a checkpoint is fair is proved of the shift as it goes on. `FairInv` adds to `EndInv`
that a shift is `Straight`: the accounts are such that as long as no call was wrong nothing
but the tax is owed (`Owes`), and what is known of the candidate at the counter is true of the
packet that candidate came with (`Truly`): purpose, goods and papers never change, an answer
about an id or the goods is the one the packet gives, and as long as no id was handed
over, the packet, its facts and the answers about papers are those of the arrival. Every round
is one of five deeds (`Deeds`, `RoundDeeds`): to look at a document, to look again at the
packet, to note an answer, to take an id, and to call the next candidate, of whom nothing is
known yet. `DeedsTruly` keeps `Truly` through each, and `DeedsHandled` reads `Handled` off
them with `RequestsAreMercy` and `SilentRequests`. What fairness then takes is a matter of
packets: what is criminal by itself shows in the verdict (`GuiltShown`); when everything was
looked at and asked for, whoever is not to pass has something against him that came up or can
be seen (`RejectionsHaveGrounds`), and who has everything in order has not
(`InOrderHasNothing`). These last two are promised of `Candid` candidates, whose documents,
facts and clue are those `render_case` makes of them.
The proof found the property false as it first stood: it had an arrest talked away only by
disclosure or surrender, but a concealed good whose missing paper or id is mended on request
is no longer smuggled, only undeclared, and its bearer is denied. `Guilt` now says so.

The induction principles of the library cannot be used with the provers there are, since
they take an operator. Where a proof needs one, it takes the least element of a set
of numbers instead (`NatMin`, `UpToAll`), which suffices for recursive functions such as
`Course`, `Account` and `RunAll`; `CourseSteps`, `AccountSteps` and `Recursion` show that the
recursion defines one.

Only model-checked: liveness (`ChoicesSettle`), which is beyond the prover, and the
properties of `Provisioning`, whose operators call each other recursively, as the code does.
The proofs assume only the named assumptions on constants
and, where the table says so, `Undisturbed` or `Replayable`.

## 5. What the models leave out

* Handlers are reduced to what they do to the state: UPDATE marks visits and
  stands for all effects on the graph, FINALIZE may leave a receipt, PLANNING
  satisfies some dependencies and builds some members anew. The delta of a hop is the
  pair of graph values with the hash check of `Patch.apply`; what its events make of the
  order of the members is `Patched`, that they restore the values of the members is assumed.
* `redirect_trace` and `last_redirect`, which only report.
* Choosing an edge built during play, and a call left open on one; marker queries. Of
  what `unstructure` leaves out, visits are modelled; that everything else comes back from
  `structure` as it was is assumed.
* In `Service`: sessions opened by ledger id, which REST does not do; the in-memory
  store of native objects; two processes over one store; media files.
* In `Transaction`: labels other than an item's own under which a receiver may hold it,
  items and components named by a string or supplied when they are needed, several
  registries, floats (the values are integers), enablement criteria of slots, required
  slots and a group's minimum, the same component twice in one slot. A budget is the
  set of the fits it covers, which is closed under taking components out. A supplier
  makes a new item and has a preview. Callbacks that raise have changed nothing.
* In `Provisioning`: the uids of projected choices, which are made anew at every planning
  with what they say unchanged (`resolver.py:726`, `story/system_handlers.py:142`), so that
  `Settled` is up to them; the attempts an eager creation makes to link what is open before
  it gives up (`materializer.py:1030`), of which the model has the outcome, since the story is
  then not created; template scopes, tokens, inline and fallback templates, updates and
  clones of providers, media offers, overrides, linked affordances, guards on choices; a
  lazy scene gets source and sink from its entry only, as in the code. The compiler that
  translates authored scripts is left out except for the form of its destinations.
* In `Games`: the repertoires that compose moves out of schedules, and journals; starting
  scores of the corridor other than nought all (`corridor_game.py:38`); rounds that raise because an opponent has no force left to
  answer with (`siege_rps_game.py:99`; in `Answers` it commits nothing) or because the deck runs
  out (`blackjack_game.py:306`; `BlackjackRounds` has no such round). Moves are valid, so that
  it makes no difference to `ChooseStale` that the code looks at the move before the phase
  (`handlers.py:188`).
* In `Credentials` and `Checkpoint`: catalogs, cards and texts; penalty matrices other than
  the default; bribes, which only a text mentions; pinned encounters that override the texts of a
  sampled packet. A candidate is materialised at once, and not when it is next but one.
* In `Sandbox`: reading, affordances and states of mobs, links suppressed by hand, events
  of providers, which fixture a way is opened by (`opened` is one set, where the code reads the
  locals of the fixture, `handlers.py:726`), interactions other than events, calendar fields beyond the period of the
  day, more than one scope with a clock (two share one mark of the last tick, so that a
  lamp of the second does not burn), charge policies other than burning while lit, journal
  texts, the sandbox compiler. An event that triggers in PREREQS swallows the chosen
  action's effect and its time; the model does so too.
  The model is of a live session: `_visited`, by which an event that happened is known, is
  counted like the visits above and lost with the locals of a block authored without
  any, so that after a save and reload, or a rollback, an event that happens once may do so again.
* In `MediaJobs`: compositions, which refer to ids of the running story; inventory and
  static media; `persistence_policy`, which no code reads; `cancel`, which no code calls;
  a worker that forgets a job (that it takes one and the
  session does not hear of it is modelled: the picture is then asked for again, and `OneJob`
  says nothing of the first job); redirects within a choice; hard media requirements; the
  removal of a story's files. A live fragment of before a rollback keeps the resource of
  the old graph and is never told of a late answer; no document says what it should show.

**Not modelled**, as components: the core registry and dispatch, whose operations are
single assignments to dictionaries (their effects, hash checks and order are in the
modules that use them); loaders, the intermediate representation, language, prose,
demographics and looks, which parse, render or sample and keep no state; the developer
reference and the analysis of stories, which are queries over documents and graphs; the
remote manager, the CLI, the web client and the Ren'Py bridge, which number the service's
choices and relay calls; the world registry, which discovers files. Their share of the
lines is large: what is modelled is most of the code in which an order of steps
matters, and a minor part of the repository's lines.

## 6. What could follow

1. *Provisioning, proved*: its recursion as functions over the depth of the search.
2. `Service` with sessions by ledger id, the native store, and two processes.
3. Front ends: the remote manager's session and the turn grouping of the Ren'Py bridge.
