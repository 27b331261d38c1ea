# Play Sessions and Battles of a D&D rules engine: TLA+ models, checks and proofs

This directory is a verification project for the `dearlordylord/5e-quint`
repository. It models the parts of the repository where the order of events
matters:

* the Play Sessions of `packages/mcp`: who owns a game, how its commands are
  retained in SQLite, how concurrent requests on one game are ordered, and how
  the request limiter protects the host;
* the store inside one Play Session: characters that move between their sheets
  and a Battle, with plans prepared in one step and committed in another;
* the protocol of a Battle: the stack of procedures that interrupt one another,
  and the turn order with everything that comes, goes and ends along it.

TLC checks the models on small instances; TLAPS proves what those runs
check, liveness apart, for every size.

Paths below are relative to the repository root unless they name a `.tla` or
`.cfg` file of this directory.

## 1. The system

The repository is a rules engine for a table-top game with several front ends.

| Part | Where | State it keeps | Operations |
| --- | --- | --- | --- |
| Surface content | `packages/surface` | generated catalogs, immutable | lookup |
| Character creation runtime | `packages/character-creation-runtime` | a draft, passed in and out | fill a hole, finalize |
| Character sheet runtime | `packages/character-sheet-runtime` | a sheet, passed in and out | rests, expenditures, healing |
| Battle runtime | `packages/battle-runtime` | a battle: initiative, turns, open holes, interrupt stack | discover, fill, resolve, snapshot |
| Character-battle composition | `packages/character-battle-runtime` | none | project a sheet into a battle, settle it back |
| Battle interrupt stack | `battle-runtime/src/battle-reducer/interrupt-*.ts`, `replay-continuation.ts`, `ready-trigger.ts` | checkpoints, replay and save frames | open a window, decide, answer, report, resume |
| Battle turn order | `shared-algebras/src/initiative-algebra.ts`, `battle-reducer/turn-boundary-lifecycle.ts`, `combatant-removal.ts`, `companion-lifecycle*.ts` | Initiative, round, roster, companion entries, timed effects | end a turn, join, leave, summon, dismiss |
| Shared algebras | `packages/shared-algebras` | none | death saves, conditions, action economy, slots |
| Opaque oracle | `packages/opaque-oracle` | none | evaluate a case |
| MCP session store | `packages/mcp/src/session-store.ts` and the battle-roster, selection and commit modules | characters, the active battle, pending selections | the commits of the MCP tools |
| In-memory Play Session registry | `packages/mcp/src/play-session.ts` | handle -> session object with tenure and promise chain | create, run, save, listSaved, deleteSaved |
| Recoverable Play Session registry | `packages/mcp/src/recoverable-play-session*.ts` | a promise chain per handle | the same five |
| SQLite repository | `packages/mcp/src/sqlite-play-session-*.ts` | `play_sessions`, `play_session_request_limits` | insert, commit, save, delete, prune, admit |
| Public HTTP host | `packages/mcp/src/public-http-*.ts`, `public-index.ts` | none between requests | one registry per POST |
| OAuth, Admin Mirror, tools, web application, scripts | | | I/O and presentation |

`PROJECT.json` lists every component with its status.

### How the parts interact

A POST reaches the HTTP host, which checks the identity, builds a protocol
server with a **new** recoverable registry and calls it. The registry

1. puts the call at the end of `operationTails[handle]`, a chain of promises
   (`run`, `save`, `deleteSaved`; `create` and `listSaved` run at once);
2. loads the row of the handle, checks expiry and the caller's evidence, asks
   the limiter once, and rebuilds the in-memory root by replaying the retained
   commands;
3. **awaits** the operation on that root;
4. commits with an `UPDATE ... WHERE play_session_id = ? AND revision = ?`. If
   the row moved, it starts again from 2, at most 16 times.

The stdio host has no repository and uses the in-memory registry instead: the
root itself is the session and disappears with the process.

The root a registry rebuilds or keeps holds the session store: drafts, Character
Sessions and the Battle state, all of them immutable values that the store
recognises by identity. A tool that changes the roster asks for a plan, shows
it, and commits it later; the commit compares what it was computed from with what
the store holds now. A tool that acts in the Battle passes the Battle session to
`battle-runtime`, stores the session it gets back, and keeps the pending act,
under a selection id, as long as the runtime has open holes.

Inside `battle-runtime` every call is a synchronous function from one Battle
state to the next. A procedure that may be interrupted pushes a checkpoint with
the creatures who could react; a Reaction is itself a procedure and may be
interrupted in turn. When the last of them has resolved, the interrupted
procedure is run again from its start, past the windows it has been through.
Ending a turn runs the boundary: end-of-turn expiry and saves of the one, reset
and start-of-turn effects of the other, ticks of durations when the round
turns. Combatants join and leave between calls, and a familiar comes and goes
in the middle of them.

Guests' rows come from releases that had guest sessions: today's `create`
refuses an anonymous hosted caller (`play-session-protocol.ts:64`) and makes a saved
session at once, and no tool of the public host calls `registry.save`. The API
of the registry still has both, and the database may hold guest rows until they
expire, so the models keep them. (`ARCHITECTURE.md:446` still says that public
sessions begin as guest sessions.)

### What is hard about it

* one handle worked on by several registries of one process (every POST makes
  one) and by several processes (a rollout, a restart) at once;
* an operation awaited between the load and the commit, with every other call,
  including a save that changes the owner, a deletion or a clean-up of expired
  rows, possible in between;
* retries of whole operations, which must leave nothing behind and be charged
  once;
* guarded SQL statements which change no row, and second statements that find
  out why;
* crashes between load, commit and answer;
* a limiter with fixed windows, times read before the transaction, several
  processes;
* promise chains that must go on behind calls that fail;
* plans, starts and ends prepared against a store that changes before they are
  committed, and an act that is pending meanwhile;
* a stack of procedures in which a Reaction to a Reaction must leave everyone
  below where they were, ask nobody twice and forget nobody;
* ends of turns stored as round numbers while combatants join, leave and come
  back around them.

Each is listed in `PROJECT.json` under `hazards` with the properties that cover
it.

### What makes each component correct

* **Repository and recoverable registry.** No acknowledged command is lost,
  doubled, reordered or attributed to somebody who does not own the session at
  that moment; nothing else gets into a row; a session changes its owner only
  from a guest to the principal who presented the grant; it goes away only by its
  owner or by expiry; quotas hold; every call is answered.
* **Limiter.** A bound on what is admitted in any span, a delay that suffices,
  no refusal that is not earned.
* **In-memory registry.** Operations on one session do not overlap; only owners
  work on it; local sessions last as long as the process; chains go on.
* **Session store.** A character is in a Battle exactly when the store's Battle
  has its combatant; no older plan replaces a newer value; a pending act belongs
  to the stored session; a selection id names one act for ever.
* **Interrupt stack.** A decision asked for is still open; one event is asked
  about once; one Reaction per creature and turn; procedures are nested, and
  each that resolves lets what it interrupted go on.
* **Turn order.** Each combatant who stays has one turn a round; roster,
  Initiative and companion entries agree; an effect ends with the turn it was
  promised to end with; a used Reaction does not come back by leaving.

## 2. Modules

| Module | Models |
| --- | --- |
| `RateWindow` | the limiter's decision and table update as operators (`runRateAdmission`) |
| `RequestRate` | the limiter on its own: several processes, times read before `BEGIN IMMEDIATE`, busy timeouts |
| `RequestRate_proofs` | theorems about it |
| `PlaySessionLedger` | the abstract promise of the hosted sessions: an owner and a log per session, each request answered in one atomic step |
| `RecoverablePlaySessions` | the recoverable registry on the SQLite repository; implements the ledger |
| `RecoverablePlaySessions_proofs` | theorems about it |
| `LedgerRefinement_proofs` | that it implements the ledger, and who may remove a session |
| `RegistryBounds_proofs` | its charges and conflicts |
| `LivePlaySessions` | the in-memory registry |
| `LivePlaySessions_proofs` | theorems about it |
| `SessionStore` | the session store of one Play Session: drafts, registry, Battle state, pending act, prepared starts, plans and ends |
| `SessionStore_proofs` | theorems about it |
| `ProcedureNesting` | the abstract promise of the interrupt stack: a stack of procedures |
| `BattleInterrupts` | the interrupt stack of a Battle; implements `ProcedureNesting` |
| `BattleInterrupts_proofs` | theorems about it |
| `BattleTurns` | Initiative, rounds and the turn boundary, with combatants and timed effects that come and go |
| `BattleTurns_proofs` | theorems about it |
| `MC*` | instances for TLC |

`RecoverablePlaySessions` extends `RateWindow` and instantiates
`PlaySessionLedger` under a refinement mapping; `RequestRate` extends
`RateWindow`; `BattleInterrupts` instantiates `ProcedureNesting`. The three
Battle-level modules meet at values: what `SessionStore` stores as a Battle
session (`v`, `base`) is the whole state of the other two, and the transitions it
leaves open (`SettleAct`, `PendAct`) are theirs. They share no variable that both
sides change, so composing them would multiply states without a new
interleaving: a call of `battle-runtime` runs to its end inside one handler of
the store.

### RecoverablePlaySessions

| Variable | In the code |
| --- | --- |
| `rows` | the table `play_sessions`: revision, retained operations, tenure (`owner`), `last_activity_at_ms` |
| `issued` | handles a row was ever created under; the factory's handles are random UUIDs, so a handle that is gone is never drawn again |
| `windows`, `charged` | the limiter's table; the requests it has counted (`admitted` of a run) |
| `now` | `runtime.now()` |
| `operationTails` | the Map of each registry: which calls hang in the promise chain of a handle |
| `phase`, `attempt`, `snapshot`, `call` | the local variables of a call: where it stands, the attempts used, the record it loaded, its arguments |
| `answer` | what the registry returned; `seen` is the log the result was computed on |

A step is a stretch of code without an `await`, cut once more at each SQL
statement, because another process can come in between any two of them. Within
one process the event loop runs one stretch at a time: `LoopIsFree` keeps two
calls of one process from being inside the phases of `Synchronous` at once,
while a call in phase `operating` (the awaited operation) lets everything run.
`AtHead` is the promise chain.

| Call | Actions |
| --- | --- |
| run | `RunUnavailable`, `RunFindsExpired` then `DeleteExpired`, `RunThrottled`, `RebuildFails`, `StartRun`; after the await `OperationFails`, `RunOverQuota`, `CommitCommand`, `CommitActivity`, `RunConflict` |
| save | `StartSave`, `LoadSave`, `CommitSave` or `MissSave`, then `RecheckSave` and `SaveOverQuota`, or `SaveConflict` |
| deleteSaved | `StartDelete`, `LoadDelete`, `RemoveSaved` |
| listSaved | `ListSaved` |
| create | `CreateNeedsEphemeral`, `Create`, `CreateOverQuota`, `CreateCollides` |
| environment | `Issue` (a client calls), `StorageFails` (a statement throws, a row does not decode; `LaterStatementFails` where an earlier statement of the call has already charged it or cleaned up), `Crash` (a process stops), `Tick` |

What is merged, and why it does not hide anything:

* The limiter's transaction has a table of its own which nothing else reads, so
  it is part of the step before or after it; the clean-up of expired rows at the
  head of save, delete, list and create is part of their first step, as are the
  id attempts of `create`, which draw random handles until the INSERT works.
* `create`'s INSERT and the SELECT that explains why it changed nothing are one
  step. Were they two, a row that a random UUID collided with could be removed in
  between and the collision be reported as a quota. The two reads with which
  `resolveSaveConflict` explains a save are two steps (`RecheckSave`).
* An answer is fixed when the statement it reports has committed. Whether the
  client receives it is not modelled: a client that lost a response repeats the
  call as a new request, and the code has no idempotency key.
* An operation is what its commit does to the retained list. That replaying the
  list yields the same root again is the business of the rules engine.
* Clocks do not step back and the processes' clocks agree.

### PlaySessionLedger

The abstract specification knows no rows, revisions, chains, retries or
processes. `Operate`, `Observe`, `Claim`, `Delete` and `Create` answer a request
in the step that has its effect, and only while the caller owns the session;
a claim gives it to the principal the request came with. `Refuse` changes no log,
and it may name a quota as its reason only where the quota is reached in that very
step (`Truthful`): by the principal's sessions, or by the log of the session, if it
still exists. Sessions may expire. The mapping forgets revision and
activity. That the registry implements it (`LedgerSpec`) says that all the
machinery below, with its optimistic commits, is one atomic step per request. A
save that misses needs its second look for that: a registry that took a missed
`UPDATE` for a full quota would refuse a principal with room, which is the mutant
of `LedgerSpec`.

### RequestRate

A request reads the clock (`ReadClock`), may wait for the database while time
passes, and is then decided in one transaction (`Decide`) or given up
(`TimesOut`). `node:sqlite` is synchronous, so a process waits with one request.
The windows are fixed and their requests may be late, so the true limit over a
span is more than one window's worth. `BurstBound` states it: with M requests to
a window, at most 2M - 1 in a window less the longest wait (55 s in the code),
and, as long as that wait is no more than half a window (5 s of 60 s), at most
3M - 1 in a whole one. The third window is there because a request that read the
clock early can begin a window in the past, which is then over early. An earlier
form of this property said two windows' worth for a whole window. TLC agreed, on
an instance with one request to a window; the inductive invariant did not go
through, and with two requests TLC shows why.

### LivePlaySessions

`liveSessions` is the Map, `session` the object each handle was made for, `tail`
its chain. A call takes the object out of the map when it is issued (`Issue`)
and works on the object when its turn comes, whatever the map says by then.
Handles are random, so an object is known by its handle. The session's root is
the log of the operations that succeeded on it.

### SessionStore

| Variable | In the code |
| --- | --- |
| `drafts`, `characters` | the draft map, `CharacterSessionRegistry` |
| `battle` | `BattleRuntimeState`: a setup, an active session or none |
| `selection`, `ordinal` | the pending act of `battle-action-selection-store.ts` and the counter its ids come from |
| `held` | starts, roster plans and ends that were prepared and not yet committed or dropped, with the sessions they expect (`expected`) and what they will store (`settled`, `next`) |
| `made`, `acts`, `shown` | bounds and history |

Objects are compared by identity in the code, so each carries the number `v` of
its making; `base` is the number of the object it was computed from, which is
what `NoLostUpdate` looks at. A refused commit throws or returns an error and is
no step. The store never checks a held end against a pending act: it need not,
since `commitBattleEnd` clears the act, and `PendingFollowsBattle` shows that
nothing is left pointing at the Battle that ended.

### BattleInterrupts

`stack` is the interrupt stack with its three frames (`Checkpoint`, `Replay`,
`Save`). One call of the API runs to its end before the next; inside it the code
recurses through running a procedure, looking at what it leaves behind and
closing a checkpoint, and `call` says which of these is due, so that each is a
step and the recursion needs no recursive definition. What a procedure does in
the world is left open: it resolves, needs more input, or opens a window that
`MayOpen` allows. Since a procedure is run again from its start after every
window, `handled` (the trigger it has been through) is what keeps it from asking
again; `AskedOnce` is about exactly that. The mapping to `ProcedureNesting`
reads the procedures in progress off the stack: frame by frame the one it holds,
and on top the one that runs, or that a Reaction waiting for input resolves.
`MayOpen` asks first whether the damage window is behind the procedure, and only
then of what kind it is: written with both questions as arms of one `CASE`, it
left open which arm counts where both hold, which TLC hides by taking the first
and a proof shows.

### BattleTurns

`battle` is one record, as `BattleState` is one value, and the operations are
functions on it with the names of the code (`NextInitiative`,
`InsertAtOrderIndex`, `RemoveFromInitiative`, `Removed`, `Summoned`,
`AfterEndTurn`). Of all timed effects four kinds of expiry remain: until the end
of a creature's next turn, until the end of this turn or one some rounds ahead,
for some rounds, and for some rounds followed by one until the end of the
bearer's next turn. `Remaining` is the `filter` of `removeFromInitiative`
written by counting, since a proof cannot unfold the recursion of `SelectSeq`.
`at` is the number the code stores (a round, or the rounds left); `until` is
history and says what was promised (a count of the creature's own turn ends, or
a round), and the properties compare the two. `EndTurn` runs the whole boundary
in the order of `resolveEndTurn`; damage at the end of the one turn or the start
of the next may fell the familiar in between.

## 3. What TLC checks

| Run | Question | Properties |
| --- | --- | --- |
| `claims` | A guest's row and a full principal, two processes: runs, two rival claims, a deletion, crashes, expiry. Is anything lost, misattributed or overfilled, and is it all one atomic step per request? | `AnswersStand`, `OnlyAcknowledgedCommands`, `RevisionIdentifiesRow`, `SavedQuota`, `OwnerAppends`, `OwnershipMovesOnce`, `LedgerSpec` |
| `owners` | One owner's session on two processes with clean-up, creation and the limiter. Who may remove it, what do conflicts and retries cost? | `TypeOK`, `RetriesAreNotCharged`, `ConflictMeansProgress`, `OnlyOwnerOrExpiryRemoves` |
| `http_host` | Two registries in the one process of the HTTP host, with fairness. Do chains work, can a save or deletion meet a conflict, is every call answered? | `RegistrySerializesHandle`, `OnlyRunsConflict`, `EveryCallSettles` |
| `http_serial` | (violation) Are the calls of one handle serialized by the host, as the README says? | `CallsSerializePerHandle` |
| `rate` | Two keys, two processes at the limiter. | `BurstBound`, `RetryAfterSuffices`, `RefusalsAreEarned` |
| `live` | Four calls on an in-memory session, with fairness. | `TypeOK`, `ResultsFollowTheLog`, `OnlyOwnersOperate`, `LocalSessionsStay`, `EveryCallSettles` |
| `live_deleted` | (violation) Is a deleted session unavailable to the calls behind its deletion? | `DeletedIsUnavailable` |
| `store` | Two characters, a stat block and a companion; two starts, plans or ends held and committed in any order between sheet operations, acts and cancellations. Does everything held stay harmless? | `TypeOK`, `OccupancyMatchesBattle`, `PendingFollowsBattle`, `SelectionNamesOneAct`, `CompanionsFollowTheirOwner`, `NoLostUpdate` |
| `interrupts` | Two creatures, three procedures nested in any way, three windows. Is every decision still open, asked once and paid once, and is it all a stack of procedures? | `TypeOK`, `DecisionsAreOpen`, `AskedOnce`, `OneReaction`, `ProceduresNest` |
| `nested_saves` | (violation) Does what a Reaction interrupted resume when its attack forces a save? | `ResolvedReactionsResume` |
| `turns` | Three rounds of an owner, its familiar and another creature who leave, return and fall at any point, with an effect on any of them. Is nobody skipped or doubled, does everything end when promised? | `TypeOK`, `OrderedByInitiative`, `RosterMatchesOrder`, `ReactionsAreNotRegained`, `OneTurnARound`, `EffectsEndOnTime`, `DurationsLast` |
| `turn_end_damage` | (violation) Do roster and Initiative agree when the familiar falls at the end of its own turn? | `RosterMatchesOrder` |

Every property has a mutant in `PROJECT.json`: a plausible bug in the code (a
guard missing from a WHERE clause, a revision not moved, a load reused, an await
in the wrong place) with which TLC finds the property violated. The mutated
forms stand in the modules before the definition they replace, marked `Mutant`.

### Bounds, and why they are enough

* **Requests: 3** (4 in `live`, 5 in `rate`). Every scenario the hazards name
  needs at most three: one that loads, one that changes the row meanwhile, one
  that observes or is queued behind. Requests are interchangeable, so symmetry
  is used where no liveness is checked. `live` numbers them in the order of
  their issue for the same reason (`InOrder`): it removes only renamings.
* **Attempts: 2 or 3** (16 in the code): a call that gives up and a call that
  succeeds after a conflict both happen.
* **Clock: 1 to 3 ticks in the sessions' runs**, with guests expiring after
  one and principals after one or two, so that a row expires before, during and
  after an operation. `rate` runs 6 ticks with a window of 3 and a wait of at most 1:
  two windows in a row, and a request of the first that is decided in the second.
  Two requests to a window, since with one a window is full as soon as it begins.
* **Handles: 2** (1 in `live`: its objects share nothing), one with a row and one free or with the row that fills a
  principal's quota; **principals: 2**, rivals; **registries: 2**, in two
  processes or in one.
* **Quotas: 1 or 2** sessions and commands, **1 to 3** requests per window, so
  that each is reached.
* **`store`**: two characters, one stat block and one Battle id, 6 objects made,
  2 preparations held, 2 acts. Two is what overlap takes: one plan that commits
  while the other is held, with a sheet operation or an act between; six objects
  pay for two registrations, a start, an operation and two plans. Acts are two so
  that a cancelled act's id could be given again.
* **`interrupts`**: two creatures, since a Reaction is answered by the other and
  answered back by the first; three procedures, so that one is interrupted, one
  interrupts and is interrupted, and one is innermost; three windows and one turn
  ended. About 1.8 million states.
* **`turns`**: two scores for three creatures, so that every order with and
  without a tie occurs; the familiar, its owner and the other creature each
  current, acted or waiting when one leaves; three rounds, so that an effect of
  one or two rounds made in the first ends before the bound; one effect at a time,
  since effects do not influence each other; one joining (a second was checked
  once, with 3 million states, and showed nothing else). About 0.7 million states.
  `turn_end_damage` keeps one round of effects.

Models with a bounded number of requests, objects, windows or rounds end, which
is no deadlock: `CHECK_DEADLOCK FALSE`. For the same reason nothing is said
about liveness in the Battle's runs: whether a turn ends is the table's choice,
and the rounds are bounded.

### Fairness

`EveryCallSettles` assumes weak fairness of `Serve(q)` for each request: the
event loop comes round, and an awaited operation settles. Node schedules
microtasks and callbacks in order, and the operations are computations without
a wait of their own. Nothing is assumed of clients, of the clock, of crashes or
of failing statements. Weak fairness is enough: once a request is at the head of
its chain only its own steps remove it, and the synchronous phases of other
calls, which block it, are bounded.

## 4. What TLAPS proves

`RecoverablePlaySessions_proofs` proves, for any number of handles, principals,
grants, processes, registries, requests and attempts, under the assumptions of
the module (`RegistryAssumption`, `StoredAssumption`, `CallAssumption`,
`RateAssumption`, all evaluated by TLC in the runs):

| Theorem | States |
| --- | --- |
| `Inductive` | `Spec => []IInv` |
| `TypeCorrect` | `Spec => []TypeOK` |
| `RevisionIdentifies` | `Spec => []RevisionIdentifiesRow` |
| `AnswersAreKept` | `Spec => []AnswersStand` |
| `NothingUnacknowledged` | `Spec => []OnlyAcknowledgedCommands` |
| `OwnersAppend` | `Spec => OwnerAppends` |
| `OwnershipMoves` | `Spec => OwnershipMovesOnce` |
| `QuotaHolds` | `Spec => []SavedQuota` |
| `RegistrySerializes` | `Spec => []RegistrySerializesHandle` |

**Why a strengthening is needed.** `AnswersStand` is about answers and rows
only, but a commit writes the *loaded* record, so that it keeps earlier answers
only if the loaded record is the row in the table. That is
`RevisionIdentifiesRow`, and it is inductive only with what a working request
holds (`RequestInv`: phase, call and loaded row fit together; an answered
request holds nothing), with `IssuedInv` (a handle has one row in its life, so a
revision is never seen twice with different contents) and with `AnswerInv`
(answers speak of handles that were issued, so a new row has no answers to
honour). `OnlyAcknowledgedCommands` also rests on the phases: only a request in
`operating`, unanswered until then, appends. `IInv` is the conjunction.

**How the proof goes.** Each action is first classified by what it does to rows
and answers (`StepKind`): a *quiet* step removes rows or loads them and answers
nothing about a log; a *write* (`CommitCommand`, `CommitActivity`,
`CommitSave`) replaces a row it has just compared; a *creation* makes a row
under a new handle; an *arrival* puts a call in place. `WriteFacts` is the heart:
at the revision loaded, the row written over is the row loaded. Each conjunct is
then shown once per kind instead of once per action. Types are proved
separately (`TypeStep`), per group of actions. `QuotaHolds` is by cardinality:
a step adds at most one session to a principal, and only when there is room.
`RegistrySerializes` has its own invariant `HeadInv`: a working request of a
chained call is the head of its chain.

### The registry implements the ledger

`LedgerRefinement_proofs` proves `ImplementsLedger` (`Spec => LedgerSpec`) and
`RemovalsAreOwed` (`Spec => OnlyOwnerOrExpiryRemoves`) from the assumptions above
and `AbsenceAssumption` (the marks for "no row" and "no call" are no records). Three
facts are added to `IInv`: a row loaded to be removed was expired, or belongs to
the caller who deletes it (`DueInv`; expiry stays true because clocks do not step
back and a current row is the row loaded), the row in the table has at least the
operations of the row loaded (`LogInv`: a full log stays full while the call that
found it so is on its way to its answer), and a call not issued yet has presented
no evidence (`IdleInv`). The steps of a request are of four kinds:
*inert* (rows may expire, the request may be refused with a reason that is
`Warranted` by the table), a *removal*, a *write* and a *creation*. An inert step is a clean-up or a refusal of the ledger, a removal
its `Delete`, a write its `Operate`, `Observe` or `Claim` (the row compared is the
row loaded, so the answer is about the log of that very step), a creation its
`Create`. Everything else (loads, charges, awaits, retries, crashes, ticks)
stutters. Both theorems follow from this one classification.

### Charges and conflicts

`RegistryBounds_proofs` proves three bounds:

* `ChargesOnce` (`RetriesAreNotCharged`): a request that is charged again would be
  counted in its window and not in `charged`; a queued request that was charged
  is a run on a retry (`ChargedInv`), and a run looks before it charges.
* `ConflictsAreProgress` (`ConflictMeansProgress`): a row's revision is at most the
  number of calls that have committed or saved on its handle (`ProgressInv`), and
  a run has met at most as many conflicts as the revision says, plus one for a row
  that is gone (`AttemptInv`). It is the argument that the retry loop makes
  progress: a conflict is always somebody's success.
* `SavesMeetNoConflict` (`OnlyRunsConflict`), when all registries live in one
  process: at most one request is inside a synchronous stretch, and what a save or
  a deletion loaded there is still the row in the table (`StretchInv`), so the
  `UPDATE` or `DELETE` after it finds what it expects, or only the quota missing.

### The in-memory registry

`LivePlaySessions_proofs` proves `LiveTypes`, `ResultsFollow`, `OwnersOperate` and
`LocalStays`: everything the run checks but liveness. What makes an awaited
operation exclusive is that the chain of an object is a queue without
repetitions of exactly the calls under way on it (`ChainInv`) and that the call
that operates is its head (`RequestInv`): so it has still seen the whole log when
it ends, whether or not the object is still in the map. The calls in a log are
answered (`LogInv`), so that nothing about them changes later. `LocalStays`
follows from the evidence: a local process's session has no retention, and
`deleteSaved` is for principals.

### The session store

`SessionStore_proofs` proves `StoreTypes`, `Occupancy`, `PendingFollows`,
`SelectionIds`, `Companions` and `Lineage`: all six properties of the run, for
any number of characters, stat blocks, preparations, objects and acts, from
`StoreAssumption` and `AbsenceAssumption`. The invariant `StoreInv` adds to them
that everything *held* was sound when it was prepared: what it expects and what
it would store belong together, with numbers already given out. That is what
makes the comparison by identity at the commit enough: if the sessions and the
Battle are still the ones it was computed from, what it stores agrees with them.

### The interrupt stack

`BattleInterrupts_proofs` proves all five properties of the run. For
`InterruptTypes`, `OpenDecisions` and `OneReactionEach`, `IInv` is `Sound`
(frames, call and history fit together), `Reacted` (a creature that has reacted
since its turn began has spent its Reaction) and `DecisionsAreOpen`. The key is
that only a reported Ready trigger ever goes *over* a pending decision, and that
what resumes after it only resolves; everything else that spends a Reaction or
fells a creature happens while a Reaction or a procedure is on top, and the
decision below is reconsidered when it comes back to the top.

`EachEventAskedOnce` (`AskedOnce`) needs to know how far each procedure is, though
it is run again from its start after every window. `AskInv` says that every
procedure in progress has *one* place it goes on from: the call that runs it, a
frame that holds it, or the Reaction it resolves (`CallAsked`, `Below`, `Linked`).
At that place stands the trigger it has been through, and the windows opened for
it are among those that trigger leaves behind (`Past`), while those it may still
open are not. A window on the stack has asked only those its frame has marked as
offered, so nobody is asked twice in it. It holds with and without `NestedSaves`.

`ProceduresAreNested` (`Spec => ProceduresNest`) assumes `~NestedSaves`: the run
`nested_saves` is a counterexample to what it rests on, that only the top frame
waits for input (`Lone`). Then the frames below are checkpoints and the
procedures they hold, with the innermost, are the abstract stack: opening a
window or waiting for input moves a procedure from the call to a frame, a
decision with a Reaction, a report or a new command is `Start`, a resolution is
`End`, and looking at what lies below stutters. `AskInv` is used here too: that a
procedure has one place is what makes the top of the stack the one that ends.

### The limiter

`RequestRate_proofs` proves `RateTypes` and the run's three properties, for any
keys, processes, maximum, window and busy timeout. All rest on `Clocked`: no
window and no verdict is dated after the clock, and nobody waits longer than the
timeout. `RefusedAfterTheMaximum` counts: a window that counts n requests began
before n admissions (`WindowsFilled`). `DelaysToldSuffice` follows the window
that refused until the delay is over (`DelaysSuffice`). `BurstsAreBounded` is the
hard one: transactions come in another order than the times they go by, so the
admissions of a key are cut by their *place* in the order of transactions
(`Slice`), and the invariant `WindowsTracked` says that the cuts can be chosen
such that each stretch lies in time before what follows it: old ones, those of
the last window but one, those up to the first request of the last window, and
those after it (`Past`, `Open`, `Closed`). Each stretch is at most one window's
worth, and a span meets two or three of them.

### The turn order

`BattleTurns_proofs` proves all seven properties of the run `turns`, for any
creatures, scores, effects, joinings and rounds, from `TurnsAssumption`:

| Theorem | States | Where damage at the end of the familiar's turn may fell it |
| --- | --- | --- |
| `BattleTypes` | `Spec => []TypeOK` | holds |
| `InitiativeIsOrdered` | `Spec => []OrderedByInitiative` | holds |
| `RosterAndOrderAgree` | `Spec => []RosterMatchesOrder` | does not (`turn_end_damage`) |
| `EverybodyHasOneTurn` | `Spec => OneTurnARound` | not claimed |
| `EffectsEndWithTheirTurn` | `Spec => EffectsEndOnTime` | not claimed |
| `LastingEffectsLast` | `Spec => DurationsLast` | holds |
| `ReactionsKept` | `Spec => []ReactionsAreNotRegained` | holds |

The three that assume `~TurnEndDamage` are about creatures on the roster being in
Initiative once and nobody else being there, which is what that damage breaks.

`TurnsInv` has three parts. `Sound` says that the lists are ordered and hold the
roster, and, without that damage, nobody else and nobody twice (`Tidy`).
`AllDue` says of every effect that the round its end is stored as and the count
of turns it was promised for agree, given whether its bearer has acted this
round and how many rounds began without the boundary: this is what joining,
leaving and the turning of the round must keep. `Once` says that those who have
acted are those who have ended a turn this round or have come in. Everything an
operation does to Initiative is first described by sets, apart from the lists
(`Turns`, `Leaves`, `Joins`), then by what it makes of a battle (`Departs`,
`Arrives`, `Stands`, `Crosses`), and the invariant is kept by each of these
four; the boundary is a departure, a turn and a departure.

`ReactionsKept` has an invariant of its own, `Kept`, which says where the used
Reaction is: with the combatant while the familiar is on the roster, and in the
companion's entry while it is dismissed or has disappeared. The lists play no
part in it (`NextKeeps`, `RemoveKeeps`, `InsertKeeps`).

### Only model-checked

Liveness under fairness (`EveryCallSettles`, in both registries), which is out of
the prover's reach. Every other property of the passing runs is a theorem. The
violations are TLC's alone: a counterexample needs no proof.

No proof uses induction over data. Where one was tempting, the definition says
directly what the recursion would compute (`Remaining` by counting, the open
procedures as a function on the stack), and least elements come from the
well-foundedness of the naturals (`NatLessThanWellFounded`, `WFMin`).

## 5. Where code and documents disagree

* **`http_serial`.** `packages/mcp/README.md:75` says that calls serialize per
  handle. The chains belong to a registry and the HTTP host makes one per POST,
  so two POSTs on one handle do operate at the same time. Nothing is lost by it:
  the revision makes one of them start again, so its operation runs twice.
* **`live_deleted`.** `packages/mcp/README.md:84` says that unavailable sessions
  always return `playSessionUnavailable`. A run that joined the chain behind
  `deleteSaved` operates on the deleted session and succeeds, because `run` does
  not ask, as `deleteSaved` does, whether the map still holds its object. It
  takes a host without a repository and with authenticated callers.
* **`nested_saves`.** `docs/adr/0009-battle-continuation-checkpoints-and-frontiers.md:16`
  says that the runtime resumes the continuation after the interrupt resolves.
  When an attack made as a Reaction deals damage and forces a save as its damage
  window closes, the save's frame lies over the Reaction's checkpoint; the answer
  resolves the attack but takes the path that does not look at what it leaves
  behind. The checkpoint stays active and what it interrupted does not go on.
* **`turn_end_damage`.** `combatant-removal.ts:78` states that roster and
  Initiative contain the same combatants. A familiar that drops to 0 Hit Points
  from damage at the end of its own turn is removed from the state that damage
  returns, but the boundary keeps only that state's combatants: Initiative still
  lists the familiar, its entry says it is present, and when its turn comes every
  command is refused. Readied spells held with Concentration that this damage
  breaks are kept for the same reason.

Two behaviours that no line of the repository contradicts, but that a reader of
the models should know:

* when the current combatant is removed (or a familiar falls in its own or the
  incoming turn), the turn of the next begins without the boundary: no reset of
  Reaction and movement and no start-of-turn effects;
* a round that begins because somebody left ticks no durations, so an effect may
  last one round longer for each such round. `DurationsLast` allows exactly that
  (`wraps`).

## 6. Not modelled, and why

* **The rules engine** (the rest of `battle-runtime`, sheet and creation
  runtimes, surface content): sequential, data-driven code of several hundred
  thousand lines, one handler per spell, feature and attack, with models of its
  own in Quint next to the code. It is nearly all of the repository's lines, which
  is why the models map a small share of them: they take the protocols those
  handlers run in, not the handlers.
* **In `SessionStore`**: swaps of Initiative during a setup and the selected stat
  block, on which no other state depends; `storeBattleTransactionResult` accepts
  any result of the same session, and what the runtime answers is left open.
* **In `BattleInterrupts`**: the frames of falls and ended flight, spell and
  failed-save triggers, choices that spend a Bonus Action instead of a Reaction,
  follow-ups of single features (Cleave, Horde Breaker, the rest of a move), and
  the transaction layer's chain of pending acts above the stack. A call that ends
  invalid leaves the session as it was and is no step.
* **In `BattleTurns`**: saves and damage amounts, death saves, start-of-turn
  effects, recharge, readied and helped actions, light; the other resets of a
  turn (movement, Dodge, action economy) and the Reactions of creatures other than
  the familiar; several owners or several companions at once. Whether a creature
  falls is a choice. `EndTurn` breaks no Concentration of its own. The boundary
  breaks it for a long casting left unfinished and for a readied spell that
  expires (`turn-boundary-lifecycle.ts:1153`, `:1182`), where no effect hangs on it
  yet (`concentrationBrokenEffectFrom` asks for the Concentration of a spell in
  effect). A failed save or damage at the boundary can break that kind too: at the
  end of the turn this is `BreakConcentration` as the step before, at its start as
  the step after, and only the end of a lasting effect in the very step that would
  also have ticked it away is left out.
* **Draft allocation** (`character-creation-runtime`): choices filled in one at a
  time on a value passed in and out, with nothing shared.
* **Decoding and migration of stored rows**: pure rewriting of JSON. A row that
  does not decode appears as `StorageFails`.
* **`pruneGuestPressure`**: no caller in the registry.
* **The schema's retirement of old tables, backups, rollout scripts, OAuth,
  Admin Mirror, web application**: I/O, external services, presentation.
* **Reused handles**: random UUIDs; a test factory that repeats handles could
  meet a new row at revision 0 with an old record in hand.
* **Clocks that step back or differ** between processes.

## 7. Plan

Done: the recoverable registry with its ledger and the proof of the refinement,
the limiter, the in-memory registry with its proofs, the session store with its
proofs, the interrupt stack with its abstract stack and proofs, the turn order
with its proofs. Every safety and action property of these is a theorem.

Left, in this order:

1. The transaction layer above the interrupt stack
   (`battle-runtime-transaction.ts`): cursors, ancestors and retries of a pending
   act, composed with `BattleInterrupts`.
2. Death saves, stabilisation and recovery as part of the turn boundary of
   `BattleTurns`, with the shared algebras as operators.
3. Several owners and companions in `BattleTurns`; readied actions.

## 8. Running

    tlc -workers 2 -config claims.cfg MCRecoverablePlaySessions
    tlc -workers 2 -config rate.cfg MCRequestRate
    tlc -workers 2 -config live.cfg MCLivePlaySessions
    tlc -workers 2 -config store.cfg MCSessionStore
    tlc -workers 2 -config interrupts.cfg MCBattleInterrupts
    tlc -workers 2 -config turns.cfg BattleTurns
    tlapm RecoverablePlaySessions_proofs.tla
    tlapm LedgerRefinement_proofs.tla
    tlapm RegistryBounds_proofs.tla
    tlapm LivePlaySessions_proofs.tla
    tlapm RequestRate_proofs.tla
    tlapm SessionStore_proofs.tla
    tlapm BattleInterrupts_proofs.tla
    tlapm BattleTurns_proofs.tla
