# Formal model of SagaSmith D&D

TLA+ specifications of the stateful core of SagaSmith D&D, the TLC
configurations that check them on small instances, and proofs for every
instance. Run them with

    tlc -workers 2 -config TasksShared.cfg MCDurableTasks
    tlapm DurableTasksProofs.tla

Paths below are relative to the repository; `mcp/`, `runtime/` and `domain/`
stand for `packages/mcp/src/sagasmith_dnd_mcp/`,
`packages/runtime/src/sagasmith_dnd_runtime/` and
`packages/domain/src/sagasmith_dnd/`.

## 1. The system

An LLM plays dungeon master through MCP tools. A server process (`mcp/server.py`,
`mcp/gateway.py`) authorizes each tool call and hands it to the runtime, whose
services (`runtime/services/*.py`) load campaign state from SQLite (package
`sagasmith_core`, not in this repository), call the deterministic rules of
`domain/`, and commit the result together with the campaign's random stream.
Three pieces of state live outside that database and are written on their own
schedule: the durable task file, the NPC conversation journals and the local
session journal. Most of what is hard to test is there, where two stores, two
processes or a crash meet.

| Component | State it keeps | Operations | Hard behaviour | Module |
|---|---|---|---|---|
| Durable tasks, `mcp/mcp_tasks.py` | table `mcp_tasks`, tombstones, in-memory workers | create_or_get, claim, heartbeat, complete/fail/release, request_cancel, expiry, eviction, `_run` | several processes on one file, leases, crash recovery, TTL, capacity | `DurableTasks` |
| NPC conversations, `runtime/npc_conversations.py`, `runtime/services/continuity.py` | one JSON journal per conversation: status, revision, events, activations with leases, publications, idempotency receipts | open, ingest, claim, submit, cancel, publish, close, abort, require_fresh | CAS revisions, replays, leases, staleness, commit across database and journal | `NpcConversation` |
| Suspended saves, `runtime/services/saving_throws.py`, `domain/legendary_resistance.py`, `bardic_inspiration.py` | the pending decision with the dice drawn so far | run, resolve, `_attempt`, finalize, guard_request | a command rolled back at a decision and run again on recorded dice | `SaveCommands` |
| Command scope and random stream, `runtime/operations.py`, `runtime/random_state.py`, `domain/random_stream.py`, `runtime/services/shared.py`, `campaigns.py` | campaign revision, stream position, receipts | command_scope, commits, snapshot_restore | dice used once, stale revisions, two processes | `SaveCommands` |
| Local session, `runtime/local_session.py` | journal of operations by idempotency key with their binding | prepare, execute, binding, replay | crash between dispatch and journal write; a restore that changes its own binding | `LocalSession` |
| Combat engine, `domain/combat_engine.py`, `runtime/services/combat.py` | encounter: order, turn, action economy, conditions, hit points, readied actions, choice windows | start_encounter, end_turn, apply_damage, death saves, concentration, reactions | long legal sequences, interrupts in the middle of an action | `Encounter` |
| Interrupted movement, `domain/movement_continuations.py`, `runtime/services/movement_continuations.py` | the rest of a move and the grant that pays for it, in the encounter | start_movement, spend_source_movement, resume_pending_movement | resumed after reactions, pushes, damage and choices changed the mover | `Movement` |
| Chases, `domain/chase_engine.py` | participants, positions, dash counts, whose turn, the pending complication | chase_start, chase_take_turn, chase_end | participants leave in any order; rests and exhaustion around it | `Chase` |
| Lifecycle, rests, resources, `domain/lifecycle.py`, `resources.py`, `game_time.py` | sheet resources, clock | rest, spend, recover | what a rest may take back | part of `Chase` |
| Exposure, `runtime/exposure.py` | guidance handles per session | open, get, touch, prune | stale handle | - |
| Other combat subsystems (mounts, grapples, stances, rage) | parts of the encounter | many | further windows and conditions | - |
| Rule engine and resolution plans, `domain/rule_engine.py`, `resolution_plan.py` | none | dispatch, plan | data-driven | - |
| Content, packages, stat blocks, authoring | content packages | import, validate, publish | parsing | - |
| Characters, inventory, spells, traps, diseases, poisons services | sheets | many | each is one database transaction | - |
| Gateway and authorization, `mcp/gateway.py`, `mcp/server.py` | delegations | authorize | checks of signed data | - |
| CLI, UI, OCR, portraits, skills documents | none | | I/O | - |

What must hold of each:

- durable tasks: one worker inside a lease, the last claimant answers, an ended
  task stays ended, work in progress is not evicted, every task settles;
- NPC conversations: no request takes effect twice or is lost, nothing outdated
  is said or remembered, a closed conversation is a committed one;
- commands: a key takes effect once, dice and uses are spent once, a repeated
  request finds what it led to, a suspended command is settled;
- combat: everyone gets one turn a round and one reaction a turn, windows can
  always be answered, a sheet's parts agree, death saves are rolled when due;
- interrupted movement: each cell is paid for once, each reach left is offered
  exactly once, nothing of a move outlives it;
- chases: one turn a round for everybody left, a chase that is on can go on;
  rests ought to take back what chases gave and nothing else, which the code does
  not keep (section 8).

The code's hazards are listed, with their lines and the properties that watch
them, in `PROJECT.json`.

How the parts meet: every operation of a campaign is one compare-and-swap
commit. `SaveCommands` models that commit, its receipts and its dice, and
`LocalSession` composes it with the journal in front of it; the encounter,
movement and chase modules take one command as one step because of it. `Chase`
composes the chase with the phase, combat, rests, marches and the sheet.
`DurableTasks` and `NpcConversation` have stores of their own and model each
access to them.

## 2. Modules

| Module | Extends or instantiates | Proofs |
|---|---|---|
| `DurableTasks` | refines `TaskContract` | `DurableTasksProofs`, `TaskContractProofs` |
| `NpcConversation` | | `NpcConversationProofs` |
| `SaveCommands`, `LocalSession` | `LocalSession` extends `SaveCommands` and refines `CommandContract` | `LocalSessionProofs` |
| `Encounter` | | `EncounterProofs` |
| `Movement` | | `MovementProofs` |
| `Chase` | | `ChaseProofs` |
| `LeastElement` | one lemma the last three proof modules rest on | itself |

Each has an `MC` module with the values of its constants. What could follow: the
effects timed by a source's turns in `Encounter` (`combat.py:4124`), Agent
positioning and mounts in `Movement`; in `NpcConversation`, which of the properties
proved for one process several processes keep.

## 3. Durable tasks

### Model and code

`DurableTasks.tla` models `mcp/mcp_tasks.py`: the SQLite store
`DurableTaskStore` and the workers of `TasksExtension`.

| Model | Code |
|---|---|
| `rows`, `tombs` | tables `mcp_tasks`, `mcp_task_tombstones` |
| `runs` | one execution of `_run`, its lease token and where it is between two awaits |
| `workers` | `TasksExtension._workers` of each process |
| `reqs` | the request a process is in the middle of, with what its first statement read |
| `CreateInsert`, `CreateSettle`, `CreateRefused` | `create_or_get`, split at its statements, and `intercept_tool_call` |
| `RequireFails`, `Poll` | `get`, `tombstone_reason` and `_schedule` under tasks/get |
| `CancelRead`, `CancelWrite` | `request_cancel`, SELECT and UPDATE |
| `Claim` ... `DoneCallback` | `_run`, `_heartbeat`, `complete`, `fail`, `cancel_claimed`, `release`, the done callback |
| `Maintenance` | `_maintain` with `_expire_task`, eviction and tombstone limits |
| `Restart` | the death of a process and `_prepare` of the next |

The connection is in autocommit mode and the lock is a thread lock, so a
statement is atomic across processes and a method of two statements is not: it
is two actions. Within one process nothing interleaves between awaits
(`LoopFree`). Abstracted: `_maintain` is one step; the row bytes are a flag
(`BytePressure`, which makes any number of evictions possible); the request hash
and the trusted binding are one value; a denied request changes nothing and is
left out; tasks/update does no more than `RequireFails`. `result_json` and
`error_json` are represented by who wrote them.

`TaskContract.tla` is what a client is promised, without rows, leases, clocks or
processes: submitted once, taken by workers that supersede each other, ended by
the last taker or cancelled, removed for good. `SharedSpec` adds `Overrule`.

### Runs

| Run | Instance | Shows |
|---|---|---|
| `TasksShared` | 2 processes, 2 tasks, 2 keys, 2 workers, 1 row allowed, byte pressure | Leases exclude, only the last claim answers, a cancelled row stays cancelled, leased work is never evicted, and the store implements `SharedSpec` |
| `TasksLive` | 1 process with crashes, under `FairSpec` | The store implements the full contract, every worker ends, every task settles |
| `TasksCancelRace` | 2 processes, 1 task | **Violation**: see section 8 |

Two workers and two processes are enough for every race, since each statement
reads one row and compares it with one token, and with one row allowed the second
task's create has the first one to evict. Crashes are exercised with one process;
with two a dead process is one that takes no further step, which `TasksShared`
includes. The lease is shorter than
the ttl and the clock passes both, so leases lapse and are taken over, and rows
expire under workers. `MaxTime` bounds the clock and `Run` the number of
workers. Deadlock is not checked: clocks, task ids and workers run out.

Fairness: time passes; a worker or request that alone can continue does so (weak
fairness: it holds the event loop); a worker that waits for the loop gets it
although other handlers may have it in between (strong fairness: asyncio serves
its queue in order); executors end, since each is a tool call; clients poll the
tasks they were given, which is what removes overdue rows and restarts dead
work. `Heartbeat` needs no fairness, and no fairness is put on crashes.

### Proofs

`DurableTasksProofs.tla`, for any sets of tasks, processes and workers and any
durations, from the constant assumptions of `DurableTasks`:

- `TypeCorrect`: `Spec => []TypeOK`. The lemmas say that maintenance, row updates
  and worker updates keep tables well formed.
- `LeaseExcludes`: `Spec => []LeaseExclusion`. Exclusion is not inductive. The
  inductive invariant `LeaseInv` adds `GrantsKept` (the row of a worker inside
  its grant is gone, ended, or carries its token with an expiry at or after the
  grant, so nobody else can claim it) and `Minted` (a worker's task and every
  row's id were minted, so a new row never replaces one a worker knows). All
  steps but a successful claim and a heartbeat are `Quiet`, and one lemma shows
  that quiet steps keep `LeaseInv`.
- `AnswersFromLastClaim`: `Spec => []AnswerFromLastClaim`. The inductive
  invariant `AnswerInv` adds that a lease in a row is the last claim's.
- `CancellationIsFinal`: `Spec => CancelledIsFinal`, an action property, from
  `Minted`: every UPDATE of a worker asks for a working row, and no new row
  replaces one that is there.

`TaskContractProofs.tla` adds, under the same assumptions:

- `ActiveWorkStays`: `Spec => ActiveWorkIsKept`.
- `StoreImplementsSharedContract`: `Spec => ImplementsSharedContract`. Whatever a
  step of a process, of a worker or of maintenance does, its `Effect` on the rows is
  one of six: rows that may go are removed (`Removes`), a task is submitted, taken,
  left as it was, ended, or cancelled. There is a lemma for each action of
  `DurableTasks` that says which, and one for each effect that shows it to be a step
  of the contract under the refinement mapping, or a stutter. The invariant
  `ContractInv` adds to `LeaseInv` and `AnswerInv` that what a request read at its
  start is in the past (`PastReads`: a row that was found overdue still is) and that
  a working row has no answer (`Unanswered`).
- `OneProcessImplementsContract`: for a single process, `Spec => ImplementsContract`,
  the contract without `Overrule`. `Sole` says that the event loop is held by at most
  one request or worker, so that nobody ends the task a cancellation has found
  working; every cancelling step is then one of the contract.

Liveness is only model-checked, and `CancelledHoldsNoAnswer` is refuted (section 8).

## 4. NPC conversations

### Model and code

`NpcConversation.tla` models the journal of `runtime/npc_conversations.py` and
its handlers in `runtime/services/continuity.py`. A journal is one JSON file
replaced whole; a handler reads it, compares the authority it was opened under
with the database (`require_fresh`, which may save the file), reads it again,
changes the copy and writes it if the revision did not move; closing commits to
the database in between. Each access is an action.

| Model | Code |
|---|---|
| `journal` | the conversation files: status, revision, locks, runtimes, activations with publication, requests and candidates, receipts |
| `version`, `fact`, `scene` | what `require_fresh` compares: actor revision with fact and knowledge heads, the head a fact revises, the scene's state version |
| `ledger` | the continuity commits, by idempotency key |
| `job` | the handler a process is in, with the copy in its memory |
| `Open`, `OpenScan`, `OpenWrite` | `ConversationStore.open` |
| `Fresh` | `npc_conversation_require_fresh`, `_refresh` |
| `Ingest`, `Claim`, `Submit`, `Cancel`, `Publish`, `Abort` | `begin_mutation` and the handler's change |
| `Commit`, `Finish`, `Write` | the continuity commit of close; `finish_mutation`; `_write` |
| `Crash`, `Cleanup`, `Lapse` | the death of a process, `cleanup_terminal_receipts`, a lease that expires |
| `Send`, `Retry` | the client: a new request, or the same one again under its key with the original or the current revision |

Handlers of one process never interleave: the server calls the synchronous
function on its event loop (`mcp/server.py:1330`). One process that may die
between any two accesses is therefore the main configuration; `Proc` may have
more members, for which `ReceiptsKept` fails (the last comparison and the
replacement are not one step), and the hazard list says so. Abstracted: an
activation is its position, a lease is the key of its claim, a proposal carries
at most one publication, one group of requests and one candidate; time is
`Lapse`. Left out: player participants, heard-statement candidates, inboxes,
schema validation, the journal's byte limit.

### Runs

| Run | Instance | Shows |
|---|---|---|
| `npc_single` | 2 conversations about 1 NPC, 5 requests, 1 retry, 1 change that may change back, crashes (3.4 million states) | The journal holds exactly what its receipts say (`EffectsReceipted`), receipts stay (`ReceiptsKept`), only the last claimant speaks (`LastClaimantSpeaks`), nothing outdated is committed (`CommittedIsCurrent`), closed means committed (`ClosedIsCommitted`), a refresh replaces exactly its own unfinished work (`ReplacedOnce`), an NPC is in one active conversation (`OneConversationEach`), and a stale one never resumes, also when the scene changes back (`StaleIsSilent`) |
| `npc_abort_committed` | 1 NPC, crash | **Violation**: see section 8 |

Five requests reach open, claim, submit, publish and close with a crash and a
repeated request anywhere, or a second conversation that takes the NPC over.
`MaxKey`, `MaxRetry`, `MaxChange` and `MaxEvents` are the bounds; deadlock is not
checked because keys run out. `StaleIsSilent`, `ReceiptsKept`,
`CommittedIsCurrent` and `ClosedIsCommitted` are action properties: they compare
what was read, what is written and what the database holds at that moment.

### Proofs

`NpcConversationProofs.tla` proves for any conversations, processes, proposals and
bounds and finitely many actors

- `ConversationTypeCorrect`: `Spec => []TypeOK`,

and for one process, whatever its requests, retries and crashes (with two, one can
replace the file the other has just written, so that each of these may fail):

- `OneProcessOneConversation`: `Spec => []OneConversationEach`,
- `EffectsMatchReceipts`: `Spec => []EffectsReceipted`,
- `LastClaimIsHeard`: `Spec => []LastClaimantSpeaks`,
- `OwedAnswerIsReplacedOnce`: `Spec => []ReplacedOnce`,
- `ReceiptsStay`, `CloseCommitsFirst`, `StaleStaysSilent` and `CommitsAreCurrent`:
  the action properties `ReceiptsKept`, `ClosedIsCommitted`, `StaleIsSilent` and
  `CommittedIsCurrent`.

None of them is inductive, because a handler works for several steps on a copy. The
invariant `SoloInv` has four parts. `TypeInv` types files, requests, commits and
copies. `SoundInv` says of every active file that it is `Sound` for what was asked:
its work is its participants' and as current as its locks (`Works`, `Locked`),
receipts are numbered by revisions (`Numbered`), leases, completed work, outputs and
events are what receipts say (`Leases`, `Placed`, `Counted`), a submit follows the
last claim (`Spoken`), and what was invalidated is replaced once (`Replaced`).
`RestInv` adds `OneConversationEach`. `JobInv` says what the process knows at each
point of a handler: its copy is `Alike` the file until it changes it, and then a
`Draft` of it, made for its request under a key without a receipt; at a close nothing
has moved since the comparison; once past it the commit is in the database.

A mutation is thus shown in two halves: the copy a handler makes is a `Draft` (one
lemma for each request), and a draft of a sound file that is written under its key
is sound (`DraftSound`). `RefreshSound` does the same for `require_fresh`. The action
properties rest on `JournalSteps`: a step leaves a file as it was, makes a new one,
refreshes it, writes a draft of it, or cleans up an ended one.

The constant assumptions are that actors are finitely many (a file lists them), that
a proposal has the fields of `ProposalType`, and that `None` is not a record.
`CommittedNotAborted` is refuted (section 8), also with one process.

## 5. Combat encounters

### Model and code

`Encounter.tla` models `domain/combat_engine.py` and the handlers of
`runtime/services/combat.py`, `spells.py` and `attacks.py` around it, for the
2014 rules. A tool call commits once under the revision it read, so a handler is
one action.

| Model | Code |
|---|---|
| `sheet` | hit points, death-save tallies, conditions and concentration of the character sheets |
| `present`, `waits`, `turn`, `round`, `surprised` | the combatants in initiative order, queued reinforcements, `turn_index`, `round` |
| `main`, `bonus`, `reaction`, `due` | `turn_budget` and `death_save_due` |
| `readied`, `pending` | `encounter["readied"]`, `encounter["pending"]` |
| `EndTurn` | `combat_end_turn`: burning oil, `end_turn` with the wrap into a round, start-of-turn fire, lapse of a readied response, the death save due |
| `Struck`, `Healed`, `Stabilized`, `Rolled` | `_apply_adjusted_damage`, `apply_basic_healing_to_sheet`, `stabilize_sheet`, `resolve_death_save_to_sheet` |
| `Damage`, `Heal`, `Stabilize`, `DeathSave` | the handlers around them |
| `Cast`, `ReadySpell`, `ReadyAction` | `_settle_combat_spell`, `combat_ready_spell`, `resolve_common_action("ready")` |
| `Trigger...`, `Decline`, `Release...`, `Dissipate` | the trigger and resolve handlers of readied responses |
| `ConcentrationCheck`, `ChoiceOpen`, `ChoiceResolve` | the windows |
| `Queue`, `CombatEnd` | `queue_combatant`, `combat_end` |

`acted`, `reacted`, `dying` and `saved` are history variables. A combatant's copy
of its sheet is written in the same commit and is not kept apart, except that the
next actor's `due` is computed from the sheet stored before the call
(`combat.py:4056`), as in the code. The order is a set sorted by `Rank`. A
readied spell is a cantrip and `Cast` a concentration spell of some level, which
is the only pairing the 2014 bonus-action rule allows in a turn. Generic windows
are at most one for each actor of `Prompted`. Left out: positions and movement,
attack rolls and modifiers, other conditions and timed effects, temporary hit
points, legendary and dependent turns, raising the dead, the 2024 rules.

### Runs

`encounter_rounds` (about 266,000 states) has two beginnings. The duel: a caster
with death saves and a surprised monster, both with concentration and readied
responses, two hit points each, burning oil and fire, blows that knock out, hit
critically or kill outright. The wave: three monsters that die at one blow and a
reinforcement behind them. Four rounds let a tally survive a heal and a second
fall, a surprised actor take a second turn, and a reinforcement join at any
wrap. Everybody gets one turn in a round (`OneTurnEachRound`) and rolls the saves it owes
(`SaveEachTurn`), one reaction is spent between two own turns (`OneReaction`), held
energy goes with its entry (`HeldEnergyHasEntry`), windows can be answered
(`WindowsAreLive`) and the parts of a sheet agree (`TallyWhileDying`). Deadlock is
checked: an open encounter can always go on. `MaxRound` is the only bound on
behaviours.

### Proofs

`EncounterProofs.tla` proves all seven for any combatants, initiative, hit points,
blows, line-ups and number of rounds: `WellFormed` (`TypeOK`), `SheetsAgree`
(`TallyWhileDying`), `EnergyIsEntered` (`HeldEnergyHasEntry`),
`WindowsAnswerable` (`WindowsAreLive`), `ReactsOnce` (`OneReaction`),
`RoundsAreFair` (`OneTurnEachRound`) and `SavesAreRolled` (`SaveEachTurn`). They
assume that actors are finitely many with distinct ranks (the code sorts by
initiative and then identity), that hit points, blows and cures are positive, and
that a line-up has a combatant and its bench is apart from them.

The invariant `IInv` has six parts. `Consistent` relates sheets, readied responses
and windows: each sheet is sound, held energy has its entry, windows ask about
what is there, and at most one window other than the generic ones is open, which
is what answering or closing one needs in order not to strand another. `Frame` is
the rest of the type invariant. `Benched` says that a reinforcement not sent in
waits for no round, so that seating the queue never seats an actor twice. `Unspent`
says that a reaction is there or was spent, never both, and that the surprised have
neither. `TurnOrder` says that those who acted stand no later than the current
actor, and that whoever stands no later and did not act is dead; `RoundsAreFair` is
this at the end of the order. `SavesDue` says that a save is due exactly while the
actor dies and has not rolled.

`StruckSound`, `HealedSound`, `StabilizedSound` and `RolledSound` show that each
operation leaves a sound sheet, and there is one lemma for each action. The hardest
is `EndTurnKeeps`: ending a turn passes over the dead, through at most one wrap that
seats reinforcements. `PassedReached` shows that everybody passed over on the way is
dead, and `LandingReached` that the walk stops at a combatant. `Passed` is a
recursive function (`f[n \in S] == ...`, not a `RECURSIVE` operator), so that its
defining equation (`PassedIs`) is first shown to have a solution.

## 6. Commands, suspended saves and the local session

### Model and code

`SaveCommands.tla` models a command that rolls saving throws, from the moment a
process takes the request: `runtime/services/saving_throws.py` with
`operations.py`, `random_state.py`, `domain/random_stream.py` and the
compare-and-swap commits of `shared.py`. `LocalSession.tla` puts
`runtime/local_session.py` in front of it for one local process; the others are
server processes on the same database.

| Model | Code |
|---|---|
| `db` | the campaign: its revision, the actors' revision, timeline, stream position, Legendary Resistance uses, Bardic Inspiration dice, the pending decision |
| `receipt` | the idempotency receipts, written in the transaction they answer for |
| `lock` | the write transaction of `_speculative_work` |
| `job` | the attempt of a process: the recorded dice and decisions it runs on and where it is |
| `Receive`, `Start`, `Admitted` | `execute_shared`, `command_scope`, `guard_request`, `replay_idempotent` |
| `BeginCommand`, `BeginChoice` | `run` up to the transaction of its attempt, `resolve` |
| `Enter` | `_attempt` at the beginning of its transaction, and the handler's own receipt and revision |
| `Roll`, `Proceed`, `Suspend`, `Replay`, `Finish` | `randint`, `_Command.save` and `inspire`, `finalize` |
| `Offer` | the second transaction of a suspended attempt, which stores dice and decision |
| `WriteSheet` | a commit on a sheet by another command |
| `BeginRestore`, `RestoreSnapshot` | `snapshot_restore` up to its comparisons; `snapshots.restore` |
| `kept`, `Freeze`, `Dispatch`, `Record` | the journal: `prepare` and `_save`, `execute` up to and after the dispatch |
| `Crash` | the death of a process between any two steps |

A receipt is found in two places. `run` looks only for the receipt of a decision the
command stopped at (`saving_throws.py:134-143`). A command that committed with no
decision left its receipt to its handler, which is reached after the refusal of a
pending decision (`saving_throws.py:144`) and the comparison of campaign and actors
with what was read before the transaction (`saving_throws.py:345-350`), and which
replays it before it compares the revision that the request names (`Committed` before
`j.basis = db.rev` in `Enter`; `combat.py:3770-3777` for instance). A campaign in which
nobody holds either feature runs its handlers without `_attempt`
(`saving_throws.py:154-158`) and has no decisions; it is not modelled.

A restore compares the revision (`campaigns.py:2265-2270`), goes through its guards and
restores later (`campaigns.py:2278`), in no transaction of its own and with no expected
revision, so that the two are two steps, and another process may commit in between.

`CommandContract.tla` is what a table is promised: a command takes effect once; it
may stop at decisions of its own and goes on when each is answered once, in
order; nothing else takes effect meanwhile; a new timeline begins only while
nothing waits. It has no processes, crashes, revisions, receipts or dice. Its `Spec` is
what one process keeps. Several processes keep `SharedSpec`, which adds that a restore
may give up a command that waits (`GiveUp`): the command is then never settled, and its
decisions are not answered any more.

Abstracted: one revision stands for those of all actors; a die is whether it is a
success; a command is the list of who rolls. `dice` and `decided` are history
variables, and the stream is fixed at the beginning (`fate`). Left out: Divine
Smite (a third kind of decision on the same path), who may answer, authorization
and rules fingerprints, rulings that wrote nothing, requests without a key.
A handler that compares a character's revision only (the 2024 death save,
`characters.py:5222`; `campaigns.py:4483`) is not a command of this model: with two
server processes it could draw positions another command has drawn; in one
process nothing interleaves with it.

### Runs

`commands`: two commands with two savers each (a dragon with two uses of Legendary
Resistance, a hero with an inspiration die), their answers from the local session
and from a server process, one accepting and one declining the same decision, a
restore, a write on a sheet and a crash (367,249 states). It has two streams of dice: one
that makes both commands stop at decisions, and one of successes only, on which the
second command commits with no decision and is met again by its handler. The restore is
sent through the local session while the other process may suspend a command, between
its comparisons and its write as well.

- `DiceOnce`: however often a command was rolled back and run again, each die of
  the stream was drawn for one command and is where it was first drawn.
- `UsesTally`: uses and inspiration dice are spent with the effects they were
  accepted for, as often as they were accepted.
- `ImplementsContract`: the refinement of `CommandContract!SharedSpec`.
- `CommittedIsAnswered`: a repeated request of the local session that has taken
  effect is answered with what it led to while its timeline lasts, also when the
  process died between the commit and the journal write. The two exceptions it states
  are the code's: while another command is suspended even the repetition of a
  committed request is refused; and the repetition of a command that committed with no
  decision is refused when campaign or actors moved between the reads and the
  transaction of that attempt. Both pass: the next repetition meets the receipt.
- `DecisionSettles`: a suspended command is settled, under `FairSpec`.

Fairness: a process that has taken a request goes on with it; the owner of a
pending decision answers it and repeats the answer until it arrives (strong
fairness, because a decision may be replaced by the next one while the answer is
being formed). Nothing forces a crash or a restore. The bounds are `MaxDie`,
`MaxSheet`, `MaxCrash`; the answers that exist are those of `Choice`. Deadlock is
not checked because requests run out.

`save_stuck` is a violation, see section 8.

### Proofs

`LocalSessionProofs.tla` proves, for any processes, scripts, creatures, answers,
restores, streams and bounds and finitely many commands:

- `LocalTypeCorrect`: `LocalSpec => []LocalTypeOK`,
- `DiceAreUsedOnce`: `LocalSpec => []DiceOnce`,
- `UsesAreTallied`: `LocalSpec => []UsesTally`,
- `CommittedStaysAnswered`: `LocalSpec => CommittedIsAnswered`,
- `CommandsKeepTheirContract`: `LocalSpec => ImplementsContract`,
- `OneProcessKeepsTheWholeContract`: if the local process is the only one,
  `LocalSpec => ImplementsWholeContract`.

All rest on one inductive invariant, `IInv`. Requests are worked on where they were
sent (`Addressed`), what a client read was current once (`Read`), and receipts and
journal entries name what was asked (`Receipts`). `Grounded` says what an attempt
holds: as long as the campaign is at the revision the attempt read, its base is the
one stored there (`Here`), and what it has drawn, spent and decided is what script,
recorded dice and recorded decisions give up to where it is (`Running`), so that a
suspended attempt offers exactly the next decision (`Offering`). `Suspended` says the
same of the pending decision in the database, and `Untouched` that a command without
a receipt has left no dice and no decisions. `DiceOnce` and `UsesTally` are kept
because a commit is a compare-and-swap: whoever commits is at the current revision,
so `Here` and `Running` apply to it, and its new dice come after every position drawn
in this timeline. `UsesTally` is a count: the uses taken by different commands are
disjoint (`Pairs`), and a commit adds those of its own script.

For the refinement every step is shown to be a step of `CommandContract` or a stutter:
a final commit finishes or begins the command it is for, an offer stops it at its next
decision, a restore begins a timeline or gives up what waits, and nothing else
changes receipts or the pending decision (`ContractStep`). With one process nothing
waits while its own restore is under way (`Alone`), which is what the whole contract
needs in addition. `DecisionSettles` is only model-checked.

## 7. Interrupted movement and chases

### Movement: model and code

`Movement.tla` models one mover and any number of threats on a line of cells. In
the code an operation takes the stored encounter to the next one and a commit
ends in `resume_pending_movement`; in the model the encounter is one record,
operations are functions of it, and every action ends in `Commit`.

| Model | Code |
|---|---|
| `fight.at`, `spent`, `condition`, `prone`, `main`, `reaction` | the mover's position, movement spent, conditions, action and reaction |
| `ready` | threats that can still make an opportunity attack |
| `pending` | the open windows: the opportunity's own and those an attack opens |
| `cont`, `grant` | `movement_continuation` and `source_movement` |
| `trail`, `asked`, `met`, `move` | history: cells walked and who watched, crossings offered, entries into the sphere |
| `Windows`, `First`, `Walk`, `Pause`, `StartMovement` | `grid_reaction_windows`, `_spend_movement_uninterrupted`, `start_movement` |
| `SourceMove`, `Granted` | `spend_source_movement` |
| `Resume`, `Cancel`, `Restart`, `CanGoOn` | `resume_pending_movement` |
| `Move`, `Contacts`, `RouteWalked` | `combat_move` and its contacts with a Rolling Sphere |
| `React`, `Decline`, `Defend`, `Concentrate`, `Rescue`, `Push`, `Stand`, `Disengage`, `Suffer`, `Disable` | answers and what else happens to mover and threats |

Every other handler that would change the turn requires that no choice is pending,
so a stored move never sees another turn; those branches of
`resume_pending_movement` cannot be reached and are left out. Distances are in
cells. Left out: Agent positioning, creature spaces and mounts, grapple drags,
Aggressive movement, jumps, tethers, gear hazards, Dash.

### Movement: runs and proofs

`movement`: two moves of one turn past two threats with three reaches, two of which
end at one cell, over difficult terrain, paid by movement or by a reaction's
grant. `WalkedIsPaid` (every cell walked was paid for once, from the turn or from
the grant), `NoFreeExit` (no willing step leaves a reach of a threat that could
react unless that crossing was offered in this move), `OfferedOnce` (no crossing
is offered twice, although each resumption plans the rest again),
`GrantEndsWithMove`, and `MovementEnds`: an interrupted move ends, if somebody
answers the open choices. The bounds are `MaxPath`, `MaxMoves` and `MaxTroubles`;
deadlock is not checked because moves run out. `sphere_entry` is a violation.

`MovementProofs.tla` proves, for any line, threats, reaches and bounds:

- `GrantEnds`: `Spec => []GrantEndsWithMove`,
- `OfferedAtMostOnce`: `Spec => []OfferedOnce`,
- `NobodyLeavesFree`: `Spec => []NoFreeExit`.

None is inductive. The invariant `IInv` says of the stored encounter that its
trail is free (`Free`), that what was offered was offered for a step taken or next
(`Dated`), and that the rest of a paused move remembers exactly the crossings
offered for its first step while the mover stands where it paused (`OfferedHere`,
`Remembers`); and that a stored rest waits for a choice (`Waits`). The main lemma,
`StartKeeps`, shows that starting or restarting a move keeps it: the stretch before
the first window leaves no reach unasked (`StretchIsFree`), because windows come in
the order of the path (`FirstIsFirst`) and those not offered again were offered
`CommitKeeps` carries it through every command.

Two more theorems rest on `Shape`, which adds `Accounts` and `Rested` to `IInv`:

- `MovementTypeCorrect`: `Spec => []TypeOK`,
- `EveryCellIsPaid`: `Spec => []WalkedIsPaid`, if the sphere fills difficult terrain
  only (in particular without a sphere). A move asked for while a sphere is active is
  charged for the sphere's cells and its rest is not, so that elsewhere the sum of
  the property, which charges by terrain, would not hold.

`Bill` is what a payment owes for the trail. `Accounts` says that what was spent of
the turn, or of a grant, is its bill, and that an action or a reaction still to be had
has paid for nothing, so that a new grant begins at zero. `WalkCharges` and the lemmas
on `Count` show that each stretch walked adds to the bill what it takes from the
payer. `Rested` says that a stored rest is a path from where it waits, which makes its
resumption well formed. `MovementEnds` is only model-checked.

### Chases: model and code

| Model | Code |
|---|---|
| `phase`, `fighting` | `game_phase` and whether combat is active |
| `chase` | `campaign.state.chase`: round, `turn_index`, participants, sides, positions, dash counts, pending complication, `close_transition` |
| `up`, `ex`, `prone` | hit points above 0, exhaustion, the prone condition |
| `tired` | the levels the active `chase_exhaustion` effect records |
| `window` | the actors whose Hit Die choice after a short rest is current |
| `other`, `took` | history: exhaustion from anything else, turns taken this round |
| `ChaseStart`, `TakeTurn` (`Settle`, `EndTurn`), `ChaseEnd` | `chase_start`; `chase_take_turn` with `advance_chase_turn`; `chase_end` |
| `IsNext`, `IsCurrent` | the search after a turn; `current_chase_participant` |
| `ShortRest`, `LongRest`, `HitDie`, `ForcedMarch`, `ExhaustionSet`, `HitPoints` | `party_rest` with `recover_chase_exhaustion`, `campaign_short_rest_hit_die`, `party_travel`, `character_exhaustion_set`, damage and healing |
| `PhaseSet`, `CombatStart`, `CombatEnd` | `game_phase_set`, `combat_start`, `combat_end` |

Checks and damage are the choice of their outcomes, visibility and passive
Perception the choice of who escapes. `SetExhaustion` is `set_exhaustion_level`, through
which a failed dash, a forced march and `character_exhaustion_set` all go: it leaves an
actor of `Immune` at its level when a higher one is asked for, while a failed dash
records a level in the effect all the same (`chase_engine.py:636-681`). Left out:
diseases, raising the dead, the hit-point maximum at four levels.

### Chases: runs and proofs

`chase` (478,525 states): a fast pursuer who is immune to exhaustion and brings a level
of it, a tired quarry that is slow and pays for every dash, and a third who cannot move
and is either side, over one whole round and into the next, three troubles (chases,
rests, marches, damage, other exhaustion). It shows `EachTurnOnce` (everybody left takes
exactly one turn in each round, although `turn_index` names a place in the whole list
and participants leave in any order) and `ChaseIsOn` (an active chase has both sides in
it, exactly one participant to act, nobody caught, in play and not in combat). Two
rounds are the first with a wrap, and three participants the fewest of which one can
leave on either side. Deadlock is checked.

`chase_exhaustion` is a violation: `UnrelatedRemains` says that a rest takes back only
levels that chases gave, and the code does not keep it (section 8). Nobody is immune in
that run, and the trace goes by `character_exhaustion_set`; with `Immune = {q}` in
`ChaseExhaustion.cfg` TLC finds the other way, by a failed dash of an immune actor.

`ChaseProofs.tla` proves, for any actors, orders, speeds, distances and bounds:

- `Typing`: `Spec => []TypeOK`;
- `TurnsAreFair`: `Spec => EachTurnOnce`, and `ChaseGoesOn`: `Spec => []ChaseIsOn`.
  The inductive invariant says of an active chase that both sides have somebody
  (`Sides`), that somebody stands at or after the place `turn_index` names, so that
  the search for the current participant never wraps (`Ahead`), that exactly those
  before that place have had their turn (`Counted`), and that nobody is caught once
  a turn was taken (`Apart`).

`LeastElement.tla` proves that a nonempty set of naturals has a least element, from
the library's well-founded induction; who is next, and which crossing comes first,
rest on it.

## 8. Findings

Each is a run that TLC ends with a counterexample.

- `TasksCancelRace`: `request_cancel` decides from a SELECT and writes with
  `WHERE task_id = ?` alone. With two processes on one file a task completed in
  between is marked cancelled and keeps its result
  (`mcp_tasks.py:567`; `test_mcp_tasks_extension.py:320` has cancellation
  discard the result).
- `npc_abort_committed`: after a crash between a close's commit and its journal
  write, `abort` accepts a conversation whose transcript is committed
  (`continuity.py:1634`: "a committed conversation cannot be aborted").
- `save_stuck`: a creature whose Legendary Resistance is exhausted fails a save
  before another creature is offered a decision in the same command. On the replay
  its save takes the recorded decision for its own and is refused; neither answer
  can be given, and every other write waits (`saving_throws.py:239`;
  `docs/legendary-resistance-2014.md:11-12`).
- `sphere_entry`: a move interrupted before it enters a Rolling Sphere enters it
  when it is resumed, without a contact (`services/movement_continuations.py:36`;
  the trap's text in the 2014 reference: "a creature enters its space while it's
  rolling").
- `chase_exhaustion`: a rest subtracts what the chase exhaustion effect records,
  also when `character_exhaustion_set` has lowered the level since, and so takes
  away exhaustion from a forced march (`lifecycle.py:1155`;
  `RUNTIME_DEEP_REFERENCE.md:390`: "unrelated exhaustion remains"). The same happens to
  an actor immune to exhaustion that brought a level into the chase: its failed dash is
  recorded and did not raise its level, and the next rest takes the level it brought.

Seen while modelling, without a run:

- Combat: the loop that passes over the dead counts against a number of combatants
  that grows when reinforcements join in that loop, and can stop at a dead one
  while a living one is there (`combat_engine.py:10429`); a knocked-out monster at
  0 hit points is not killed by further damage (`combat_engine.py:5556`); fire at
  the start of a turn opens no save for concentration (`combat.py:4239`) and goes
  by the character type instead of the combatant's death-save flag
  (`combat.py:4246`); oil at the end of a turn that damages a concentrating actor
  makes the turn impossible to end (`combat.py:3917`); a generic answer to a
  readied action's window leaves its entry triggered (`combat.py:13047`).
- Conversations: the identical retry of a close that accepted a fact, after a
  crash, is refused as a reused key because the request now names the fact's new
  head (`continuity.py:1524`); a descriptor carries a revision one too high after a
  refused close (`continuity.py:990`); a conversation opened by one process and a
  combat or chase started by another at the same time can both be admitted, since
  journals and database are not compared together.
- Commands: with two processes on one database, one may suspend a command between the
  comparisons of the other's `snapshot_restore` and its write. The restore then wipes
  the pending decision (`campaigns.py:2265`, `campaigns.py:2278`), although "while a
  choice remains pending, unrelated game mutations are blocked"
  (`docs/legendary-resistance-2014.md:38`). One process alone cannot
  (`OneProcessKeepsTheWholeContract`). The repetition of a command that committed with
  no decision may be answered with a revision conflict instead of its result
  (`saving_throws.py:345`).
- Movement: with any active gear hazard a move that provokes is refused; a route
  that comes back to the cell where it paused settles contacts in advance, because
  `combat_move` cuts it at the last such index (`combat.py:6338`); a mover already
  inside the sphere is charged an entry at the first cell; the sphere's cells are
  difficult terrain for the move that is asked for (`combat.py:5465`), and not for
  its rest when it is resumed.
- Chases: `party_rest` during a chase opens a Hit Die choice that cannot be spent
  or stopped before the chase is over (`campaigns.py:4469`), while the end of the
  round and another rest wait for it (`combat.py:2526`, `shared.py:3822`);
  `chase_end` frees it. `party_travel` does not wait for open Hit Die choices, so
  they lapse, although `shared.py:3807` keeps them "ahead of later time". A dead
  actor with hit points left may start a chase. A failed dash at level six is
  recorded in the effect although the sheet does not change.

## 9. Not modelled

The components left out and the reason for each are in `PROJECT.json`: character,
inventory, trap, disease and poison services are one validated transaction each
on data; mounts, grapples, Protection, stances and rage are further windows and
conditions of the encounter; exposure handles are guidance and grant nothing; rule
engine, content and authoring interpret data; gateway and persistence rest on
`sagasmith_core`, which is not in this repository and whose transactions are taken
as atomic; the rest is input and output. The parts left out of a modelled
component are named in its section.

Out of the prover's reach, and so only model-checked: liveness under fairness
(`TaskSettles`, `WorkerEnds`, `DecisionSettles`, `MovementEnds`). No module declares
a `RECURSIVE` operator; the recursion there is (`Passed` in `Encounter`) is a recursive
function, which the prover takes.
