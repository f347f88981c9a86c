# A verification development for leekwars

TLA+ models, TLC runs and TLAPS proofs about the LeekScript toolchain of this
repository: a compiler and its language tools, a fight simulator, and the
adapters that connect them to editors. Paths below are relative to `src/`.

It covers the parts of the toolchain that keep state and are acted on from more
than one side: the debug adapter (`crates/tools/leek-dap` with the debug hook
of `crates/backends/leek-backend-native`) and the work pool
(`crates/core/leek-workpool`), where threads meet and a test can only sample
the orders they meet in; the language server's files (`crates/tools/leek-lsp`),
where editor, disk and watcher each tell their own story; and official fights
(`crates/game/leek-game-runtime`, `crates/game/leek-generator`), where calls
nest in each other and lists change while they are walked.

## The system

| Layer | Parts | State it keeps | How it is used |
| --- | --- | --- | --- |
| core | span, diagnostics, text, visit, config, environment, prelude, builtins, runtime, query | none, or process-wide tables read-only after start | called by everything |
| core | manifest, project | the files of a project, as found on disk | directory walks, called by tools and sessions |
| core | **workpool** | a cursor and one result list per worker | called by the corpus suite and the fight sweeps; threads |
| frontend | lexer, parser, syntax | none (immutable trees) | called by the database |
| middle | resolver, types, hir, mir, charge, complexity | none (functions of trees) | called by the database and the backends |
| db | leek-db, leek-session | salsa inputs and memoised queries; include graph; registered libraries | sessions, language server |
| backends | native, java, leekscript, aot-runtime | native: per-thread run state, process-wide **debug hook slot** | sessions, generator, debug adapter |
| game | leek-scenario, **leek-generator, leek-game-runtime** | the fight: entities, effects, cooldowns, turn order, map, actions log | command line, debug adapter |
| tools | **leek-dap** | session, breakpoint store, debug controller | editor, over stdio; two threads |
| tools | **leek-lsp** | open documents, indexed files, retained texts, settings | editor, over stdio; async tasks over one locked workspace |
| tools | fmt, lint, migrate, rewrite, ide | none; rewrite: edit sets | command line, language server |
| bins | leekc, miku, leek-lsp, leek-dap, leekbench | none | users |

### What is hard, and what makes each part correct

*Debug adapter.* Two threads share one controller under nine small locks: the
request loop runs handlers, the debuggee's worker runs compiled code that calls
`safepoint`, `enter_frame` and `leave_frame`. Correct means: a stop the client
hears of is real and shows the frames of that moment; a resume is never lost,
whichever side of the wait it arrives on; steps stop where they say; a session
that ends, for whatever reason and at whatever moment, frees the debuggee and
leaves nothing in the process; what the client is told of a breakpoint is what
the debuggee tests.

*Work pool.* Workers race for batches of a shared list. Correct means: every
job once, the result of a serial run, a panic never swallowed, an end.

*Hook slot.* The backend has one hook for the whole process. Debug sessions of
one server, launches of one session and plain runs install it, call it and
remove it. Correct means: nobody removes a hook that is not theirs, a held
debuggee can be answered, and a session that is over leaves no hook.

*Language server.* An open buffer, the text retained when it closes and the
file on disk can all differ; edits, closes, moves and watched-file events
arrive in any order, and every file should stay one salsa input through all of
them. Correct means: what is analysed for an open file is its buffer and for a
closed one its disk, no file has two inputs, and none loses its input while it
is held.

*Fight.* The generator's loop takes the order's current entity, runs its AI and
advances. The AI calls builtins, which kill, summon, revive and move entities;
each may shift the cursor of the order that is being walked. A builtin that
moves somebody into a plant's zone queues an awakening, and before it returns
to its AI the runtime runs the plant's AI, which acts out of turn, and then
resumes the walk that was cut short. Correct means: the order holds the living,
once each and in the order drawn; no turn is skipped or doubled; an awakening
is played once a turn and before anything else goes on; board and entities
agree.

*Effects.* An effect is listed by whoever suffers it and by whoever cast it, and
what a fighter suffers is also summed up beside the list. Items, weapons'
passives, deaths, cures, propagation and the passing of turns create and drop
effects, one from inside the other. Correct means: the two lists agree, the
totals are the sum of the list, the dead keep no effects on others, suffer none
and are not healed back.

## Modules

| Module | Models | Checked by |
| --- | --- | --- |
| `DebugSession` | the controller, the request loop and the debuggee's worker | `debug_strict`, `debug_lax`, `debug_phantom_frames` |
| `StopProtocol` | what a session promises: hold, tell, release, leave, detach | refinement, in `debug_strict` |
| `DebugSteps` | `DebugSession` with the history step properties need | `debug_strict` |
| `HookSlot` | the process-wide hook under several sessions, launches and plain runs | `hook_sessions` |
| `Breakpoints` | store, verdicts, derived table, hit counts | `breakpoints` |
| `WorkPool` | `Pool::map` | `workpool` |
| `Fight` | play order, deaths, summons, revivals, moves, plant awakenings and the loop that plays them | `fight`, `fight_corpse` |
| `Effects` | the effects of a fight, their two lists and their totals | `effects_lists`, `effects_corpse` |
| `Workspace` | buffers, index, retained files, inputs and disk of the language server | `workspace_sync`, `workspace_walked` |
| `DebugSession_proofs`, `HookSlot_proofs`, `Breakpoints_proofs`, `WorkPool_proofs`, `Fight_proofs`, `Effects_proofs`, `EffectsTotals_proofs`, `Workspace_proofs` | | theorems |
| `DebugInstances`, `MC*` | values for the constants | |

Definitions named `Bad*` are variants with a plausible fault (a test left out, a
notify forgotten, an off-by-one). No specification uses them; each shows that
one property notices that fault.

### DebugSession

*State.* `stack`, `snapshot`, `prev`, `stop_next`, `entry_stop`, `step`,
`stopped`, `detached`, `table` are the fields of `NativeDebugSession` that
decide anything (`debug.rs:155-193`); `hook` says the controller is in the
backend's hook slot. `dbg` is the worker's position and `srv` the request
loop's. `calls` is the real call depth of the compiled program, which the
shadow stack is meant to mirror; `aborting` is the native runtime's error flag.
`told` is what the client believes: a `stopped` event it got and that no
request of its own has answered.

*Steps.* Each lock acquisition is one action. `safepoint` is the chain
`fire_safepoint` → `safepoint_frame` → `arrived` → `take_stop_next`
(→ `take_entry_stop`) → `step_reached` → `match_breakpoint`, and a stop goes on
`stop_capture` → `stop_claim` → `on_stop` → `stop_park`. The condition variable
is the position `waiting`: `Release` (of `wake` and of `detach`) sends a waiting
worker back to its test, and `SpuriousWake` does so unasked. A step request is
three locks, so three actions: `step_request`, `arm_step`, `wake`. The debuggee's
program is free: at any point of user code it may call, return, reach any
safepoint of `Sites`, run into an error, or end.

*Abstractions.* A breakpoint table maps a line to what its breakpoint does:
`stop`, `ask` (a condition or hit count decides) or `log`. Locals, output and
expression values are left out: no property is about them. Panics are left out:
the hook is called from `extern "C"` shims, so one on the debuggee's side ends
the process, and the poisoned-lock paths of the request loop only end the
session. One `launch` per session here; several are `HookSlot`'s. A
`configurationDone` with none pending does nothing and is no action.

*The client.* `StrictClient` says it sends continue and the steps only while it
has been told of a stop, as the protocol wants. The `lax` run lets it send them
at any time. Pause, breakpoints and disconnect are free in both.

### HookSlot

*State.* A run is a session's launch, `<<session, number>>`, and stands for its
controller too. `slot` is the backend's `HOOK`; `native_debug` and `run_thread`
are what each session holds; `stopped` and `detached` each controller's wait;
`at` is where each worker is and `within` the controller it is parked in.
`latest` is history: the controller installed last.

*Steps.* `configuration_done` (with or without debugging) and `spawn_run` are one
handler in two steps, since another session's handler may come in between;
`detach`, `stop_clears` and `stop_joins` are `Session::stop`. A worker fires
safepoints into whatever controller is in the slot, ends, and clears the hook it
installed. Where `DebugSession` takes a stop apart, here it is one step: the
question is whose controller it is.

### Breakpoints

*State.* `by_path` and `next_id` are the session's `BreakpointStore`;
`breakpoints` and `hits` the controller's two locked maps; `view` what the
client was last told of each id. `setBreakpoints` is four actions: `set` (the
store), `retain_hits`, `install_table` (the controller's two locks), `respond`.
On the debuggee's side `breakpoint_at` clones an entry out of the table, and
`fires_condition`, `fires_hit` or `fires_always` acts on the clone, so that a
replacement may come in between. `charged` is history: the hits of each id.

*Abstractions.* A line's condition, hit condition and message are whether they
compile and what they do; conditions answer freely. A file is part of the
program or not; `place` takes the nearest safepoint at or below a line.

### WorkPool

*State.* `cursor` is the shared atomic; `pc`, `next`, `end`, `out` are each
worker's loop; `caller`, `turn`, `parts`, `result` the caller's spawn, join and
merge. `panics` is fixed per call: the indices the closure panics on. A refused
thread (`SpawnFails`) makes `expect` unwind out of the scope, which waits for the
workers already started.

### Fight

*State.* `fighters`, `order` (with its cursor and turn), `initial_order`,
`occupancy`, `pending_awakenings`, `awakening_plant`, `walk` and `walk_result`
are fields of `State` and of its parts (`state.rs`). `phase`, `actor` and `call`
are where the generator's code is (`official.rs`): between turns, in the AI of
the actor, in `play_awakenings` inside a builtin of that AI, or in the AI of a
plant. `played`, `steady` and `woke` are history.

*Steps.* A turn begins with `begin_act`, `begin_upkeep` (a plant's own turn) or
`begin_skip` (a poison killed it); a builtin is one action, since nothing runs
inside it but the state's own code. If it has woken a plant the phase becomes
`drain`: `next_awakening`, any number of `plant_attacks`, `finish_awakening`,
and once the queue is empty `resume_walk`, which may fill it again, until
`take_walk_result` returns to the AI. `remove_entities` is a death with its
cascade: the removals follow each other with nothing in between. A line of cells is
judged as a whole: `check_plant_triggers_along` lists whom the fighter meets, cell
by cell and team by team, and `awake_plant` queues the first meeting of every pair
that is not remembered yet, which is what the code's loops leave.

*Abstractions.* Life is alive or dead: an attack that matters is one that
kills, so `attack` may kill anyone, its user included (damage return). Costs,
ranges, line of sight and chances are left out, so any builtin may be called at
any moment of the actor's run; each takes one effect, a kill or a displacement.
A plant attacks and does nothing else, as `state.rs:2357` says ("the four plant
chips move nobody"), and only leeks summon and revive. The board is a rectangle
without obstacles. The walked path is any free path, of which the A* gives one.

### Effects

*State.* `effects` is the arena of `State` that ids point into, `suffered` and
`launched` the two lists of each fighter (`Fighter::effects`,
`Fighter::launched_effects`), `buff_stats` and `states` its totals. Ids are
handed out in order and always pushed last, so a list is the set of its ids.
`todo` is the call stack, innermost call first: each action takes the call on
top and puts what that call would do in its place. A death in the middle of an
item's lines is thus played where the code plays it, with the rest of the item
still to come and holding what it read.

*Steps.* `use_item` runs its lines (`next_line`) over their targets
(`next_target`). `create` drops the effect that a new one replaces, one of
`apply_*` does what the kind does, and `store_*` merges, pushes or drops it. A
blow goes on with the passives of its target, `life_steal` and `return_damage`;
`remove_life` calls the passives of a death and then `dies`, which takes the
living summons along. A turn is `start_turn`, `tick_*` over a copy of the list,
`expire`, and at its end `propagate_effects`.

*Abstractions.* Every amount is drawn up to a small bound: jets, shields and
erosion only make it smaller. Each family of effects that keeps its state the
same way is one kind: the buffs and shackles `buff`, raw buffs `raw_buff`. The
other kinds (vitality, nova damage, steals, kill, multiply, attraction and the
like), which change more amounts or move somebody, are left out. A use finds anyone in one of a few areas; an
effect that propagates reaches any of the living, and carries what its item's
propagation line says of stacking and of those that have the item already. A
summon's template pins any number of states on it. Who plays next is `Fight`'s
business: here any living fighter may. `EffectParams` states two facts of the game's
data: what counts in a total lasts at least a turn, and no aftereffect spreads.
Entries of the arena that no list names
are forgotten when a turn starts, which nothing can see.

### Workspace

*State.* `docs`, `indexed` and `retained` are the maps of those names in
`Workspace`, with the input and the text of each entry; `inputs` the salsa
inputs they hold, with path and text; `files` is `WorkspaceFiles`. `disk` is
the file system, `tabs` what the client has open; `watched` and `moving` what
happened on the disk and the server has not yet heard.

*Steps.* Each notification is one action, because each handler holds the lock
from its first change to its last; every one ends in `resync`, which rebuilds
the files to analyse and walks their includes from disk. When two inputs carry
one path, the map that is collected from them keeps an indexed file's before a
buffer's, and either of two of a kind.

*Abstractions.* A URI is its canonical path. Texts are members of a small set,
each with the paths it includes. Untitled buffers, language settings, source
ids and diagnostics are left out. The editor tells of a move before it tells
anything else, and the watcher after it. `Orderly` restricts moves to what a
careful user does: a file that is analysed, saved and heard of, to a path for
which the server keeps no entry, the index included, and nothing is opened, closed
or edited before the move is heard of; what happens otherwise is
under "Where code and comments part". `Project` is what the root owns, and
`Sources` what lies in its source tree: the first indexing lists the latter, a
file created later is taken in anywhere in the former. No buffer is opened
before that indexing, which `initialized` does under the lock, the first thing it
waits for, so that its test for open buffers finds none. An input is a number, a new one any that is
not held; what a walk reaches is the least set closed under includes.

## Runs

| Run | Constants | States | Shows |
| --- | --- | --- | --- |
| `debug_strict` | three statements on two lines, three tables, depth 2, program re-entered | 1.1 M | what the client is told is true; captured frames are the live calls; teardown is clean; stepOut and next stop where they should; the session implements `StopProtocol` |
| `debug_lax` | one statement, one breakpoint or none, depth 2, errors | 684 k | no resume lost; no stop claimed after detach; released and detached debuggees leave |
| `breakpoints` | three files, five requests, four ids, two hits | 415 k | verdicts and table agree both ways; counts are exact |
| `workpool` | seven jobs, three workers, batches of two, two that may panic, refused threads | 7.5 k | jobs are disjoint; the result is the serial one; panics surface; `map` ends |
| `fight` | two leeks, a plant each, a strip of four cells, zone 2, two rounds, two builtins a run | 1.0 M | the order stays the living; nobody skipped or twice; awakenings played once and in time; board and fighters agree |
| `debug_phantom_frames` | two files, depth 2, errors and re-entry, strict client | violated | a function left on the error path stays on the shadow stack |
| `fight_corpse` | as `fight`, one summon, a bulb or a plant | violated | a walker killed on its way walks on and holds a cell |
| `hook_sessions` | two sessions, two launches each, with or without debugging | 237 k | no live session loses its hook; a held debuggee can be answered; no hook is left behind |
| `effects_lists` | two leeks and a summon with two states pinned, six items, two lives, three effects at a time, two turns, three uses | 3.3 M | the two lists agree; totals are the sum; the dead launch nothing and stay dead |
| `effects_corpse` | as `effects_lists`, an aftereffect of two turns | violated | an effect is stored on the fighter it killed |
| `workspace_sync` | two project files, one of them outside the source tree and on the disk at the start or not, and a library, two texts, three changes of the disk, orderly moves | 268 k | buffers win, closed files are their disk, one input per file, inputs are kept |
| `workspace_walked` | as `workspace_sync`, one change | violated | an included file is analysed at a text discarded when it was closed |

*Bounds.* Depth 2 has a caller, a callee, a callee's return and a sibling
entered in its place, and a step over or out crosses at most one frame boundary
at a time; two statements on one line and one on the next separate every case of
`arrived` and `step_reached`. One statement in `debug_lax` is enough because its
properties are about where the two threads are and not about which line they are
on; it still enters callees and has traps that strand a frame. Re-entry of a
program and the conditional and log breakpoints are in `debug_strict`, whose
conditional breakpoint, stopping or not at each arrival, covers one that always
stops. Four ids
give two requests of two lines, or a line sent four times; two hits separate
`==`, `>`, `>=` and `%` at their boundary. Seven positions, three workers and
batches of two give a short last batch, workers that get nothing, and claims
past the end by all three. In `fight`,
four cells with a zone of two let a plant's zone begin in the middle of a walk
of two cells (`MaxPath`), so that walks are cut, resumed and cut again; a summon
limit of one gives each team one, and `MaxFighters` 4 one for both, so that two
plants may wake on one step and a leek's death takes a summon along; two builtins a run
(`MaxCalls`) let an actor kill and revive, or summon and walk, and a second
round shows what the first left. The summons of `fight` are plants, about which
its properties of awakenings are; bulbs, which take turns of their own, are in
`fight_corpse`, and what they do to the order, the cursor and the board is
covered by the proofs, which bound nothing. In `hook_sessions` a second launch
of one session overwrites a controller, and a second session a slot; a third of
either would repeat one of the two. In `effects_lists` an effect has at most one
other to merge with, replace or push out, and three ids give a fighter one of
each kind; two turns let what one cast tick and expire at another's. Its items
have a poison that spreads once and one that spreads and stacks at will, a line
that its own presence stops, and reductions that spare the irreducible and that do
not. In
`workspace_sync` three changes are a move and what precedes or follows it, and
one library is walked from both project files. `MaxDepth`, `MaxId`, `MaxHits`,
`MaxFighters`, `MaxPath`, `MaxCalls`, `MaxLaunches`, `MaxChanges` and the `Max*`
of `Effects` are the only bounds that are not the program's; `Modulus` is the
width of the cursor, `SUMMON_LIMIT` and `MAX_TURNS` are constants of the code,
made small.

*Deadlock* is checked except in `breakpoints`, where the bounds on ids and hits
stop the model and not the system, in the `workspace_*` runs, where that on
changes does, and in `hook_sessions`, which may come to an end with every
session over or with a debuggee left parked by a second launch. A finished
session, `map` or fight is marked by an action that changes nothing.

*Fairness.* `DebugSession` assumes weak fairness of the hook's own steps and of
a handler already begun: threads keep being scheduled and no lock is held across
a wait. It assumes nothing of the client, who may never answer, nor of the
program, which may loop for ever, nor a spurious wake-up. `WorkPool` assumes that
every thread is scheduled and every job ends. `StopProtocol` owes `Tell` and
`Leave` only. `Fight` and `Effects` are sequential, assume no fairness and state no
liveness: `MAX_TURNS` and the operation budget end every fight. `Workspace` waits
for a client, `HookSlot` is about safety only.

## Proofs

`tlapm` checks every step; nothing is assumed beyond the `ASSUME`s of the
modules, which TLC evaluates in the runs.

*DebugSession_proofs*, for any sites, tables and depth. `Invariance` proves the
inductive invariant `IInv`. Its parts are needed together: that a sleeping
debuggee was announced and not released (`ClaimInv`) holds only because nobody
else clears the flag without moving it; that nothing is claimed after detach
needs `TeardownInv`, which ties `detached`, the hook and the session's possession
of its controller; `SnapshotInv` says the stack cannot change between capture
and release, and `StrictInv` carries the client's discipline across the two
locks of a step request. From it follow `TypeCorrect`, `NoLostResume`,
`CleanTeardown`, `DetachIsFinal` for every client, and `StoppedAsTold` and
`Implements` (every step of the session is a step or stutter of `StopProtocol`)
for the strict one. `CapturedFramesAreLive` fails with `Trappable`;
`FramesAreLive` proves it without, so the frames an error path strands are all it
lacks (`FramesInv`: under an installed hook, frames and calls keep step).

`StepOutStops` and `StepOverSkips` are about the strict client and use the history
of `DebugSteps`. Two threads write the step: handlers arm it, and the hook turns a
step out into a step in once its frame is popped, between two locks. `AskedInv`
says what is left of the request meanwhile: a step over or in is the one asked for;
a step out is too (`OutPending`) while the frame it started in has not returned
or the hook is still between the pop and the rewriting, and afterwards it is one
that the next statement satisfies (`OutReturned`). A step being armed was read off
the stack the debuggee still has (`ArmingInv`), because it is stopped.

*Breakpoints_proofs*, for any files, safepoints and requests. `CountsAreExact`
needs more than the armed breakpoints it speaks of: a request replaces the store
first, drops counts next and installs the table last, while the debuggee goes on
counting hits of the old one. The invariant is about what the store would arm
(`Exact`), to which the table is equal except between those locks (`Installed`); ids
are fresh (`MintedIsFresh`), so that a new breakpoint never finds a count. The
verdicts were given at three moments - before there was a program, when it
compiled, by later requests - and `Told` says each is the answer the program
would give now; that no id is given twice (`Apart`) and that the answers being
prepared are about what is stored (`Prepared`) are what respond preserves it by.
`VerifiedIsArmed` and `ArmedIsTold` follow by asking where a stored line lands.
Both assume `OneEntryPerLine`, requests that name no line twice: without it the
first is false ("Where code and comments part").

*WorkPool_proofs*, for any list, number of workers and batch for which one
overshoot per worker fits the machine word (`WidthAssumption`). The cursor is
bounded through the number of finished workers, since past the end of the list
each claim ends one: that is why it cannot wrap. `NoJobTwice` then follows from
batches being below the cursor and ordered among themselves. `NoPanicSwallowed`
needs that whatever lies below the cursor was run without a panic or is still in
some worker's hands, and that the caller joins them all. `SerialResult` says what
`map` returns. It follows the positions instead of the indices: `Shares` are the
positions each worker has put into its part, and `Drawn(s, P)` that `s` lists what
is at the positions `P`, each once, in some order. Claims and runs keep one worker's
part drawn from its share, the joins draw the caller's list from all of them, and
at the end they are every kept position. Two lists drawn from the same positions
have the same ranks, so sorting by rank, which is how `Sort` is written, makes
them one: the serial result, where a position listed twice counts twice.

*Fight_proofs*, for any board, summons and bounds. `BoardAgreement` is about
three records of one fact, kept by six operations. The step that needs more than
the fact itself is the resumed walk, which puts a fighter on a cell without
looking who is there: `WalkInv` says that what is left of a suspended path is
free and meets no cell twice, which holds because a plant moves nobody, and
`LoopInv` that no walk is suspended while anything else may move. The latter is
also what `NoAwakeningLeft` needs. The lemmas `SlainBoard`, `PlacedBoard`,
`SwappedBoard` and `BornBoard` say what each operation does to any board. The
agreement holds with `EntityOnIsLiving` violated: a corpse that walks on is
recorded in all three places.

The play order has an invariant of its own, `OrderInv`: the order is the living,
once each; the cursor is on the actor, or right before its place once it died in
its own turn; who has played stands before the cursor and who was there from the
start of the round and has not stands behind it (`Round`, cut at the cursor). A
removal closes up and an entry opens a gap, before the cursor or behind it:
`Rearranged` says both, with the shift of the cursor as an argument, and the lemmas
`RearrangedOrder`, `RearrangedRound` and `RearrangedCursor` say once what any such
change keeps. What remains for each operation is that it shifts by the right
amount: `Removal` for the deaths, cascade included, `InsertionRearranges` for a
summon behind its summoner and a revival at its old place. `TheOrderIsTheLiving`,
`TheCursorFollows`, `NobodyTwice` and `NobodySkipped` follow. Removals are written
by ranks (`Picked`, `Upto`), of which `Ranks` and `PickedElements` say what they need.

A plant remembers whom it has woken for, the queue holds what it owes, and the
history `woke` what it has played. `Awake` ties the three: whatever is queued or
played is remembered, nothing is queued twice, and nothing queued has been played.
`AwakePlant` says that meetings, however many and repeated, keep it; `AlongALine`
and `OutOfTheGround` that walks, slides, swaps and summons bring meetings of
fighters only, and never of a plant with itself. Forgetting is safe because a turn
begins with the queue empty (`LoopInv`). `AwakenedOnce` follows, and with it and the
bounds of turns, calls and summons (`FieldsInv`), `TypeCorrectness`.

*Effects_proofs*, for any fighters, teams, catalog and bounds. `ListsAlwaysAgree`
needs to know what may be on the call stack: a call in progress names fighters
and, at the start of a turn or in a propagation, effects of the arena that were
read before what ran in between. The invariant is the agreement of the lists
(`Agree`), the shape of arena and fighters, and that every call of `todo` is one
of `Calls`. Each action is a lemma; those that drop effects rest on one
fact, that removing the same ids from target and caster keeps the agreement.

In `TheDeadAlwaysStayDead` every call but one
either looks for a life before it raises it or is about a life it lowers; a heal
without turns does neither. `HealsTheLiving` follows it down the stack: its targets
are among the living when its line collects them, at most one heal is on the way,
it is on top or right below the one that serves it, and all the rest of the stack
is `Calm`. A propagation would put a heal anywhere, hence `Lasting`: what is in the
arena has turns, and a heal with turns only acts in a tick, which asks for a life.

`TheDeadNeverLaunch` needs who is behind every call. Between the blow that kills and
the die call it makes, passives run, and the rest of the lines comes after both. The
invariant divides the calls in two. A call that may store an effect other than an
aftereffect is *gentle* when its caster lives (`Backed`); the calls that hurt are
*rough*; and the stack is always gentle calls above rough ones (`Stacked`). What is
about to be stored is therefore on top, under calls that kill nobody, and is stored
in the name of one of the living. `Mourned` says of everything already launched that
its caster lives, or that it is an aftereffect, or that the caster's die call is on
the stack. That no aftereffect spreads is an assumption on the catalog, which the
data justifies; without it a propagation would store in the name of the dead.

*EffectsTotals_proofs* builds on it. `TotalsAddUp` is about sums over sets, which
the prover cannot sum up; a total is therefore the number of *pips* of what is
suffered, pairs of an effect and a number up to its value, and one effect more or
less is a disjoint set of pips more or less. The difficulty is what is out of
step while a call is under way: `create` adds to a total before it lists the
effect, a replacement lists it again with another value. `Summed` lets exactly
that difference stand (`BuffDue`, `StateDue`) while the storing call is on top of the
stack, and `Below` says that no call that counts waits further down (`Quiet`), so
that nothing comes between. `Room` keeps ids for what is to be stored, `Ages` that
what counts has turns left until it expires. `EffectTypes` follows from the same
invariant.

*Workspace_proofs*, for any files, project, texts, includes and first disk. Every
handler makes a *world* - inputs, buffers, index, kept entries - and gives it to
`resync`. The lemmas up to `Analysing` say once what resync makes of any world;
`Opening`, `Updating`, `Reloads`, `Registering`, `Removing` and `Renaming` say which
world each handler makes. `WorkspaceTypes` and `InputsAreKept` need no more than
types, and hold however files are moved. The others assume `Orderly`. `OneInputEach`
and `BuffersWin` come from `OrderInv`: every entry carries its own path (`Carries`),
entries of two maps at one path name one input (`Meet`), and no input is held by
none of them; together these are what makes two inputs of one path impossible,
through walks that mint inputs for what they find included too. During a move
(`InMove`) the old path still resolves and nothing is kept at the new one, which is
why the input may change its path. `ClosedFilesAreTheDisk` also assumes that files
are moved inside the project: beyond it the watcher tells nothing. `Informed` is its
heart: an indexed file is open, or analysed as on disk, or else an event that
accounts for the difference is still to be told - a change of a file that is
there, a deletion, or the move. Events are heard one by one and out of date, and
each handler reads the disk as it is by then; the invariant holds because a
"changed" event of a file that is gone has a "deleted" one behind it.

*HookSlot_proofs*, for any number of sessions and launches. A controller in the
slot is held by its session (`SlotIsHeld`), and a session holds only controllers
it launched (`Owned`): hence removing one's own hook never removes another's,
which is `HookStaysWithItsSession`, and letting go of the controller leaves the
slot to others, which is `NoHookIsLeftBehind`. `HeldStaysAnswerable` needs besides
that a session on its way out has detached its controller before letting go
(`Leaving`), so that nobody parks in it afterwards.

*Only model-checked*: liveness (out of the prover's reach), so also the fairness
half of the refinement. Every other property of a passing run has its theorem.

## Where code and comments part

Four runs end in a counterexample; PROJECT.json quotes the comments. In
`debug_phantom_frames` a function left on the error path stays on the shadow
stack. In `fight_corpse` the walk stopped at a plant's zone is resumed although
the plant has killed the walker: `walk_on` looks for a death right after
`check_plant_triggers`, and the plant no longer plays inside that call. In
`effects_corpse` an aftereffect kills its target and is then stored on it. In
`workspace_walked` an edit that was closed unsaved lives on in an input that the
walk believes refreshed. Seen on the way and not run:

- A step over goes by depth alone (`debug.rs:591`), where `debug.rs:124` promises
  "this frame or a caller": when the frame returns and its caller calls again
  before its next statement, it stops in the new callee. `StepOverSkipsCallees`
  asks by depth, as the code does, and does not tell.
- Two requested lines that snap to one safepoint are both answered verified
  (`handlers/breakpoints.rs:93-98`), and the lower one alone is armed
  (`breakpoints.rs:176`). `VerifiedLineIsArmed` asks for the safepoint and is
  content.
- Sending a file's breakpoints again mints new ids (`breakpoints.rs:116`), so that
  its hit counts start anew; `debug.rs:263-264` says a breakpoint "merely re-sent
  keeps its count". `ArmedCountsEveryHit` counts by id.
- The distance of a walk that woke no plant stays in the state and replaces
  the answer of a later builtin that does wake one (`official.rs:82`), which
  `state.rs:1650-1652` rules out.
- `step_in` is documented to stop at the very next statement; a second statement
  on the same line and depth is passed over (`debug.rs:590`).
- Captured frames are documented to be empty after a `continue`
  (`handlers/inspection.rs:7-8`); they stay those of the last stop.
- A continue that arrives after a stop was claimed and before it was announced
  releases that stop, and the client is told of it afterwards, with the debuggee
  running. Only a client that is not told of a stop can send it.
- One line named twice in one request: the first spelling is stored, each entry
  is answered by its own. If the first does not compile and the second does, the
  second is shown verified and nothing is armed. `VerifiedLineIsArmed` is
  therefore checked for requests that name a line once.
- A corpse that holds a cell may still be walked by its own AI: `move_entity`
  asks for a cell and not for a life.
- A worker abandoned after `WORKER_EXIT` keeps running, and its safepoints go to
  whatever controller is in the slot: the next session's, which stops it, against
  `debug.rs:360` ("run straight through without announcing a stop"). Stops of two
  sessions at once land on the last one's controller; `testing.rs:133-137` says so
  of tests.
- A debuggee parked when its session launches again stays parked: nobody holds
  its controller (`lifecycle.rs:121`).
- `filter_target` lets nothing through when an effect lacks the bit of non-summons,
  the caster and the summons included.
- A passive effect created by a tick at the start of a turn ages in the same turn.
- An aftereffect that kills a summoner by its summon's cast leaves an effect
  launched by a summon that is dead too: the exception in `TheDeadLaunchNothing`.
- A file created while it is open, or deleted and created again, is not indexed and
  is lost to analysis when its buffer closes (`workspace.rs:423`; 876: "neither
  event may evict the state the other one owns"). One deleted while it is open
  loses its input on the close: the next open mints another.
- A closed file outside `files` that moves keeps the old path on its input
  (`workspace.rs:814`, "this moves the file's input whether it was open, indexed or
  both"), and an entry kept at the destination of a move leaves two inputs at one
  path. `Orderly` excludes both.
- A change the watcher has yet to tell of is lost when the file moves meanwhile,
  and a buffer that is dirty when its file moves and then closes leaves its text
  in the index.
- `Pool::map` is documented to answer in the order of `indices`; it sorts by
  index, as its tests expect.

## Not modelled

PROJECT.json lists every component with its reason. Most of the code is there,
and it is of three kinds. The frontend, the middle end and the code generators
are functions of program trees: their state space is the language itself, no
small instance of it says what the corpus tests do not, and a model of one would
be the compiler again. Builtins, formatting rules, lints and migrations are data:
tables and cases whose meaning is each entry. The command line, scenario files
and manifests parse, read and write. The map therefore stays a small part of the
source, the part where steps of several actors or nested calls meet.

Of what is modelled: poisoned locks and the order of messages on the output
stream of the debug adapter; untitled buffers, settings, source ids and
diagnostics of the language server; of the fight, cooldowns, points, amounts,
ranges and line of sight, the winner, the drawing of the first order and the
action log.

## What would come next

1. The debug adapter's shared output stream: responses against events, and the
   late `terminated` of an abandoned worker.
2. Cooldowns and points over the turns of `Fight`; the winner.
3. `Workspace` without `Orderly`, once the moves it excludes are settled in the
   code, and diagnostics published outside the lock.
4. Proofs: `ClosedFilesAreTheDisk` for moves out of the project, once a file that
   left it leaves the index.
