# OpenSpore: models, checks and proofs

OpenSpore rebuilds the cell stage of Spore. The repository holds a C++ program
(`src/`), Rust parsers (`crates/`) and, largest in logic, the Python tooling
(`tools/`) that drives many workers through the reconstruction of a binary: a queue of
work in SQLite, an orchestrator that launches workers under leases, and a
promoter that builds, gates and installs their results. This directory holds TLA+
modules for the parts whose correctness depends on order, interleaving or
failure, the TLC configurations that check small instances of them, and proofs
that TLAPS checks for all instances.

Measured in lines the repository is mostly text that no model says anything about: nearly
nine tenths of its implementation are the some 170 packages of
`src/reconstruction` and their staging copies, each the rewritten text of a few functions
of the game, whose only specification is the binary they were taken from. The modules cover the
program and the tooling that have state of their own, a small share of all lines.

Paths below are relative to the repository's root.

Contents: [inventory](#inventory), [modules](#modules-and-the-code-they-model),
[runs](#runs), [fairness](#fairness), [proofs](#proofs),
[what was found](#what-was-found), [what is abstracted](#what-the-models-leave-out),
[plan](#plan).

## Inventory

### The orchestration tooling

**The investigations queue** (`tools/mcp/kg_tools.py`, `queue_op`).
State: the SQLite table `investigations`, a row per target with status, owner
(`implementer_id`), block reason, a clock (`updated_at`) and a JSON checkpoint
with the last eight displaced holders. Operations: insert, claim, update in an
activating and an owned lane, release, unblock, close, and the seeding of rows by
`knowledgegraph/seed.py`. Each verb is one `BEGIN IMMEDIATE` transaction. Clients: the
orchestrator through `tools/reconstruction_tooling/queue.py`, the MCP server's
tool, and an operator. Hard: several clients race for a row; leases expire by a
clock that may be unreadable; rows arrive in any status. Correct when a holder loses
its lease only by its own verb or to expiry, a takeover is recorded, a finished
row is final, and a lifted block leaves no reason behind.

**One target** (`orchestrate.py`, `process_target`). State: local counters, the open
lease, the `attempts` column. Steps: claim, brief, launch a subprocess, ingest,
validate, reconcile, checkpoint, close or release, loop. Hard: retries of
several classes with separate bounds, every step may raise or the process die, database writes
may be refused and their answers are not always read, another run may take over
a stale lease while the worker still runs (it may run 3600 s under a lease
of 1800 s). Correct when "complete" is earned and told to one run only, no
return leaves the lease held, and the retries end.

**One run** (`orchestrate.py`, `plan`, `run`; `schedule.py`; `frontier.py`). State: the
plan, the targets offered, those completed, a pool of threads. Hard:
callees must land before callers although the plan is made once, mutual
recursion, a bound on waves, threads that die with their results. Correct when
callees come first, nothing that became ready is forgotten,
and the run ends.

**Package promotion** (`promote.py`, with `build_gate.py`). State: a lock directory
and its owner file per package, the shared holder `.promote-tmp` of scratch trees,
the tree under `src/reconstruction`, a rescue place `.promote-lost`, records. Steps: lock (stealing it from a
dead owner), check, stage, gate, two renames, record, clean up, unlock. Hard:
processes race through the file system, are killed anywhere, renames fail half
way. Correct when one run per package is past the lock, an installed tree is not
lost, a live run's scratch tree is its own, nothing is left behind, and a killed run wedges nobody. (The code keeps
the first, third and last only in part; see [what was found](#what-was-found).)

**Others.** `worker_contract.py` judges a worker's answer, `validate.py` and the `evidence_*.py`
analysers judge its claims statically; `satisfy.py`, `ownership.py` and
`integrate.py` rewrite manifests and build files; `tools/reconstruction_knowledge.py` projects
files into an index; `tools/mcp/server.py` serves one request at a time;
`tools/mcp/cache.py` keeps decompiled functions as a body and a metadata file;
`tools/observatory/lock.py` is an `flock` around runs of the game.

### The program

**Message manager** (`src/apps/MessageManager.cpp`). Registrations with
priorities, immediate sends, a queue of posts ordered by key and sequence that
`process()` dispatches. One thread, but a callback may call everything again. Correct
when no post is lost or dispatched twice, posts of a key stay in order, and an
id names one registration.

**Cell pool and game** (`src/sim/CellPool.hpp`, `CellGame.cpp`, `CellMovement.cpp`).
A fixed buffer whose free objects are linked through their own first word, which is
also the only record that an object is in use; a game that initializes, resets and populates it
and moves one cell. Correct when the list meets every free object once whatever
the order of allocations and (double) releases.

**Scene stage and presentation** (`src/apps/CellSceneStage.cpp`, `CellPresentation.cpp`,
`src/assets/TextureStore.cpp`). A stage is initialized, preloads a list of
resources, is displayed, stopped and shut down; it keeps the textures it uploaded, the effects it
spawned and a registry of entities with a presentation. Stages share
the renderer's texture handles, which are slots that are used again, and one effect presenter. Hard: a preload fails
at any request and must undo the ones before; the presenter may refuse to release an
effect in the middle of a list; an entity is detached and attached again
while a batch still has its old handle; calls come in any order. Correct when every
texture is released once and by its stage, no effect outlives its display, and no batch draws what was detached.

**Renderer** (`src/renderer/VulkanRenderer.cpp`). State: tables of meshes and
textures, a fence per swapchain image and one for the offscreen path, one acquire
semaphore and one command buffer for all images, the swapchain and the size it was
asked for. The host runs ahead of the GPU, and only a fence or an idle wait tells
it that a submission is over; the presentation engine hands images out and takes them back. Hard: what is destroyed, reset or used again while the GPU may still read it; a
rebuild between any two steps; refused calls after a fence was reset.

**Cell stage** (`src/apps/cell_stage.cpp`). Two loops over the renderer: a replay of an input
file that reads the last picture back, and an interactive one that polls a window. Each frame makes a mesh per entity
and destroys them one frame later. Correct when what the GPU reads exists, every mesh has an
owner, no resize of the window is lost, the picture is the last frame's, and the loop ends.

**Others.** `CellModeStrategy.cpp` (game modes), `InputRouter.cpp`,
the parsers of `src/assets`, animation, graphics and user interface of the cell stage (tables and layout), and the Rust crates.

### How they interact

    plan()/run()            WaveScheduler      offers targets, learns which completed
       | process_target per target
    process_target          Orchestrator       acts on a row only through queue verbs
       | claim, update, release, close
    queue_op                InvestigationRow   one transaction per verb
                            InvestigationQueue all verbs by all clients
                            Lease              what the queue promises
    promote                 PackagePromotion   separate processes; file system only
    CellGame over cObjectPool   CellGame over CellPool; HandlePool is the promise
    MessageManager              alone, re-entrant
    cell_stage               CellStageLoop      extends VulkanRenderer: the loop's calls are
       | begin, draw, end, resize                its actions, beside Gpu, Screen and the window
    VulkanRenderer           VulkanRenderer     frames, fences, swapchain, mesh slots
    CellSceneStage           CellSceneStage     several stages over shared handles
       | spawn, release, find
    registries, presenter    CellPresentation
    handle tables            Slots              used by the renderer and the stages
                             TextureOwnership   what the texture handles promise

`Orchestrator` and `InvestigationQueue` both extend `InvestigationRow`: the row and what each verb does to
it are written once, and composed with arbitrary clients in the one module and with
`process_target` and an operator in the other. `WaveScheduler` abstracts
`process_target` to the answer it returns.

## Modules and the code they model

| module | code | state | actions |
|---|---|---|---|
| `InvestigationRow` | `kg_tools.py` 609-1463 | none: a row is a record | per verb a guard (`Claimable`, `Updatable`, `Releasable`, `Unblockable`, `Closable`) and the row it leaves (`Claimed`, `Written`, ...) |
| `InvestigationQueue` | `kg_tools.py`, `seed.py` | `table`; `last` is a history variable | `Seed`, `Insert`, `Claim`, `UpdateActive`, `UpdateOwned`, `Release`, `Unblock`, `Close`, `Tick` |
| `Lease` | (specification) | `state`, `holder`, `lapsed` | grant, take over, renew, yield, finish, lapse |
| `Orchestrator` | `orchestrate.py` 935-1626 | `row`, `stored` (the attempts column), `run` (locals) | `Resolve`, `Claim`, `Brief`, `Reply`, `Validate`, `Save`, `Finish`, `GiveBack`, `Raise`, `Crash`, operator, `Tick` |
| `WaveScheduler` | `orchestrate.py` 251-356, 1795-1911; `schedule.py` | `plan`, `dispatched`, `completed`, `slots`, `pool`, `members`, `result` | `Offer`, `Stop`, `Start`, `Join`, `EndWave` of the main thread; `Process`, `Record`, `Fail` of the pool's |
| `PackagePromotion` | `promote.py` 935-1378 | `lock`, `holder`, `scratch`, `dest`, `lost`, `pc`, `result`; `torn` is history | one per system call another process can observe: `TakeLock`, `Probe`, `Steal`, `Sign`, `Abandon`, `Check`, `MakeHolder`, `Sweep`, `MakeScratch`, `MakeTemp`, `Scrap`, `Stage`, `_gate`, `SetAside`, `Replace`, `Restore`, `Record`, `Drop`, `Unlock`, `Crash` |
| `MessageManager` | `MessageManager.cpp` | registrations, queue, both counters, `stack`; `fate` is history | `registerListener`, `unregister`, `send`, `post`, `process`, `dispatchQueued`, `dispatchRegistration`, `clearQueue`, `dispose`, `Return` |
| `CellPool` | `CellPool.hpp` 69-169 | the pool's three numbers and the first word of every object | `initialize`, `allocate`, `release` |
| `CellGame` | `CellGame.cpp`, `CellMovement.cpp` | `CellPool`'s and the game's | `Initialize`, `Reset`, `CreateCellObject`, `ReleaseCell`, `ApplyCellMovement` |
| `HandlePool` | (specification) | `size`, `held`, `count` | empty, take, give |
| `Slots` | `VulkanRenderer.cpp` `createMesh`, `destroyMesh` and their like | none: a table is a sequence | `Stored`, `Without` |
| `VulkanRenderer` | `VulkanRenderer.cpp` | fences, `acquire`, swapchain and sizes, `meshes`; `pending` of the GPU; `acquired`, `presents`, `shown` of the engine | `InitOffscreen`, `InitPresent`, `ResizePresent`, `Shutdown`, `BeginFrame`, `EndFrame`, `WaitForPrevious`, `AcquireImage`, `OpenPresentFrame`, `EndPresentFrame`, `DropPresentFrame`; `Finish` and `Show` are the GPU's and the screen's |
| `CellStageLoop` | `cell_stage.cpp` 656-1191 | where the loop is, the frame, the draws of this frame and the last, the window and its events | `Start`, `BuildDraw`, the replay's `Sim...`, `PollResize` ... `Advance` of the window's loop, `Stop`, `WindowResizes` |
| `CellPresentation` | `CellPresentation.cpp` | bindings of each registry; the presenter's effects | `Attach`, `Detach`, `DetachAll`, `PresenterSetUp`, `Spawn`, `Release` |
| `CellSceneStage` | `CellSceneStage.cpp`, `TextureStore.cpp` | state, resources, textures and effects of each stage; the renderer's texture slots; `batch`, `detached`, `refused` are history | `Initialize`, `PreloadBegins`, `PreloadModel`, `PreloadTexture`, `PreloadFails`, `PreloadSucceeds`, `Display`, `Stop`, `Shutdown`, `SpawnEffect`, `Submit`, `AttachEntity`, `DetachEntity`, `SetUpEffects` |
| `TextureOwnership` | (specification) | `owner` of each handle | take, give all back |

Some correspondences that are not one to one:

- The clock of a row is kept as its age, cut off at `MaxAge`, or `Unreadable` where
  `_claim_is_stale` cannot parse it. `Tick` ages an active row only: nothing looks at the age of
  another.
- `FieldsOf` is the code's rule that naming an implementer in an `update` call puts
  `implementer_id` among the columns to write. With it `Updatable` refuses
  an owner's own checkpoint; this is what `evidence_first` shows.
- `Bump` counts the total twice when it is asked to bump the total, as
  `_bump` does.
- In `PackagePromotion` a run's pid is the run. `Steal`, `Abandon` and `Unlock` are `shutil.rmtree` of a lock directory, two steps (`rmtree`): the
  owner file is unlinked, then the empty directory removed, by name and whoever made it; if somebody has signed it between the two, the second does nothing. A run amid its lock
  (`AmidLock`) is one whose lock directory has no owner file because of it, and `torn` remembers the packages of which a run was killed there.
- `MakeScratch` and `MakeTemp` are `mkdir` under a name that ends in the pid and, when that fails, `mkdtemp` under one that ends in none. The first kind is kept by `Sweep` while its owner lives, the
  second never. `Scrap` removes the holder by name with everything in it.
- In `MessageManager` the C++ call stack is the variable `stack`. A batch that `process()` has
  swapped out of the queue is in its frame, which is why `clearQueue` from a
  callback does not reach it.
- In `WaveScheduler` `Scheduled` is the least set that has every target whose open callees it has. `waves()` computes it wave by wave;
  `MCWaveScheduler` has that computation too (`Waves`) and assumes the two equal, which TLC evaluates for
  all its graphs. A definition without recursion is one the proofs can use.
- In `CellStageLoop` a wait for a fence is the guard of the step after it. `BeginAcquires` fails as
  `VK_ERROR_OUT_OF_DATE_KHR` does when the swapchain's size is not the window's. `Failures` names the calls that may be
  refused; `failed` remembers which were, because some promises end there.
- A mesh is the pair of its entity and the frame it was made in, so a handle that names another
  mesh in the same slot is told apart. Handles count from 1 in the models and from 0 in the code.
- In `CellSceneStage` a refused argument changes nothing and is left out, but not a refusal in the middle
  of a list: `ReleaseEffects` releases all but any set of stuck effects, and `PreloadFails` may come after any request.
- In `CellPool` `mObjectPoolIndex[i]` is the one word that is a link while the
  object is free and its own index while it is in use.

Operators commented `Mutant:` are plausible errors in the definition that follows
them. Nothing refers to them; each has been put in place of that definition and TLC then
finds the named property violated, which shows that the property can fail.

## Runs

| run | module, configuration | what it asks |
|---|---|---|
| `queue` | `MCInvestigationQueue` | Do leases, takeovers, blocks and final rows behave under every verb by anybody, and is the queue a `Lease`? |
| `orchestrator` | `MCOrchestrator` | Two runs on a row, one allowed to take stale leases: who completes, who holds a lease at the end, are the launches bounded, and does every call return? |
| `evidence_first` | `MCOrchestratorEvidence.cfg` | Violated: is evidence recorded before a lease ends? |
| `waves` | `MCWaveScheduler` | Callees first, nothing ready left, waves that make progress, an end? |
| `promotion` | `MCPromotion.cfg` | Without kills: one installer, no tree lost, every run ends? |
| `promotion_shared` | `MCPromotionShared.cfg` | With kills at every point and two packages: no trace left, and nothing but a kill amid a lock wedges a package? |
| `promotion_wedge` | `MCPromotionWedge.cfg` | Violated: can a package always be promoted again, whichever run was killed? |
| `promotion_steal` | `MCPromotionSteal.cfg` | Violated: one installer also when a lock is stolen? |
| `messages` | `MCMessageManager` | Does re-entrance lose, repeat or reorder a post, or confuse ids? |
| `cell_game` | `MCCellGame` | Is the free list whole, and are cells exclusive? |
| `interactive` | `MCCellStageLoop` | Both loops with a late GPU, a window resized at any moment and calls that fail: is what the GPU reads alive, has every mesh one owner, are the shared command buffer and semaphore free when taken, is a resize never overtaken by an older size, is the picture the last, does the loop end? |
| `scene_stage` | `MCCellSceneStage` | Two stages in every order of calls, with failing preloads and refused releases: is every texture released once and by its owner, does an effect end with its display, is nothing detached drawn? |

### Bounds, and why they are enough

- `queue`: one row, since a transaction touches one row and no property relates two.
  Two workers give a holder, a rival and (with the unowned caller) a stranger. TTLs below,
  at and above the minimum. `HistoryLimit = 2` fills and overflows in three takeovers; the code's is 8.
- `orchestrator`: two runs with a worker each, one `allow_stale`. Two runs are enough for a
  takeover and a late answer; a third could only repeat what the second does to the first. `MaxAttempts` and `MaxValidationRetries` are 1: a failing candidate
  is retried once, in a second iteration that has released its lease, and the other class trips at its first answer; the other bounds are the code's own. The code's 3 and 2 give the
  same behaviours with more rounds, and the proof of `LaunchesBounded` covers any. `StoredAttempts` also has a row whose total has already tripped. In `evidence_first` both classes retry.
- `waves`: four targets and six shapes of call graph (none, chain, fan-in, diamond, a cycle with a caller and
  a callee, self-recursion) with every subset runtime gated and every subset truncated. Two
  threads and waves of up to four slots fill the pool; `MaxIterations = 3` lets the chain of four reach the bound and the others not.
- `promotion`, `promotion_shared`: three runs give a holder, a waiter and a latecomer, and
  with two packages two holders of different locks in one `.promote-tmp`. `MaxFaults` is the number of
  renames and writes that fail in a behaviour: two lets the install and the
  first restore both fail. Three (the second restore as well) destroys the old tree, which the code's docstring
  accepts. In `promotion_shared` one step fails and kills fall anywhere, `signing` and the two halves of a removal included.
- The runs that end in a violation use the instance of the run beside them, with the kills their counterexample needs.
- `messages`: two messages, two posts, two registrations, three sequence numbers and a stack of six frames: a
  `process()` nested in a callback of a dispatch of another (six frames) is the
  smallest nesting in which order and batches can go wrong. One priority, as no property is about priorities; two order keys.
- `cell_game`: pools of up to five cells. The proofs cover the rest.
- `interactive`: two images (one shown, one drawn), three entities in two mesh tables so that slots are skipped, filled and used again,
  two window sizes, four frames (every image comes round twice) and two resizes, the second of which may meet the rebuild of the first. The proofs
  cover any numbers for the safety properties; the bounds matter for `LoopEnds` only.
- `scene_stage`: two stages, so that a handle one stage released is given to the other; one entity, which is attached twice; one
  model and two images; three descriptor sets for up to four uploads, so that the pool runs dry; two effects. The proofs cover any numbers.

The other constants are named in the modules: `MaxAge`, `MaxDepth`, `MaxRegistrations`, `MaxPosts`, `MaxSequence`, `MaxPresentations`, `MaxEffects`, `MaxResizes`.

`CHECK_DEADLOCK FALSE` stands in the promotion and wave runs, where the system stops when every run or thread is done, in `interactive`, where the
program ends (or waits for ever after a refused submission, see below), and in `scene_stage`, where a stage that was shut down stays so and handles are bounded. In the
others time or an event of the environment is always possible.

## Fairness

- `Orchestrator!Spec`: weak fairness of each run's next step. A thread is scheduled,
  and `launch` gives the worker's subprocess a timeout, so a launched worker returns or is reported malformed. No fairness
  on the operator, the clock, exceptions or crashes.
- `WaveScheduler!Spec`: weak fairness of the main thread and of every thread of the
  pool. That a thread's `process_target` returns is what `Orchestrator!EveryRunEnds` says.
- `PackagePromotion!Spec`: weak fairness of each process's next step; a kill is not fair. A waiting run polls with
  a deadline: `Probe` may go back to `TakeLock` or give up, and `EveryRunEnds` shows that it does not wait
  for ever on a run that goes on.
- `CellStageLoop!FairSpec`: weak fairness of the host's thread, of the GPU (it finishes what it was given) and of the screen (it shows what is
  queued). The window need not be resized. `LoopEnds` excepts two states (`MayHang`): after a refused submission, and a refused `beginFrame` of the replay, the
  next wait is for a fence that was reset and that nothing will signal, with no timeout (`VulkanRenderer.cpp:1359`). Vulkan calls that
  such an error a lost device, and no document of the repository promises otherwise.
- The queue, the message manager, the pool and the scene stages have safety properties only, and no fairness.

## Proofs

Each component with a specification of its own has a module of proofs: `InvestigationQueueProofs`, `OrchestratorProofs`, `WaveSchedulerProofs`,
`PackagePromotionProofs`, `MessageManagerProofs`, `CellGameProofs`, `CellStageLoopProofs` and `CellSceneStageProofs`. Every invariant, action property and
refinement a passing run checks is proved there for all values of the constants; only liveness is not.

The proofs use the named assumptions of the constants (`NoWorker` is no worker, the minimum TTL is a positive number no
greater than `MaxAge`, the history limit is positive, TTLs are naturals, the retry bounds are naturals and `MaxAttempts`
is positive; `Int32Max` is a natural; the targets of a plan are finitely many; every run has a package, and a lock's two markers are no run; priorities and order keys
are integers; the fence of the offscreen path is no image; entities are naturals and each has a
mesh table; `NoStage` is no stage; models and images are different keys). Some theorems ask for more and say so: `EndedRunsHoldNothing` of the orchestrator, and of the promotion all but `TypeCorrect`,
`NothingIsLeft` and `OnlyKillsAmidALockWedge`. Each hypothesis is discussed below.

Two pairs of modules share what they are built from: the queue and the orchestrator the rows, with what each verb does to one, that it keeps the columns'
types (`VerbsKeepRows`) and what it leaves in the columns the properties read (`AfterClaim`, `AfterClose`, ...); the loops and the stages the tables of slots that are used again
(`SlotForIsFree`, `StoredTaken`, `WithoutEntries`). Those lemmas stand at the head of both modules of a pair, where their proofs are the same.

**The queue.** `TypeCorrect` is inductive as it stands given `RememberKeepsNewest`
(what `_merge_checkpoint` returns has at most `HistoryLimit` entries and ends with the one added) and `VerbsKeepRows`.
All other theorems rest on one lemma, `VerbEffect`: every verb by any worker is one of seven *effects* on the one row
it writes (created, taken, resumed, noted, freed, block lifted, ended), each stating what the old row must have been and what the new one is.
`StepOnRow` turns a step of the system into "unchanged, aged, or one effect" for a given row. From it follow

- `LeasesCanLapse`: an active row's clock is readable. It is inductive with `TypeOK` because all verbs that make a row active write the clock;
- `LeasesAreRespected`, `DisplacementsAreRecorded`, `TerminalRowsAreFinal`,
  `BlocksAreLiftedCleanly`: action properties, case by case over the effects;
- `QueueImplementsLease`: under the refinement mapping of `InvestigationQueue` every effect is a step
  of `Lease` (`VerbIsLeaseStep`), and a tick is `Lapse` (`TickIsLapse`). The case that needs
  care is a claim of a stale lease: the TTL is at least `MinStaleAfter`, so a lease that is stale for the claim has lapsed.

**The orchestrator.** Two facts carry all of it: a step writes the row by one of nine verbs or not at all
(`StepWritesRow`), and it writes the locals of one run (`OtherRunsKeepState`). `TypeOK` is
not inductive, since what is planned depends on the reply a run has; `GoodRun` adds that a run validates only a reply that it has, that
only a static PASS of a candidate is planned complete, and that only a run that returned has a result. Then

- `CompletionsAreEarned`: no verb writes a row that is done or dropped (`TerminalRowStays`), and a run
  that is told "complete" closed an open row in that same step (`CompletionNeedsOpenRow`). So the first completion
  shuts out every later one, from whatever run;
- `HoldersAreNotOverruled`: the same lemma, with the guard of the close;
- `EndedRunsHoldNothing`: only a claim makes a worker hold the row (`OnlyClaimsHold`), and a run whose worker holds
  it has its lease open and is at work, has died, or was refused the write (`HoldsKnowingly`). This one assumes that no two
  runs on a row have the same worker name. That is how the code names them when nobody passes a name (the orchestrator's process and the unit, `orchestrate.py:1774`);
  a claim is idempotent for its holder, so a second run of the same name would share the lease;
- `LaunchesStayBounded`: the budget `Least(validate, MaxValidationRetries) + Least(outcomes, MaxAttempts - 1)` of the counters a run has
  grows by one with every retry that is granted, and pays for the launch after it
  (`WithinBudget`, one clause for each place of the loop). The counters may start anywhere, since the column keeps what earlier calls stored.

**The pool.** `FreeListSound` says that a sequence `s` of length `n` lists the free
objects without repetition in the order of their links, and that the count is the rest. The invariant
is `TypeOK`, `PoolIsSound`, `MoverIsOfThisPool`, and that a game not yet initialized has no objects
and no mover; the last conjunct is needed because `release` asks for no
initialization. Each operation produces a new witness: `InitializeIsSound` counts upward, `AllocateIsSound`
drops the head, `ReleaseIsSound` puts one in front, where
`Pigeonhole` (a list without repetition is no longer than there are indices) keeps `n` in range. Then

- `FreeListStaysSound`, `MoverStaysInPool`, `TypeCorrect`: parts of the invariant;
- `RefusalsAreEarned`: an empty head means `n = 0`, so nothing is free;
- `GameKeepsPoolPromise`: every step is a step of `HandlePool` or leaves it alone.

**The waves.** `PlanInv` is what `plan()` promises the loop: a dispatchable target waits for nothing, and the scheduled
set is closed (`PlanKeepsPromise`, from the least-set definition). `Work` says that what is recorded as completed returned complete, and that a thread holds only
targets whose callees are recorded; the first keeps the second from going wrong when a thread records late or dies with its results. Then

- `CalleesAreAlwaysFirst`: part of `Work`, since a result once recorded is never replaced;
- `NothingReadyIsEverLeft`: a stopped loop found nothing ready, and what waits only for completed targets is scheduled because the set is closed;
- `EveryWaveIsAlwaysNew`: a wave adds at least one target to those offered (`OfferGrows`), so their number stays ahead of the count.

**Package promotion.** Five invariants, each resting on `TypeOK` and each with lemmas (`LocksKept`, `OwnersKept`, ...) for the many steps that leave its variables alone;
`Removal` gives the four outcomes of a step of `rmtree`:

- `LocksInv`, for any kills, failures and steals: an unsigned lock belongs to a run amid it, or to a package of which a run was killed amid it; a signed one names a run of
  the package that is past it or dead. Hence `OnlyKillsAmidALockWedge`, without hypotheses: the kills `promotion_wedge` shows are the only ones that wedge a package, wherever else runs are killed.
  The step that needs care is the removal of a lock that is no longer the run's own (a steal that comes late), which leaves it unsigned, but beside a run that is amid it;
- `TreesInv`, likewise without hypotheses: a scratch tree belongs to a run that is still to drop it or was killed, and while there is a holder somebody is still to look at it.
  Together with `LocksInv` it gives `NothingIsLeft`. The step that needs care is `Drop`: the holder stays only because of a tree, whose owner is then between making and dropping;
- `OwnerInv`: a run past the lock has its name in it, and of a package at most one is making, giving up or removing one. It is inductive but for one step, a steal that changes a lock
  somebody has taken since it was probed. `CleanSteals` says of a step that it is not such a removal, and `OnlyStealsOverlap` is `Spec /\ [][CleanSteals]_vars => []OneInstaller`, for any runs, packages, kills and failures: the
  flaw `promotion_steal` shows is the only way two runs get past a lock together. `StealInv` (beside a run that is stealing a lock all others of its package are dead, so nobody can take it meanwhile) shows
  `[][CleanSteals]_vars` itself when `SafeSteals` holds of the constants: no run is killed while a lock names it, or no package has three distinct runs. Hence `OneInstallerPerPackage`. With three runs
  and one kill past the lock the conclusion is false;
- `InstallInv`: a run between its renames has a staged tree and a free destination. It is inductive beside `OwnerInv` but for a step of another run that removes a live run's scratch tree, which `Sweep` does
  to the trees of `mkdtemp` and `Scrap` to any. `TreesSurviveIfLeftAlone` is therefore `Spec /\ [][CleanSteals]_vars /\ LiveTreesAreLeftAlone => []TreeSurvives`, for any packages and runs, under
  `CarefulPromotions`: no kill between the two renames, and at most two failures in all, since the rename, the restore and the rescue all failing loses the tree. The code breaks both hypotheses on behaviours (`promotion_steal`, and `Sweep` and `Scrap` where two packages are promoted), and the theorem says that nothing else loses a tree;
- when all runs are of one package, only one at a time has a tree (`OwnerInv` and `TreesInv`), so none can remove another's (`LiveTreesKept`), the fallback included. With `SafeSteals` this leaves `TreesSurvive` no hypothesis about behaviours.

Each hypothesis is needed: with any one left out TLC finds a behaviour that loses a tree (for clean steals with four runs, when trees are left alone).

**The message manager.** `TypeInv` adds to the types what a frame of each kind has (`FrameOK`) and that every waiting delivery is one; the types alone are not inductive, since a return leads to
the frame below. The proofs then see queue and call stack as one function, `Places`: place 0 is the queue, place h the batch of the call at depth h. The lemmas `Pushed`, `Swapped` and `Popped`
say what the stack operations do to it, and `PostsAtCall`, `PostsAtReturn`, `PostsAtProcess`, `PostsAtDispatch`, `PostsAtPost` and `PostsAtClear` that each kind of call keeps the invariant. `Posts` is that invariant: each post waits in exactly one place or is done
(`Fated`), those of one place have sequence numbers in the order they were posted, and those in the queue are later than those in any batch (`InOrder`). Then

- `PostsHaveOneFate`: the places as `Fated` has them, counted as the property counts them;
- `PostsAreFifoPerKey`: what is dispatched comes first in the innermost `process()` that waits (`OnlyTheFirstIsDispatched`), so by `InOrder` nothing older of its key waits there or in the queue;
- `IdsNameOneRegistration`: an id in use is below the next one, which `dispose()` resets together with the list (`IdsInv`).

**The cell stage's loops.** `LoopInv` has four parts: types; `Control`, where each loop can be and what is up there; `OneInFlight`, at most one submission
is pending, its fence is not signaled, and the loop is then nowhere it would touch what the submission uses; and `EveryMeshHasADraw`. The third is the heart: that
the fence waited for is the one of the submission in flight is what makes the destruction of the previous frame's meshes safe, across rebuilds (which replace the fences, but
wait for the device first). Then

- `MeshesAreAlwaysOwned`, `InFlightIsAlwaysLive`: from `EveryMeshHasADraw` and, for the second, the fact that while something is pending
  neither the meshes nor the swapchain change (`StepsInFlight`);
- `RequestsAlwaysFollowWindow`: `SizesAgree` relates the window to the last queued event, or to the swapchain when none is queued;
- `SingletonsAreAlwaysFree`: `AcquireIsConsumed` says between two frames what the last submission left of the semaphore;
- `PictureIsAlwaysLast`: `PictureKeepsUp` says at each point of a replay without failures which frame the image holds.

**The scene stages.** Three invariants, one for each kind of thing a stage owes back: `TexturesInv` (lists and slots agree, `StepsOnTextures`), `EffectsInv`
(handles of effects are below the next one) and `RegistryInv` (a handle that was detached is below the next one and attached nowhere). Then
`TexturesAlwaysResolve`, `TexturesAreAlwaysNeeded`, `EffectsAlwaysEnd`, `NothingDetachedIsEverDrawn` are parts or consequences, and `TexturesAreAlwaysShared` shows that every
step is a step of `TextureOwnership` or leaves it alone: the mapping takes the owner of a handle from the stages' lists and calls a handle that no list has
"leaked", which is no stage, so a leak would be a step the specification does not have.

So the cell pool's properties hold for every capacity an `int32_t` can hold, the queue's for any number of rows and workers, and
the orchestrator's for any number of runs on a row and any bounds, the waves' for any plan and pool, the loops' for any scene, images and frames, and the stages' for any
number of them and of what they share.

**Only model-checked:** liveness (`EveryRunEnds` of three modules and `LoopEnds`; TLAPS does not do fairness here), and that `Waves` computes the least set (induction over data).

## What was found

Three runs end in a counterexample to something the repository says of itself.

1. `evidence_first` (`orchestrate.py:1520`). Every checkpoint `process_target` writes names the implementer;
   `queue_op update` counts that name as a column to write and refuses (`kg_tools.py:904`); the
   answer is not read. So no evidence is recorded before a lease ends, though `orchestrate.py:39` says it always is,
   and the lease is never renewed. A consequence in the same model: the malformed counter is never stored, so its bound cannot trip in a later run.
2. `promotion_steal` (`promote.py:1049`). A dead owner's lock is removed by name after the probe.
   Two runs that both probed it can end up past the lock together, against `promote.py:1310`.
3. `promotion_wedge` (`promote.py:1026`). A lock without an owner file counts as live for ever, and there are three ways to leave one: a kill between `mkdir` and the
   owner file, and one between the unlink and the `rmdir` of a steal (1049) or of a release (1070, or 1060 after a failed signing). Every later promotion of the package then
   waits and is refused, though `promote.py:1035` says "a killed run cannot wedge a package". `OnlyTornLocksWedge` and its theorem: there is no fourth way.

More disagreements between the code and what is written about it are in the models and have no run of their own. Where a checked property meets one, it states
what the code does:

- `unblock` clears `block_reason` and keeps the reasons in the checkpoint (`kg_tools.py:1242`, `1272`), because the frontier would otherwise go on reporting the row blocked (the comment at 1260). The verb's
  docstring (1184-1186) says the reason is written to the column and stays visible there until the next claim clears it. Both cannot hold. `BlockLiftedCleanly` is the code's and the comment's side, and so the negation of the docstring.
- A worker whose `STILL_UNKNOWN` passes validation is given up on at its third answer, by `MAX_ATTEMPTS` and the counter `_outcomes` (`orchestrate.py:1593-1600`), with `_total` at 8 of 12.
  `docs/tooling/orchestration.md:459` says `MAX_ATTEMPTS` "is not the enforcement number" and that such a worker is bounded by `MAX_TOTAL_ATTEMPTS`: "That is deliberate"; 461 makes it roughly six attempts.
  `LaunchesBounded` is the bound of the code, tighter than the document's: three launches of that kind and five in all.
- The swapchain's size is clamped to surface capabilities that were read once (`VulkanRenderer.cpp:997`; `caps` in the model). Where these pin the size, as those of an X11 window do (the surface `VulkanRenderer.hpp:2`
  names), a resized window keeps a swapchain of its first size, while the pipelines get a viewport of the new one. `VulkanRenderer.hpp:65` says "at the new size" and the comment at cpp:1373 "at its current size".
  `RequestedSizeFollowsWindow` therefore says only that no resize is overtaken by an older size, and excepts that case for the swapchain itself.
- When `mkdir` of the scratch tree fails, the tree `mkdtemp` makes (`promote.py:960`) has a name that ends in no pid, and the next run of any package
  sweeps it while it is in use, with a superseded tree it may hold; and a run that found the holder gone removes it by name (966) with the trees made in it since.
  `promote.py:985` says "A live run's tree is never touched" (`LiveTreesAreLeftAlone`). In an instance with two packages TLC finds both, without a kill. This is why `TreeSurvives` is checked for one package, and what
  `TreesSurviveIfLeftAlone` takes as a hypothesis.
- A retry releases the row (`orchestrate.py:1608`) and launches the worker again without a claim, although the comment at 1612 says the next iteration
  re-claims. When a bound trips after that, the release to `blocked` is a no-op and the reported status is not the row's. That nobody
  is told a false "complete" all the same is `CompletionIsEarned`, which holds.
- Slots are made per wave (`orchestrate.py:1852`), so the members of a cycle that become ready at different times (one of them is runtime gated and so
  not an open callee of the other) are dispatched separately, against the comment at 1848 and `docs/tooling/orchestration.md:181`.

Behaviour the models have and no run states, because no document promises otherwise or
a test pins it: an insert may make a row active and unowned; the results of a thread that dies are lost, and only its exception is
reported (`orchestrate.py:1885`); a plan of exactly
`MAX_ITERATIONS` waves raises after its work is done; targets that wait on one another, or on themselves, are reported and never
dispatched; ids start again at 1 after `dispose()`. `unregister` of an old id after a `dispose()` removes somebody else's registration. `_sweep_scratch`'s comment gives the scratch names as `<pid>.<random>` while the code has
them the other way round; its effect is the same.

In `tools/mcp/cache.py`, not modelled yet: the file names of an entry hold the binary and the address only, so keys that differ in the Ghidra
version or the program share them, and `store` writes the body before the metadata. Between the two writes, or for good if the process is killed there,
the old metadata makes a hit of the new body, though the module's text says a changed version or program is a miss.

In the renderer and its loop, read while they were modelled:

- an acquire that answers `VK_ERROR_OUT_OF_DATE_KHR` ends the interactive loop (`cell_stage.cpp:1154`), though `CELLSTAGE.md:112` says it runs until ESC;
  the model has that exit, and `LoopEnds` counts it as an end;
- a submission that is refused (`VulkanRenderer.cpp:1359`) leaves the image's fence reset and the acquire semaphore signaled, and a refused
  `beginFrame` leaves `frameFence_` reset: the next wait has no timeout. `SingletonsAreFree` and `LoopEnds` except these states by name;
- a descriptor set goes back to no pool when its texture is destroyed, so the sixteen of the pool (`VulkanRenderer.cpp:1738`) serve sixteen uploads, not sixteen textures (`setsLeft`);
- outside the models: `createPipelinePair` (`VulkanRenderer.cpp:911`) destroys a pipeline whose handle the caller's member still holds and `shutdown` destroys again; and
  on two failure paths of `cell_stage.cpp` (923, 935) the window goes before the renderer that has a surface on it.

## What the models leave out

- Of a row: the columns no guard reads. Of a checkpoint: all but whether it was written, the counters and the history.
- What a worker's answer says: it is a member of `Outcomes`, malformed, or absent; what validation says is one of four verdicts.
  Every combination is allowed, so no property depends on the analysers.
- The scores of targets: they order the slots of a wave, and `Start` picks slots in any order.
  Plans narrowed by `limit` or by explicit targets, and targets that are not available.
- In promotion: the checks of inputs are one outcome, as is the gate; removing a scratch tree, or the holder with what is in it, is one step (removing a lock is two);
  pids are not reused; the records' contents.
- In the message manager: what listeners do with a message other than call the manager, exceptions,
  and the wrap of its 64-bit counters.
- In the renderer: devices, pipelines, layouts, buffers and memory; a creation succeeds or cleans up after itself. That a rebuild fails half way is
  one outcome, which takes the renderer down as the code does. One kind of error per call.
- In the loops: what the simulation decides beyond which entities get a mesh; camera, keys other than ESC, and the HUD.
- In the scene stages: worlds, camera and HUD; the bytes of resources; an order of requests (any order is allowed). A port that throws.
- In the game: the fields of a cell besides the word the pool uses, and the movement arithmetic.

Not modelled: the analysers and projections (functions of text), the parsers and the
Rust crates (functions of bytes), floating point simulation, animation and layout, the reconstructed packages.
Not modelled yet: the parts named in the plan.

## Plan

Done, in this order: `InvestigationRow`, `InvestigationQueue`, `Lease` with proofs; `Orchestrator` over the row with proofs; `CellPool`,
`CellGame`, `HandlePool` with proofs; `MessageManager` with proofs; `PackagePromotion` with proofs; `WaveScheduler` with proofs; `VulkanRenderer` under `CellStageLoop` with
proofs; `CellSceneStage`, `CellPresentation`, `TextureOwnership` with proofs.

Next models:

1. `DecompileCache`: `tools/mcp/cache.py`, writers, readers and kills between the two files of an entry that several keys share; a hit is the whole body stored for its key.
2. `MachineLock`: `tools/observatory/lock.py`, holders, probes and kills.
3. `GameModes`: `CellModeStrategy.cpp` with `InputRouter.cpp`, re-entrant activation; entered and exited alternate.
4. `Manifests`: `satisfy.py`, `ownership.py`, `integrate.py`, the order in which the three files of a package are written.

Next theorems, in order of worth:

1. `MessageManager`: an abstract mailbox per order key that the manager implements.
