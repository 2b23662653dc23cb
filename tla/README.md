# PseudoForge: TLA+ models, model checking and proofs

PseudoForge turns Hex-Rays pseudocode into a reviewed "clean" view. It runs as an
IDA plug-in (`ida_pseudoforge/ida`), as a desktop program without IDA (Free Studio,
`ida_pseudoforge/gui`, `ida_pseudoforge/free`) and as batch scripts (`tools`). All
three share one core (`ida_pseudoforge/core`) that captures a function, collects
rename suggestions and comments, validates them, and renders C text.

Most of the code is sequential text analysis, which its unit tests reach. What tests
hardly reach is what this project models: threads that share registries and globals,
a database the user edits while a task runs, a file several writers extend and some
die writing, answers that arrive late, and a decision loop in which each decision
changes what the next one may do.

## 1. Inventory

| Component | State it keeps | Operations | Talks to | What is hard | What makes it correct |
|---|---|---|---|---|---|
| Background task registry (`ida/async_runner.py`) | three tables under one lock: active names, task of a group, cancel Event of a name | `run_background`, worker outcomes, `_mark_done`, `request_group_cancel`, `cancel_requested` | IDA's main thread through `execute_sync`; every action | names are reused, cancel is three steps, errors on both threads | one task per group; a cancel reaches the task it was meant for; every task is released |
| Analysis session and rename apply (`ida/actions.py`, `analysis_state.py`, `apply_changes.py`) | the last session: capture and plan | analyze, apply, preflight | registry, decompiler, database | the user navigates and renames between analysis and apply | renames go to the function and the variables analysed, names stay distinct |
| Type-assisted re-decompile (`ida/actions.py`) | the function's type in the database | apply a temporary prototype, decompile, restore, verify | IDA's type API on the main thread | any call fails or is ignored, the user sets types | no temporary prototype stays behind unannounced |
| Aggregate `.forge` file (`core/forge_store.py`, `tools/pseudoforge_ida_batch.py`) | one text file of sections | upsert, append, parse, resume | plug-in and batch script | repeated writes, killed writers | one section per function, the last one written |
| Rename planning and validation (`core/lvar_analysis.py`, `core/validation.py`) | the names used so far | dedupe, decide, replace, append | all suggestion sources, `apply` | replacements compete with suggestions not decided yet | applied targets are fresh and distinct |
| Free Studio window and service (`gui/free_app.py`, `free/service.py`) | shown result, worker, the process's profile directory | analyze, stop, save, settings | a worker thread per run, queued signals | late signals, one global for all scopes | the shown result is the last run's; Stop works; profiles do not mix |
| Settings dialog and model look-ups (`gui/free_app.py`) | fields, list of models, generation | edits, timer, refresh, answers, close | a thread per look-up | answers out of order, after an edit, after closing | the list belongs to the fields; Refresh comes back |
| LLM assistance and answer cache (`core/llm_*.py`, `models/`) | recorded answers on disk | ask, record, replay, fall back | provider processes and HTTP, the batch script | a record cut short, of another input, or missing; two tasks with different failures | a replay hears what was recorded, and fails when nothing was |
| Plug-in entry and action handlers (`ida/plugin.py`, `ida/actions.py`) | registered actions | start tasks, poll for cancel | registry | a task polls under its registered name | an accepted cancel stops the work |
| Helper capture (`ida/actions.py`, `ida/source_context.py`) | two queues, the ledger | take, capture, queue what it calls, settle | decompiler | limits, cycles, priority of the focus path | every name is accounted for once; the focus path first; the depth asked for |
| Profile directory and its caches (`profiles/loader.py`, `ida/actions.py`) | the active directory, JSON caches, caches derived of them | menu switch, switch at an analysis, fills | configuration file, Free Studio | a cache the loader does not know; a fill that a switch overtakes | no data of a directory that was left |
| IDA batch script and CLI (`tools/pseudoforge_ida_batch.py`, `pseudoforge_ida_cli.py`) | report, bundles, metadata, index, manifest, cancel file | loop, resume, stop, kill | `.forge` file, the IDA process | kills between artifacts, stale cancel file, a hung process, files of several runs | a complete run is whole, what is missing left a trace, Ctrl+C ends |
| Kernel corpus packs (`tools/kernel_corpus`) | a database, its manifest, evidence packs and atlas pages | build, derive, relocate, validate | the corpus index of a batch | a build killed between two files, readers across a build, paths within paths | a pack that passes is whole and current, relocations repair it |
| Case-contract batch, release tools | files | one pass | file system | partial writes | a run ends with all its files |
| Rule engine (`core/deterministic`) | a table of rule packs read, the report | load, match, emit, resolve | the user's rule files, every analysis, validation | rules that compete and override one another; files edited while they are read | no two results compete, each loser names its winner; no rule older than its file |
| Rendering, field layouts, buffer contracts, kernel semantics, quality and corpus reports | none between calls | text to text | validation, export | text | line by line, by unit tests |

The plug-in's flow: an action handler calls `run_background` with its name and
(Analyze, Export, Apply and the type preview) one common group. The worker calls
IDA's API on the main thread, builds the plan with the validated renames, writes the
function's section into the `.forge` file and stores the session; its `on_success`
runs on the main thread. Apply uses the session later. Free Studio runs the same core
in a `QThread`, and the batch script in a headless IDA.

`PROJECT.json` lists every component with its status, and the hazards with the line
where each bites.

## 2. Modules

| Module | Models | Kind |
|---|---|---|
| `AsyncRunner` | `async_runner.py` | component |
| `TaskSlot` | what the registry promises its callers | abstract specification |
| `AsyncRunnerSlot` | the refinement mapping from the first to the second | composition |
| `AsyncRunner_proofs` | registry, its refinement of `TaskSlot`, `TypeAssist`, `ForgeStore` and its refinement of `SectionMap` | proofs |
| `PluginApply` | session and apply | component |
| `TypeAssist` | type-assisted preview | component |
| `HelperCapture`, `HelperCapture_proofs` | capture of a case's helpers | algorithm, proofs |
| `ProfileCache` | profile directory and caches | component |
| `ForgeFile`, `ForgeFile_proofs` | the text of a `.forge` file: what readers find, what an upsert makes of it | algorithm, lemmas |
| `ForgeStore` | the writers of a `.forge` file | component |
| `SectionMap` | what a `.forge` file promises its readers | abstract specification |
| `RenameValidation` | dedupe, `validate_renames` | algorithm |
| `RuleEngine`, `RuleEngine_proofs` | the rules' order, emissions, conflicts | algorithm, proofs |
| `RulePacks` | the table of rule packs and the files | component |
| `Plugin_proofs` | `RenameValidation`, `PluginApply`, `ProfileCache`, `RulePacks` | proofs |
| `FreeStudio` | window, worker threads, profile scopes | component |
| `SettingsDialog` | dialog and look-ups | component |
| `FrontEnds_proofs` | `FreeStudio`, `SettingsDialog`, `LlmReplay` | proofs |
| `IdaBatch`, `IdaBatch_proofs` | CLI, batch script, IDA and their files | composition of processes, proofs |
| `LlmReplay` | recorded answers and their replay | component |
| `KernelPack`, `KernelPack_proofs` | corpus packs: builder, readers, relocation, validation | component, proofs |
| `MCAsyncRunner` | registry, preview, `.forge` file: the background tasks and what they write | instance |
| `MCPlugin` | session, renames, helpers, profiles, rules, packs: the plug-in's data | instance |
| `MCFrontEnds` | window, dialog, batch, replay, pack: what works outside the plug-in | instance |
| `MCForgeStore`, `MCHelperCapture`, `MCIdaBatch`, `MCFreeStudio`, `MCKernelPack`, `MCRules` | one component's instance | instances |

The three larger instances hold several components that share no state. A variable
`part`, chosen at the start, says which of them a behaviour explores; the others keep
their initial state, so the state space is the sum of theirs, not the product, and each
property is checked in its own part.

Definitions beside those of the code whose comment begins "What could be wrong" are
mutated forms of the definition that follows. No specification uses them; they show
for each property a plausible mistake the property would catch.

### AsyncRunner
`activeTasks`, `activeGroups`, `activeCancels` are the three tables; `eventSet` the
set `threading.Event`s, one for each run; `pc` the position of each worker thread;
`main`, `mainRun`, `mainTask` what the main thread is in the middle of. A block under
`_ACTIVE_LOCK` is one step, and what follows the release is another, so
`request_group_cancel` is `CancelClick`, `CancelLookup`, `CancelSet`, and
`cancel_requested` is `Peek`, `Test`. `MarkDone` removes by *name*, as the code does,
whoever holds the name now. `StartFails` is `Thread.start` raising. `GroupOf` gives
each task its group or none; `Polling` are the tasks whose work polls under their own
name; `Raising` those whose callback may raise.

### PluginApply
The database is a map from functions and variables (by location) to names. The task
captures the function of the view current *at that time*, and stores capture and plan
together. Apply is one step, since it holds the main thread, modal chooser included.
A plan is any set of renames that validation could let through. IDA may refuse each
rename. User edits rename a variable or make it appear and disappear.

### TypeAssist
One variable is the function's type; `pc` is the section of
`_run_type_assisted_recompile_preview` to execute next. Each IDA call takes effect,
is ignored or raises; between two sections the user can set any type. What the
pseudocode shows of the type it was decompiled under is its number of parameters and
those of the proposed ones it has (`Arity`, `Shows`). `Realizes` is
`_type_assisted_pseudocode_realizes_proposal`: the same number, where a correction gives one, and
one of the proposed parameters, where any is proposed. So a preview need not show the
whole proposal, and `PreviewRealizesTheProposal` promises no more than that test:
another type that the user set in between passes when it agrees in part.

### HelperCapture
`priorityQueue` and `normalQueue` hold candidates with their depth, `calls` what the
captured helpers call on and beside the focus path (any lists), `ledger` one entry per
name taken. `Capture`, `CaptureNothing`, `PassSeen` are what becomes of the candidate at
the head of the first queue that has one. A captured helper leaves its calls in
`toQueue`, from which `QueueCall` sorts them one by one into the two queues, unless the
name was seen (the two inner loops of the code). `SkipCandidate` writes the candidates
left when the limit is reached, and `Settle` returns.

### ProfileCache
`cached` has one entry per cache: the loader's, one derived of it that
`clear_profile_caches` clears, and that of `helper_edge_audit`, which it does not. A
switch is three steps (move, clear, save), an analysis follows the configuration and
fills; a miss and its store are two steps. `overlapped` marks that a switch met an
analysis: the code has no guard against it, and the properties speak of the rest.

### ForgeFile and ForgeStore
The file is its sequence of marker and text lines. `Starts` is where the matches
start, from the left and without overlap; `Upsert` replaces every match of the EA's
pattern or appends: a marker pair is matched lazily, over everything in between, so a
section behind a torn one is swallowed. `Expand` is what `pattern.sub` does to a
replacement template. These operators are `ForgeFile`, which the batch uses too;
`ForgeStore` has the writers. A crash leaves a prefix of what was being written. The
batch script's modes decide what is truncated, skipped and appended.
`ImplementsSectionMap` is the refinement and, since a refinement may stutter, that each
write which returns to a file of whole sections *is* the abstract `Put` of its function
and text: a write that is lost, or appended behind a section that readers go on finding,
breaks it.

### RenameValidation
`best` is the list `_dedupe_suggestions` keeps, `accepted` the list under
construction, `used` the taken targets. Each pass of the loop is one of
`RejectUnusable`, `DowngradeStatusConflict`, `RejectUntrusted`, `Disambiguate`,
`Accept`, in the order of the code's guards; `AppendCarrier` is the last pass. What
the filters read off the pseudocode are constants, and so are the lists of
replacement names.

### RuleEngine
`todo` is what is left of `_ordered_rules`; `MatchRule` takes any list of matches, each at
a *place* (the variable and its new name, the argument, the dispatcher
and its kind of flow, the span), and
`EmitMatch` builds them one by one; `build_emission` refuses some (`Built`). After
`StartResolving`, `pending` holds what `_resolve_conflicts` has not decided:
`ResolveGroup` decides one variable, argument, or dispatcher and kind of flow, in the code's order,
`ResolveText` one rewrite from the strongest down,
`PassThrough` adds the comments. `verdicts` are the report's entries for each emission,
with the winner; their order across emissions is left out.

### RulePacks
What a file holds is the number of its changes. Signing (`SignFile`) and reading
(`LoadFile`) go file by file, with the user's edits in between; `LookUpPacks` and
`KeepPacks` are the two blocks under the lock. `asked` is history: the contents when the
analysis asked.

### FreeStudio
A run is a worker object and its thread. `posted` is the queue of signals for the
main thread: Qt delivers those of one thread in order. `stage` is where
`_analyze_source` is; each checkpoint raises when `cancel` is set. `profile` is
`PROFILE_DIR`, `previous` what each scope will restore.

### SettingsDialog
`lookups` are look-ups under way with the generation and fields they were started
with. They answer in any order, with a list or with a failure (the static list is
shown). `Current` is the test `_model_discovery_completed` makes.

### IdaBatch
Three actors share a directory. `ida` is where the batch script is (`Setup`, `Boundary`,
`Analyze`, `Export`, `Wrapup`), and IDA may die at each step or take none; `cli` is where
`main` of the command line is, with the three stops of `_request_process_stop` (cancel
file, terminate, kill) and their waits; the user presses Ctrl+C anywhere. `forge`,
`bundle`, `described`, `index`, `cancelFiles` outlive a run. A bundle is `whole`,
`partial` (no summary, so the index does not see it) or `mixed` (cut short over an older
one). `forge` has the lines of `ForgeFile`: a death leaves a section cut short (`CutStored`),
a later one may be swallowed by it, and a resumed run skips what it finds (`Listed`).
Helper aliases rewrite the `.forge` file and the bundles at the end (`RewritesInPart` where
that fails or dies). `launched` is the moment between `Popen` and the `try` that watches
IDA; a Ctrl+C there ends the command line. Each wait reads the report, and an error of that
ends it too (`PollFails`). `suspects` is history: what a report, IDA's death or a failed
rewriting left a trace of; `clean` says whether the run went on with a file of whole
sections.

### LlmReplay
One function, since the name of a record begins with the address. `records` maps an
input and a task to the recorded text, `Stub` for a file cut short (which
`read_llm_candidate_response` returns as it is). Each batch asks for names and then for
candidates; `Match` is `find_llm_candidate_cache` with its near match, and a record that
is there may be unreadable (`damaged`); `FallsBack` is the plan built again, or the error of
a replay. `baseline` is history.

### KernelPack
`pack` maps the four kinds of files to `Missing`, `Broken` or what matters of their contents:
the version of the index they come from, the version that was hashed, the second of
their making, the path written in them. `build` is where `build_pack` is, `making` the
reader at work (`trace_lifecycle`, `generate_atlas`), `rel` where `relocate_kernel_pack`
is. A path is a sequence of segments, and one that is a prefix of another is found in it,
as `str.replace` does. The manifest and the evidence are JSON in ASCII, so a segment that
is not ASCII stands there escaped (`TextIn`); a reader gets the path all the same (`Read`),
and compares it without case (`SamePlace`, by `Fold`), while the rewriting looks for its
very characters: `Replaced` are the old paths the tool goes through, in the order of
the list and each once, and `Rewritten` what one path becomes when it has gone through
them all. The readers and a build may overlap; a relocation, a copy and the
validation are made with no tool under way. `Valid` is `validate_pack
--include-derived`. `raced` and `overlapped` are history.

## 3. Runs

| Run | Bounds | Shows |
|---|---|---|
| `async_registry` | 4 task names (3 in the group, one of these with a callback that may raise; one without group, polling under another name), 2 runs, fair; the preview: 4 types, 3 proposals (a number of parameters, parameters, both), 2 user edits, 1 cancel; the file: 2 functions, a safe and a refused text, 5 writes, 2 crashes, all batch modes | tables agree, no overlap, cancels reach their aim, no delivery after a cancel, refinement of `TaskSlot`, every task ends and its group is released; a temporary prototype that stays is reported, the preview passes for the proposal; refinement of `SectionMap`, each function listed once after at most one death |
| `async_overlap` (violation) | the registry with 3 runs | overlap after a callback raised |
| `plugin` | session: 2 functions, 3 variables (one without location), 4 names, 2 user edits; renames: up to 4 of 16 suggestions in any order for 3 variables; helpers: 4 that may call one another in every way, depth 3, 3 captures; profiles: 2 directories, 2 switches, 2 analyses, settings saved by others at will; rules: 3 that compete for 2 targets or 3 spans, 192 sets of priorities and overrides, and one set of several kinds, 6 lists of matches; packs: 2 files, 2 changes, 2 threads, 2 calls | apply hits function and variables analysed, names stay distinct; targets are fresh and distinct, the last entry wins, `status` goes to its claimant; every helper is accounted for once, the focus path first; cleared caches follow the directory; results of rules do not compete, losers name a winner the policy prefers; rules are no older than their files |
| `helper_depth` (violation) | 4 helpers, depth 3, 4 captures | a call within the depth is lost |
| `profile_cache` (violation) | 2 directories, 2 switches, 2 analyses | a cache answers from the directory that was left |
| `forge_others` (violation) | 3 functions, 5 writes, 1 crash | a re-analysis removes other sections after a crash |
| `forge_literal` (violation) | 3 functions, safe, expanded and refused text, 3 writes | a second analysis changes the text |
| `front_ends` | window: 3 analyses, 2 profile directories; dialog: 3 providers, 2 URLs, 2 keys, 3 edits, fair; batch: 2 functions, 2 runs with any of 3 command lines (the second not the smoke run), 2 Ctrl+C and an unreadable report in the first, IDA not fair; replay: 3 inputs, 3 batches; pack: 2 versions of the index, 2 builds, 2 derived files, 1 kill, 2 seconds in one place; 3 directories, one within another's name, one not ASCII, one given in capitals too, 1 build, 2 derived files, 2 moves, 1 kill (4 of the last three together), fair | last result, profile per scope, Stop suppresses the result; list follows the fields, Refresh comes back; a complete run is whole, gaps left a trace, Ctrl+C ends and leaves no IDA but for the named exceptions; a replay hears its baseline; a whole pack is of one build, what validates is of the index and current, independent paths are repaired by one relocation, but for other spellings, and any by repeated ones |
| `free_studio_stop` (violation) | the window alone | Stop can lose its run |
| `ida_batch_metadata` (violation) | 2 functions, a limited run and a resumed one | the index lists functions it has no metadata of |
| `llm_replay` (violation) | 2 inputs, 2 batches | a replay without a record is "ok" |
| `pack_nested` (violation) | 3 directories, 2 derived files, 1 move | a relocation spoils a file made after the copy |

Why these bounds are enough. The registry's hazards need a task that ends and another
that reuses its name, two runs, and for the violation a third beside it; the safety
properties are proved for any number. Those of apply need one rename of a variable and
one move of its old name, or one navigation: two edits. A torn section swallows others
when one crash is followed by a whole section of another function and one of the same
function: 4 writes to two functions, and one more for a batch that resumes. The
validation needs two claims on one name, a replacement, and a suggestion that uses up
the replacement: four. A helper met twice at different depths, with something below it,
and the case between them: four. A stale cache needs a fill, a switch and a second fill.
Three rules make a chain and a circle of overrides, and a rewrite that overlaps two
others. A stale pack needs an edit between two steps of one load and a second call. In
Free Studio a late signal meets the next run, and its `finished` the one after: three.
Three edits in the dialog change the provider away and back with a URL edit between.
What one batch leaves for another shows in two runs over one function that is cut short
and one that is not; a smoke run, a Ctrl+C or an unreadable report in the second of two are
left out to keep the instance small, and are in the theorems. A replay needs its recording, another one between, and itself. A
pack goes stale between two builds of two versions of the index; a path that contains
another shows in two moves over three places, one spelt apart in the same. Everything ends within its bound, so
deadlock is not checked: a quiescent plug-in, a written file, a closed window or a
finished batch may stop.

Symmetry: runs in `async_overlap`, names of variables in `plugin`. No liveness property
is checked with symmetry.

## 4. Fairness

- `AsyncRunner`: a started thread that can step is scheduled (weak). The work of a
  task ends (strong, because a task may poll in between any number of times): each
  provider call has a timeout. IDA's event loop serves the requests `execute_sync` has
  queued (strong, because the user's clicks and other callbacks take the main thread
  in between), and a modal warning is dismissed. Nothing is assumed about the user
  starting or cancelling tasks. A task whose `Thread.start` failed has no thread:
  `TasksComeToAnEnd` excludes it.
- `SettingsDialog`: an expired timer fires and look-ups answer (weak; the HTTP call
  has a timeout). `RefreshComesBack` speaks about the time after the last edit.
- `IdaBatch`: only the command line is fair (weak): its waits have time limits. IDA may
  hang for ever, and `StopEnds` holds all the same.
- `KernelPack`: a tool that runs goes on (weak), and the operator relocates until the
  files name the directory (strong on `Misplaced /\ Repair`, since builds and readers may
  hold the pack in between). Kills are bounded.
- The other specifications state safety only. In `MCFrontEnds` each fairness condition is
  that of its part (the operator's only in the part `places`).

## 5. Proofs

Every theorem below holds for every value of the constants: any number of names, runs,
functions, renames, rules, writes and deaths. The invariants named after it are what its
proof adds to the property to make it inductive.

The modules follow the instances. `AsyncRunner_proofs`, `Plugin_proofs` and
`FrontEnds_proofs` extend the larger instance of their part of the system and the proof
modules of the components in it, and end with its composition: `TasksCompose`,
`PluginComposes`, `FrontEndsCompose` say that each behaviour of the instance is one of
every component's specification, so what is proved of a component holds of what TLC
explores, and no state TLC visits is one the components do not have. From this and the
components' invariants follow the type invariants of the instances, `TasksKeepTypes`,
`PluginKeepsTypes`, `FrontEndsKeepTypes`.

**Registry** (`AsyncRunner_proofs`), whatever callbacks raise: `TypeCorrect`,
`RegistryStaysConsistent`, `OneTaskAtATime`, `CancelledTasksWereAsked`,
`CancelReachesItsAim`, `CancelSuppressesDelivery`.
The inductive invariant is `IInv`. The properties are not inductive themselves: that
two runs do not overlap follows from `OwnsName` (a live run is the one its name and
its group point at), which holds only because a late second `_mark_done` belongs to a
name in `Raising` (`WorkerInv`); that a cancel hits its aim needs `MainInv` (while the
main thread is between two steps of a cancel, no other run can be registered, since
only the main thread registers).

`RunnerImplementsSlot`: the registry implements `TaskSlot` for the tasks that name a
group and do not raise, whatever the others do. Each action is mapped under `IInv`:
registering is `Enter`, the last check is `Commit`, the `_mark_done` of the run is
`Leave`, setting an Event is `Ask`; all others, and every step of a task outside the
mapping, leave the slot unchanged. The mapping reads the occupant of a slot from the
group and then the Event, as the code does.

**Preview** (`AsyncRunner_proofs`): `LeftPrototypeIsReported`, `PreviewCarriesTheProposal`.
`AssistInv` adds what is known at each section of the function: `Origin` (the type
to put back is never the temporary one), `RestoredIsGone` (after a restore that was read
back the preview is over but for its report, and the temporary prototype gone),
`ImprovedRealizes` (what was decompiled without an error passes for the proposal, whichever
type it was decompiled under).

**Session and apply** (`Plugin_proofs`): `AppliesToOneFunction`,
`RenamesAreOfTheirVariable`, `CheckedAppliesKeepNamesDistinct`, each an action property,
whatever the user edits between an analysis and its apply. `SessionInv` has
`CaptureOfTask` (a task holds one capture until the session is stored),
`SharedWasCaptured` (a captured name that two variables carry now was theirs at the
capture: unchecked renames can make two variables of one name, but not of a captured
one), and, once a session is stored (`Usable`), that its plan renames what its capture
has.

**Validation** (`Plugin_proofs`): `TypeCorrect`, `AppliedTargetsDistinct`,
`AppliedTargetsFresh`, `AppliedEntryWins`, `StatusGoesToItsClaimant`, for all
functions, suggestions and lists of replacement names that do not contain `status`
itself. Inductive are the entries of `accepted` read against `best` position by
position, `used` as the set of applied targets, and the fact that a rename that got
`status` either asked for it or belongs to a variable that no other one competes with.

**Profiles and packs** (`Plugin_proofs`). `CachesFollowTheDirectory`: the caches that
`clear_profile_caches` knows follow the active directory. Inductive with it: as long as
menu and analyses keep apart (`Apart`), data on its way into a cache is of the active
directory (`FillsFollow`). `RulesAreCurrent`: the rules an analysis gets are no older
than the files were when it asked. Inductive with it: a signature lies between the
question and now (`SignedInBetween`), and what was read or is kept under a signature is
no older than it (`ReadIsNoOlder`, `KeptIsNoOlder`), because the files are signed before
they are read. `AuditReadsOnce`: the cache that `clear_profile_caches` does not know keeps
what it was filled with first; with `CachesFollowTheDirectory` it is the only one that a
switch leaves stale (finding 7).

**Helper capture** (`HelperCapture_proofs`): `HelpersHaveEntries`, `FocusIsFirst`, for
any call graph, any choice of helpers that decompile, and all limits. `HelperInv`:
`Books` (the ledger, the queues and the names seen agree), `NothingLost` (what the case
and the captured helpers call has its entry or waits), `AllReached` (what waits was
reached from the case, as what has its entry was), `PathFirst` (a helper beside the path
is captured only when the path is exhausted: `FocusExhausted`, all that the entries
before it hand the buffer to is among these entries).
`OneKindReachesDepth` bounds finding 6: as long as all calls of the captured helpers are
on the focus path, or none is, every helper within the depth is looked at. Then candidates
wait in the order of their depths (`QueuesByDepth`, `CallsLast`: no entry is deeper than
what waits, and what waits lies one level apart), a name is therefore first taken at its
smallest depth, and what a helper calls is known at most one level below it (`Distances`);
the rest is a walk down the levels of `Within`, whose recursive function is shown to exist
first (`WithinByLevels`). `CaptureEnds` is what termination needs besides fairness: a
lexicographic measure (captures left, found calls, candidates, not yet returned) that
every step makes smaller, recursive helpers included.

**Rules** (`RuleEngine_proofs`): `EmissionsInOrder`, `ResultsDoNotCompete`,
`LosersAreAccounted`, for any rules, priorities, overrides, matches and places.
`EngineInv`: `RulesInOrder` and `Phases` (emissions stand in the order of their rules
and phases), `Shapes`, `GroupsAreWhole` (a variable, argument, or dispatcher and kind is decided
as a whole), `StrongestFirst` (each rewrite chosen precedes those pending),
`AllAccounted` (an emission is pending, chosen, a repetition, or has its entry with the
winner).

**`.forge` file** (`AsyncRunner_proofs`, with the lemmas about its text in
`ForgeFile_proofs`). `FunctionsAreListedOnce`: a function is listed
at most once while at most one writer died. `FileIsSectionMap`: where no text has an
escape (`Escaped = {}`; with escapes the file does not keep its texts, which is finding
2), the file implements `SectionMap`, through any number of deaths: a write to a whole
file is the step that puts its own text and leaves the others (`WritesPut`), never a
stutter, so that no write is lost and none hides behind an older section; a death loses
sections and changes none; and of a damaged file nothing is promised until it is whole
again. The argument goes over the shapes of a file: whole sections (`Intact`), a prefix of such a file (what the first
death leaves), and a file with one torn section, which later sections of its function
close (`OneTorn`). `FileInv` ties them to the number of deaths and says that what a
batch still has to append is not in the file (`AppendsNew`). Below it are lemmas about
the operators: the recursive function in `Starts` exists and finds exactly the matches
that do not overlap (`StartsAre`), what `FlattenSeq` returns (`FlattenedTo`,
`FlattenedBy`), and what `Upsert` makes of each shape (`ReplacesTorn`,
`UpsertAfterTorn`, `AppendsAfterTorn`). The bound on deaths in `ListedOnce` came out of
this proof: after two deaths it is false, and a trace needs no more than three functions
and seven writes (finding 3). `WholeFileIsRewritten` speaks of texts with escapes too: in a
file of whole sections a write is found as it was rendered when its function is new to the
file, and expanded when it is not, and the other sections stay. So the damage of finding 2
needs a second analysis, and that of finding 3 a writer that died.

**Free Studio** (`FrontEnds_proofs`): `ShownIsWanted`, `ProfileFollowsScope`.
`WindowInv`: `OneUnderWay` (one run at a time has not ended), `OneOutcome` (a run posts
one outcome, and then that it has finished), `StoppedInTime`, `Scopes` (what a scope
restores is the directory of the start, since no scope opens within another).
`OnlyLateThreadsLoseStop` names the one step of finding 4: as long as a run is under way,
only the `_clear_worker` of an earlier run takes its worker from the window.
`CatalogSettles`: `DialogInv` has `CatalogOfProvider` (the list is of the provider in
the fields) and `LookupsAskTheFields` (a look-up of the present generation asks what the
fields say, unless the timer is going to start another).

**Replay** (`FrontEnds_proofs`): `ReplaysAreFaithful`. What a baseline heard is still on
record (`BaselineRecorded`), which holds since only a batch that records the same input
writes over it, and that one has dropped the baseline when it began; within a batch, the
names heard are on record (`NamesRecorded`) or the baseline's (`NamesReplayed`).
`ReplayTypeCorrect` follows from the same invariant, and `OkMeansNamesHeard`: a function
called ok has an answer for its names, so the missing records that finding 8 is about are
those of candidates alone.

**Batch** (`IdaBatch_proofs`), wherever IDA dies: `StopsAreOwn`, `IndexListsExported`,
`NoSilentGap`, `CompleteMeansWhole`, `StopLeavesNone`. A function is taken once and
then under way (`Selection`; what the loop takes is a member of what is left since a set
of numbers has a least one, `FirstIsMember`), so an export touches no bundle that the
report calls ok. `Sections` follows a section to its bundle, over what a file
can begin to list when a write is cut short or a later section closes a torn one (`Begun`);
`Sound` keeps a file of whole sections whole until the run ends, so that a reader finds the
section of each function the report calls ok; a run that goes on with a torn file (`clean`
is false) has no such promise, and one of its sections may be swallowed, as in finding 3;
`Bundles` follows a summary to the export that wrote it, `Asked` a default cancel file to who asked for it, `Ending` the
exit code to the records and the end of the loop, `Stops` an IDA that outlives the kill to a refused kill or a further Ctrl+C. Two more ways
to leave IDA running are exceptions of `StopLeavesNoIda` by name, because the code has them:
the report cannot be read while the command line waits, and a Ctrl+C between `Popen` and
the `try` that handles it. `IndexCoversTheRun` bounds finding 5: the
manifest of a complete run stands beside an index with the metadata of every function this
run calls ok, and of every bundle it lists when the run was over all functions. Inductive
with it: the metadata are of what the run selected (`Describing`), and a command line that
goes on to its index without an interrupt has waited for IDA, so that the index has the
metadata of what the report says (`Indexing`).
`BatchTypeCorrect` has the types.

**Kernel packs** (`KernelPack_proofs`): `PacksAreOfOneBuild`, `ValidMeansCurrent`.
`Cleared` says what is missing at each step of a build, so that no manifest meets a
database of another build; `Hashed` that a database is of the version its hash names
unless the index raced; `Dated` that a derived file, or one in the making, that is not of
the database is no younger than it, or is evidence that met a build. `PackTypeCorrect` has
the types.
`IndependentRelocationRepairs` bounds finding 9: whatever was built, copied, killed or half
repaired before, a relocation over paths none of which is, case aside, the beginning of
another ends with the new path in every whole file, except in one that has a replaced path
in other characters than those looked for (`SpeltApart`: escaped, or in another case). What
the tool has not visited names a path it looks for, and what it has visited the new one, or
it is spelt apart (`Rooted`, `Repairing`); below it are lemmas about `Rewritten`, whose
recursive function exists (`RewritingExists`), in which only one of independent paths is
ever found (`OneIsReplaced`), and which leaves a text alone that begins with none of them
(`UntouchedStay`).

Assumptions are the named `ASSUME`s of the modules: special values are not members of
the sets they complete, bounds are numbers, callers pass a group or none, an EA has no
backslash. TLC evaluates them in the runs. The one further hypothesis of a theorem is
`Escaped = {}` of `FileIsSectionMap`.

Left to TLC: liveness and anything with `ENABLED`, which are out of the prover's reach
(`TasksComeToAnEnd`, `RefreshComesBack`, `StopEnds`, `RelocationSettles`); the file
after a second death, of which only `SectionMap` is claimed; and the violations, each of
which a theorem confines to its cause (see the findings). Every invariant and every safety
property that a passing run checks is proved.

## 6. Findings

1. **A raising callback releases a later task** (`async_overlap`). `on_success`
   raises: `_mark_done` runs on the main thread (async_runner.py:92) and again on the
   worker (:100). In between, the user can start the same action again; the second
   `_mark_done` releases it, and a further action of the group overlaps with it. Tasks
   whose callbacks do not raise never overlap, whatever the others do
   (`RunnerImplementsSlot`).
2. **The second analysis of a function changes its text** (`forge_literal`).
   forge_store.py:66 passes the section to `pattern.sub` as a template. The first analysis
   does not, and no other section is touched (`WholeFileIsRewritten`).
3. **A torn section takes its followers with it** (`forge_others`). The pattern of an
   EA reaches from the torn BEGIN to the END of a later section of that EA. After two such
   deaths a function can also be listed twice (three functions, seven writes), where
   pseudoforge_implementation_status.md:110 has one section per function. Without a death no
   write touches another section (`WholeFileIsRewritten`), and after one a function is still
   listed once (`FunctionsAreListedOnce`). In a batch this means that a run which resumes
   behind a torn section can end "complete" with a function it calls ok and no reader finds;
   `CompleteRunIsWhole` promises sections only to a run that began with a whole file.
4. **Stop can lose its run** (`free_studio_stop`). `_clear_worker` (free_app.py:806)
   forgets the window's worker whichever thread has finished. Nothing else does
   (`OnlyLateThreadsLoseStop`).
5. **The index of a resumed batch loses metadata** (`ida_batch_metadata`). The metadata
   file is written for the functions this run selected, the index is built over all. A run
   over all functions that does not resume loses none (`IndexCoversTheRun`).
6. **A helper within the depth is not captured** (`helper_depth`). The focus path is
   followed first and marks a helper seen at the deeper of its two depths
   (actions.py:2847); what it calls is lost without an entry in the ledger. It takes calls
   of both kinds (`OneKindReachesDepth`).
7. **The audit of helper edges keeps old profiles** (`profile_cache`). Its `lru_cache`
   (helper_edge_audit.py:310) is not among those `clear_profile_caches` clears. It is read
   once (`AuditReadsOnce`); the others follow the directory (`CachesFollowTheDirectory`).
8. **A replay without a candidates record is "ok"** (`llm_replay`). The release guide
   calls this a hard failure; llm_assist.py:37 makes it a warning, and does so for a
   record that cannot be read. Names are always heard (`OkMeansNamesHeard`).
9. **A relocation can spoil a file** (`pack_nested`). relocate_pack.py:322 replaces the
   old path as text; where it is a prefix of the new one, files that name the new path
   already are rewritten too, and the tool reports ok. A second relocation heals them.
   Escapes are another cause, and no repetition heals them: builder.py:89 and
   lifecycle.py:186 write a path that is not ASCII as `\uXXXX`, which the replacement never
   finds (`RelocationRepairs` fails with the first copy of such a pack when `NonAscii` has
   its segment). So is case, where a user names the old path in another one. There is no
   further cause (`IndependentRelocationRepairs`).

## 7. Abstractions and what is not modelled

- Text is a value. Rendering, prompts, parsing of pasted input, log lines and messages
  are left out, except where a property is about them (`Expand`, the markers).
- The user's edits in IDA, Qt's signal delivery and provider answers are modelled from
  how the code uses them, and marked external in the map where they are actions.
- `Thread.start` is taken to fail before the thread runs. Two processes never write
  one `.forge` file at the same time. Wall-clock names of directories do not clash.
- Free Studio's window is not closed while a run is under way: what Qt does with the
  thread is not in the code.
- A batch and a command line own their database: IDA locks it, so no second run starts
  beside a living IDA. `--dry-run` and `--no-wait` are left out of `IdaBatch`. `Popen`
  that fails starts no IDA and writes nothing, and is left out too; so is what Python's
  buffer may still write after a flush of a section that failed. Where the command line
  does leave an IDA behind (the exceptions of `StopLeavesNoIda`), no further run starts
  until that one has ended.
- Which helper calls which, and whether on the focus path, is any; a captured helper has
  at most one call of each kind in the instance.
- A rule's phase is its emission's kind (the validators refuse others), and the keys of an
  emission that was built are complete. A plan runs the engine once for each phase; the
  instance asks for several at once, as the interface allows. An override outranks every
  rival, not only the rule it names, and where all rivals override, priority decides.
- The rule packs are those of one directory; another directory would be listed after the
  files of the first were signed. A change gives a file another time or size: restoring an
  old version with its time is left out. A file that is gone is outside `PacksAreCurrent`:
  packs read after it was created, under a signature taken before, are found again once it
  is removed.
- A live answer is a new one each time; the near match of a replay (the only record of
  another input) is in the model, and harmless to a recorded baseline. A record that is
  there and cannot be read is a miss of its task: of names an error, of candidates a warning.
- A task polls for a cancel under its own name or under none that exists (`Polling`);
  which of the handlers misspell theirs is not in the model, so `NoDeliveryAfterCancel`
  says nothing about the underscores and hyphens of the case analyses.
- A switch of the profile directory that meets an analysis is in `ProfileCache`, and
  exempt from `ClearedCachesFollow`: nothing in the code prevents what it leaves.
- One file stands for all evidence packs and one for all atlas pages. A build with
  `--overwrite` and one without are told apart by what they do (remove or refuse). The
  index can be read: without it validation only warns. Two builds of one pack at a time,
  and the queries, scores and server over a pack, are left out.
- Sources marked `not_modelled` in `PROJECT.json` carry the reason: text analyses and
  renderers (several tens of thousands of lines of regular expressions over C text,
  whose properties are about text), one-shot reports, developer scripts. They are most
  of the repository's lines, so the map covers a small share of them.

## 8. Plan

Order of work, the most important behaviour first. Done: the registry, its abstract
specification, refinement and proofs; and, with their proofs, apply and type preview; the
`.forge` file; validation; Free Studio and its dialog; the batch and its command line;
helper capture; the rule engine; the rule packs, the profile caches, the recorded answers
and the kernel corpus packs.

Next modules:
1. `ActionGate`: the action handlers over the registry, with the names under which
   their work polls for a cancel.
2. `ClaimGate`, `ProjectionPolicy`: pure decision tables and orders.
3. The case-contract batch: `IdaBatch`'s loop with `HelperCapture` for every case.

Next proofs: what `SectionMap` could promise of a file with two torn sections, abstract
specifications of the session (`PluginApply`) and of a capture's ledger (`HelperCapture`)
with the refinements.
