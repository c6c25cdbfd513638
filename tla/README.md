# FrostBuild in TLA+

FrostBuild is a build engine. `frost build` elaborates a manifest into a graph
of actions, decides which of them are up to date, runs the others on a pool of
workers, and records in `.frost/` what it did. A daemon, `frostd`, watches the
workspace so that it can answer "nothing to do" without looking at every file;
a content store and a remote cache keep what actions made; a watch loop, a
language server and other front ends live around it.
This directory holds specifications of the parts whose correctness depends on the
order of things: threads, crashes, edits, events and retries, and of the functions
they rest on: elaboration, queries, plans. TLC checks them on small instances, and
TLAPS proves the safety of the engine, of its journal, caches and daemon, and of the front
ends, for every value of the constants.

Paths below are relative to `src/crates/`; `PROJECT.json` gives, for every
definition, the lines it stands for, and lists the hazards of the code, each at its
line with the properties about it. A hazard with a note is covered in part, or not.

## 1. Inventory

| Part | Code | State | Operations | Talks to |
|---|---|---|---|---|
| Scheduler | `frostbuild-exec/src/lib.rs` (`worker`, `claim_ready`, `process`), `resources.rs` | `Shared` under one mutex: ready heap, `waiting` counters, outcomes, pending, abort, `ResourceBudget`; a condition variable | claim, publish and unlock, notify, abort, return | runs action bodies outside the lock |
| Action decision and body | `lib.rs` (`preflight`, `process`, `execute`), `outputs.rs`, `discovered.rs`, `keys.rs` | the workspace, the journal's map, the store, digests settled per build | certify, hash inputs, hit, restore, run, ingest, publish, record | hash cache, store, journal, compiler |
| Attempts | `command.rs`, `process.rs`, loops of `execute` | `CANCELLED`, `RUNNING_PROCESS_GROUPS`, one child process per worker | spawn, register, wait with limit, retry, repeat, cancel | signal handler, interactive UI, child processes |
| Journal | core `journal.rs` | `.frost/journal.bin`, loaded map, recorder and writer | load, append, cut, compact | disk that tears and fills up |
| Warm path | core `hashcache.rs`, `graph_store.rs`, `stamp.rs`, exec `fast_noop.rs` | hash cache, stored graph, certificate | digest, match, save; load or compile; capture, check | stats of files, another frost |
| Content store | core `cas.rs`, `fastcdc.rs` | objects, chunks, manifests, deltas | put, materialize, collect | other builds and threads |
| Remote cache | core `remote.rs`, exec `remote.rs`, `frostbuild-reapi` | entries and blobs on a server, counters | look up, stage, publish | other workspaces |
| Daemon | `frostbuild-daemon/src/lib.rs` | `DaemonState`: dirty set, epoch, barrier counters, remembered proof and rejection; a socket | watcher callback, barrier, the no-op tests, child build; serve, leave | watcher, clients, child builds |
| Graph | core `manifest.rs`, `graph.rs`, `visibility.rs`, `paths.rs` | none | load, resolve, order, elaborate, validate, query | the workspace's files |
| Plan | exec `schedule.rs`, `estimates.rs`, cli `simulate.rs` | none | estimate, rank, simulate | journal |
| Isolation | exec `hermetic.rs`, `sandbox.rs`, `materialize.rs`, `determinism.rs` | a private tree or a mount namespace | place, run, move back, verify, run again | file system |
| Watch and launch | cli `watch.rs`, `launch.rs`, `bazel.rs` | change set, exclusions, launched process | debounce, rebuild, restart | watcher, child build |
| Language server | cli `lsp/` | documents, graph, manifest, error | open, change, save, close, requests | editor, graph store |
| Acquisition | cli `fetch.rs`, `acquire.rs`, `self_update.rs` | vendored trees with receipts, the binary | download, verify, move aside, publish | network |
| Progress | exec `progress.rs`, `report.rs`, cli `progress.rs`, `events.rs`, `build.rs` | channel, display, event log, report | emit, show, log, summarize | workers, terminal |

### What is hard about them

- **Scheduler**: a completion wakes as many workers as it unlocked actions, less the
  one it continues with; workers also sleep when actions are ready but do not
  fit; failures abort or prune. Correct when no action starts early, twice or beside
  what excludes it, when budgets hold, when no ready action is forgotten and the
  pool always ends.
- **Action body**: what a build believes about files is learnt at different times
  by different actions. Correct when a build that passes leaves what a build
  from nothing would, whatever happened before, and when the build after it
  does nothing.
- **Attempts**: signals, expiring limits and exits race. Correct when a
  cancellation reaches every process, when nothing outlives its action, and when only
  a clean first-attempt success is recorded.
- **Journal**: an append-only file that crashes tear. Correct when what was
  reported done is found again.
- **Daemon**: a proof about files is remembered while events about those files
  are still on their way. Correct when "up to date" was true of the workspace
  at some instant while the request was being served.
- **Warm path**: stats stand for contents in three caches that are captured and
  saved while files change. Correct when no shortcut makes a changed workspace look
  unchanged, and when builds of an unchanged one come to use the shortcut.
- **Store**: restores, puts, removal of corrupt files and collection interleave.
  Correct when what is restored is what was asked for and damage heals.
- **Remote cache**: partial uploads, entries of other workspaces, a server that loses
  and damages. Correct when it changes how long a build takes and nothing else.
- **Graph**: order comes from dependencies, reads come from elsewhere. Correct
  when nothing is read before it is made, nothing is lost on the way up, and
  configurations and queries keep apart or together what belongs so.
- **Front ends**: a build's writes come back as events; buffers, files and a stored
  graph differ in age; programs are killed between two renames; clients and daemons
  of different versions replace one another. Correct when each keeps its promise
  and comes to its end.

## 2. Modules

| Module | Models | Composes or implements |
|---|---|---|
| `BuildOrder` | what a build promises: producers before consumers, final verdicts, failures that propagate, exclusive actions alone | abstract |
| `Scheduler` | the worker pool, one action per critical section | implements `BuildOrder` |
| `ActionBody` | a history of builds of a small graph in a workspace that is edited and damaged | its journal is the map `Journal` maintains; its interleavings are those `Scheduler` allows |
| `Attempts` | what one running action of `ActionBody` is inside: commands, limits, loops, cancellation | |
| `Journal` | the journal's file and the engine's memory of it | |
| `Store` | the content store under concurrent clients | what `ActionBody` restores from |
| `WarmPath` | graph store, hash cache and certificate across builds | writes the certificates `Daemon` checks |
| `Remote` | two workspaces and a server of action entries and blobs | over what `Reapi` or a directory promises |
| `Daemon` | watcher, barrier, remembered no-op, certificate validation, child build | |
| `Manifest`, `BuildGraph`, `Queries`, `Plan` | loading, elaboration, questions, schedules, each extending the one before | the graph `Scheduler` takes as constants |
| `Command`, `Commands` | one command line and the program it starts | composes the next seven |
| `Watch`, `Lifecycle`, `LanguageServer`, `Isolation`, `Acquisition`, `Reapi`, `Progress` | the front ends | |
| `SchedulerProofs`, `AttemptsProofs`, `ActionBodyProofs`, `PersistenceProofs`, `WarmPathProofs`, `RemoteProofs`, `DaemonProofs`, `CommandsProofs` | theorems (section 5) | each about the module it is named after; `PersistenceProofs` about `Journal` and `Store`, `CommandsProofs` about the seven front ends |
| `MC*` | constants for TLC | `MCPersistence` takes `Journal` and `Store` one at a time |

### Scheduler

`ready`, `waiting`, `outcomes`, `pending`, `abort` and the budget are the fields of
`Shared`; `pc`, `local`, `result`, `wakes` are the locals of each worker. A step is what
happens between taking the mutex and releasing it: `ClaimNext` (the loop of `worker`
with `claim_ready`), `ReturnOrWait`, `CheckUpstream` (the first block of `process`), `Body`
(everything unlocked: the outcome is chosen), `Publish` (release, record, abort or
unlock, claim a continuation), `NotifyAll` and each `NotifyOne`. Waiting on the
condition variable is a state of its own, a notification wakes an arbitrary
sleeper, and spurious wakeups are steps. Priorities order the queue and are
constants. Actions the preflight certified are decided from the start.

### ActionBody

A content is its own digest. Steps: the preflight samples files (`Sample`) and takes the
fixed point (`Certify`); `Enter` passes the upstream check, `HashInput` settles one
digest, `Hit` and `Restore` use an entry, `Spawn` invalidates and removes the outputs,
`ReadFile` is the command opening a file, `CommandSucceeds` and `CommandFails` write,
`HashReported` ingests the dependency report, `Publish` stores outputs, `RecordEntry`
writes the journal, `BookkeepingFails` is any failure after the command. Around them:
`Crash`, `Edit`, and `Lose` (an output or a stored object is deleted or damaged). An action waits
for the producers of its declared and of its order-only inputs (`WaitsFor`, `ProducersOf`), and only
the former are in its key. What a command reads and writes is external: it reads its declared
inputs and the headers they include, which are sources or outputs its action waits for, so that
a generated header becomes an input by discovery; its outputs are a function of what it read. The history variable `racing` says
whether files are edited during builds (section 4). `journal` is a map of the recorded actions only, as the
loaded map of the code is.

### Attempts

`cancelled` and `groups` are the two statics; a call of `request_cancellation` is two
steps, the flag and the round of signals under the mutex. A worker goes through
`Begin`, `Spawn`, `Register` (insertion and flag test under the mutex), `Reap` or `Expire` and
`Kill`, `Unregister`, `NextCommand` or `AttemptOver`, then `Retry`, `GiveUp`, `Repeat` or
`Succeed`. Processes exit at any moment with any status; those in `Stubborn` may ignore
SIGTERM. The number of runs per test is an option chosen at the start, since it
turns retries off. Process numbers are not reused.

### Journal

A frame is a record or unreadable. Appending is one write and may be cut short
(`ShortWrites`) or torn by a crash; frames and the header may be damaged between
builds; the first append of a build cuts an unreadable tail; compaction rewrites the
file by rename. The history variables `runs` and `reported` say what users were told.
Only a crash of the process is modelled, not a loss of power before a flush; the
import of the legacy JSON file is left out. A dry run does not touch the journal.

### Daemon and Lifecycle

`DaemonState` is variable by variable; the watcher callback takes one event from
`events`, the queue of the operating system, which may overflow. A certificate claims
identities for the sources of the graph, for files and for the toolchain. `True` says when a
claim holds of the workspace, the sources no watcher sees left out, and the history variable
`wasCurrent` whether it has held at one instant of the request; `held` is the set of sources, watched
or not, that have each been as claimed. Validation compares sources (`CheckGraph`), then files,
one at a time, with edits, compiler switches, new certificates and delayed events in between.
What lies outside the workspace is `Unwatched`: `Watchable` asks that of files only, as the code does,
so a proof whose manifest is behind a symbolic link is remembered. The barrier writes a marker file and waits for
its event, or until its time is up. Certificates come from other builds and from the
child build. `Lifecycle` is the socket around it: `socket` says whose listener the file
names; clients go through connect, request, answer, replacement and fallback, daemons
through check, unlink, bind, watch, accept and leave, with kills and interrupts between
any two.

### WarmPath

`manifest`, `disk`, `env` and `values` are the world; `journal`, `hashcache`, `store` and
`certificate` are the files under `.frost`; each program has a graph, a `HashCache` and
locals. A file has an identity, which every write changes, and bytes. A build is answered by the
certificate (`Start`), or takes the graph from the store or compiles it (`LoadGraph`,
`Compile`), looks at files and hashes them (`LookAt`, `HashFile`), decides, restores or runs,
saves the hash cache one way or the other (`AppendFrame`, `ReplaceCache`) and certifies
(`Certify`, `WriteCertificate`). A dry run does the first half of it at the same time. A
missing file has `None` for identity and for bytes.

### Store and Remote

In `Store` a blob has an object, and if large a manifest of chunks and patches. Each
system call that another client can see the effect of is a step of `Restore` to `Spliced` or
`PutObject` to `PublishHead`; `Scan` and `Sweep` collect, `Rot` damages. In `Remote` `here`
uploads what it made, `there` has two workers that look up, stage, verify and restore
blobs they may share; `Fault` loses or damages anything on the server, `Crash` kills a build,
and any request may fail. A directory names blobs by digest and keeps the first; a REAPI
server overwrites entries.

### Manifest, BuildGraph, Queries and Plan

`Loaded` resolves labels, expands globs against `Disk`, applies `visibility` and fetched
trees, and refuses what the loader refuses; `Configure` orders targets (`Toposort`);
`ElaborateGenrule` to `ElaborateCcTest` are one action per kind of target, each with the
whole of `push_action`; `Validate` is the three checks of the end; `Again` elaborates the same
workspace for another configuration. `Queries` and `Plan` are operators over the finished
graph, and `Plan` adds the steps of `frost simulate`.

### The front ends

`Watch`: the loop of `run_watch` with its child build, debounce, exclusions and launched
program. `LanguageServer`: one action for all messages, `Handle`, and the editor around it.
`Isolation`: one action run without isolation, in a namespace or in a tree, moved back file
by file, and run again if its determinism is checked. `Acquisition`: fetches that race, with each
other and with the user's edits of the same directories, and an update; the rename that publishes a tree
may fail, and so may the one that puts the old tree back. `Reapi`: calls over a server that answers anything. `Progress`: main
thread, workers and renderer over the channel. `Commands` starts one of them; the state
of the others does not change.

## 3. Runs

| Run | Instance | Distinct states | Question |
|---|---|---|---|
| `scheduler_mixed` | 3 workers (symmetric), 7 actions: fan-out, join, one oversized, one exclusive, two tests with one slot, one precertified | 2 663 | budgets, exact counters, wakeups; implements `BuildOrder` |
| `scheduler_keep_going` | 2 workers, same graph, dry run with `keep_going`, FIFO, `test_jobs` 0 | 8 536 | failure cone, nothing dropped, nobody left asleep; under fairness every build ends and every ready action is decided |
| `daemon_edits` | a watched file, a watched manifest, and one outside the workspace that a compile may read too, 2 environments, 3 changes, 2 requests, late and lost events | 4 646 186 | answers are true and for this client, memory follows the workspace, no request hangs, rejections hit the right certificate |
| `persistence_faults` | journal: 2 actions, 3 runs each, 1 crash, 1 damage, short writes, compaction above 3 frames; store: 2 clients and a collector, 2 versions of a large output, each a patch of the other, 1 file rots | 1 858 388 | what was reported is recovered, the engine never loses a record; a restore publishes what was asked for, the store heals |
| `body_history` | a generator, a compile that waits for its header and discovers it or a source, and a link; 2 edits, 1 crash, 1 loss | 2 958 332 | equivalence with a clean build, no-op stays no-op, entries reproducible, partial outputs never used |
| `attempts_retry` | a test (retry 1, or 2 runs; limit; may ignore SIGTERM) and an action with two commands, two cancellers | 130 115 | cancellation reaches all, no orphans, what is recorded passed, limits are hard, cancelled builds end |
| `graph_and_plan` | 53 workspaces of up to 9 labels, 4 configurations in every order, 4 estimators, 2 budgets | 22 919 | reads are ordered, exports complete, configurations apart, queries right, plans sound |
| `remote_faults` | 2 workspaces, directory and REAPI layout, 1 edit, 1 fault, 2 builds | 195 196 | transparent, true entries, every build ends |
| `warm_unchanged` | builds and a dry run, 2 rules, 2 contents, 2 edits, 1 crash | 446 762 | shortcuts are true, caches tell the truth, builds settle down |
| `noop_stamp` | the same, up to the violation | 80 144 | **violated**, see section 6 |
| `front_ends` | the seven front ends, one at a time, constants in `MCCommands` | 1 140 694 | what each promises, and that it ends |
| `report_in_clean_dir` | the same, up to the violation | 6 385 | **violated**, see section 6 |

**Why the bounds are enough.** In `Scheduler` every decision depends on whether actions fit, on how many
were unlocked and on how many workers sleep; three workers and a fan-out of three give a completion that
unlocks more than it continues with while others sleep, and the demands make two of three fit. The proofs
remove these bounds for what section 5 lists. `persistence_faults` looks at the journal or at the store
in a behaviour: neither reads what the other writes, so nothing is lost. In `ActionBody` two edits give
change-and-revert and change-of-both; the compile discovers, by the version of its source, the header
the generator makes, which only an order-only input makes it wait for, or the source the generator
declares, so that both settle one digest; the loss hits any file or object. In `Journal` three runs of two actions exceed
the compaction threshold in one build and leave a superseded record in the next. In `Daemon` three
changes are an edit before, during and after a validation; two requests are one that remembers and one
that uses it; the one unwatched name is a graph source always and a file of those certificates whose
compile reads it, so that a claim is remembered with it or refused for it.
In `Attempts` two cancellers, two commands and two attempts give every pairing of a signal
with a place of the worker. In `Store` two clients and a collector meet in every pair of steps, and two
versions give a patch in each direction. In `Remote` the output that depends on the source alone is a
blob both actions may need, so that two workers stage one file, and the earlier upload gives the
directory an entry to keep. In `WarmPath` two edits are a change before and one during a capture, or an
edit with a dry run between. The workspaces of `Plan` vary one oddity at a time over a diamond of
libraries on a generated header, a sharded test and a package; the elaborators have no state but the
targets before, which the diamond and the four configurations give them. In the front ends each bound
lets every fault meet every step: a kill and an act of the user or the project between any two, two
racing processes where the code has any.

`CHECK_DEADLOCK FALSE` is set for the daemon and the front ends, whose users may stop
asking, and for the bounded builds of `Remote`, `WarmPath` and `Plan`; the other
modules end in an explicit final step, or in builds that can always be started again.

**Bounds in guards**: `MaxEdits`, `MaxCrashes`, `MaxLosses` (`ActionBody`), `MaxRuns`, `MaxCrashes`,
`MaxDamages` (`Journal`), `MaxChanges`, `MaxRequests` (`Daemon`; an overflow is the last
change), `MaxFaults`, `MaxCollections`, `MaxVictims` (`Store`), `MaxEdits`, `MaxFaults`, `MaxBuilds`
(`Remote`), `MaxEdits`, `MaxCrashes`, `MaxPlans` (`WarmPath`), `Planned` (`Plan`: the workspaces that
are scheduled), `MaxEvents` (`Watch`), `MaxPolls`, `MaxMishaps` (`Lifecycle`), `MaxTurns`,
`MaxUnread` (`LanguageServer`), `MaxKills` (`Isolation`), `MaxActs`, `MaxFaults`
(`Acquisition`), `MaxCalls` (`Reapi`). `Scheduler`, `Attempts` and `Progress` have none.

## 4. Assumptions

*Fairness.* Threads that can take a step eventually do, as an operating system guarantees:
the workers of `Scheduler` (a sleeper has no step of its own, so a lost wakeup shows), the
workers, delivered signals and a begun cancellation of `Attempts`, the clients of `Store`,
the workers and builds of `Remote`, the programs of `WarmPath`, and in `Commands` the watch
loop with its child, clients and daemons, and the threads of a build. Commands end, in
`Scheduler`, `Remote`, `WarmPath` and `Commands`: time limits and `CommandsStop` justify it
for actions that have one. In `WarmPath` builds keep being asked for, which is what
"settles down" is about. Nothing is assumed of users, networks, watchers, collectors and
faults, and no canceller is obliged to begin. `RequestGoesOn` needs no fairness: it says that the serving
thread of the daemon has a step at every point of a request, since a barrier gives
up after half a second.

*Order.* In `ActionBody` a command opens an output of another action only if its own declares it or has it
as an order-only input (`IncludeAssumption`): `graph.rs` gives a compile the outputs of every generator it
depends on. A header that is found by luck, made by an action that nothing orders before its
reader, is outside, and so is one generated file that includes another.

*Edits.* In `ActionBody` either sources are edited between builds only, or (`racing`) also
during them, by contents never seen before and never in a file that a running command
reads before its digest is settled; a file that is changed and changed back while a build
reads it cannot be told by comparing contents, and an edit before a late digest is
section 6's. `WarmPath` and `Remote` have the same exclusion. In `WarmPath` moreover the
manifest is not edited while a build loads it: between `Manifest::load` and `save_graph` the
code takes stamps of what it has not read (`graph_store.rs:395`). Two engines that write
one workspace are left out there. In `Acquisition` the user edits the manifest and the vendor directories at
any moment, fetches running or not; `TreesAreKept` names what that and a fault may cost: a tree that
was aside when its fetch was killed or when the rename that restores it failed (`lost`), and a tree that
came between the look at its ownership and the move (`overtaken`). In `Daemon` graph sources are edited
like files, watched or not; `HitsAreTrue` claims of an unwatched one only that a validation compared it, and
section 6 says what that costs.

*Digests and stats.* Two contents with one BLAKE3 digest do not occur. Every write changes
the stat triple: a rewrite within one timestamp granule that keeps size and inode is seen
by nobody. *One build at a time per workspace*, which `docs/33_scale_and_recovery.md`
asks of its users. *Names*: no profile is called like a platform (section 6), and trees of
`Isolation` hold the files that `MCCommands` lists.

## 5. Theorems

Each theorem holds for every value of the constants that satisfies the named assumptions
of its module; TLC evaluates those on every run. Eight modules hold them.

| Module | Theorems, with the property of a run in brackets | Free |
|---|---|---|
| `SchedulerProofs` | `AdmissionIsSafe` (`BudgetRespected`), `WorkAlwaysGoesOn` (`WorkGoesOn`), `FailuresPropagate` (`NothingBuiltOnFailure`), `PoolAlwaysAgrees` (`PoolAgrees`), `PoolImplementsBuildOrder` (`ImplementsBuildOrder`); `TypeCorrect`, `RunsAtMostOnce`, `ProducersDecidedFirst`, `OutcomesNeverChange`, `NothingStartsAfterAbort`, `BudgetsHold`, `ExclusiveRunsAlone`, `NoActionDropped`, `PoolStaysAwake` | graph, priorities, demands, limits, workers, both modes |
| `AttemptsProofs` | `NoProcessEscapes` (`ProcessesAreHeld`), `OnlyEarnedResults` (`ResultsAreEarned`); `TypeCorrect`, `CancellationIsComplete`, `NothingOutlivesItsAction`, `OnlyPassesAreRecorded`, `AttemptsStartFresh` | workers, cancellers, commands, retries, runs |
| `ActionBodyProofs` | `BodyInvHolds`, `RecordsAreAlwaysTrue` (`RecordsAreTrue`), `CleanBuildAlwaysHolds` (`CleanBuildHolds`) | graph, declared and order-only inputs, contents, includes, what commands make, edits, crashes, losses |
| `PersistenceProofs` | `JournalInvHolds`, `ReportsAlwaysSurvive` (`ReportsSurvive`), `WritesNeverCost` (`WritesCostNothing`); `StoreInvHolds`, `RestoredIsAlwaysAsked` (`RestoredIsAsked`) | actions, runs, crashes, damages, compaction; clients, blobs, layouts, faults, collections |
| `WarmPathProofs` | `WarmInvHolds`, `CachesAlwaysTellTruth` (`CachesTellTruth`), `UpToDateIsAlwaysTrue` (`UpToDateIsTrue`) | rules, contents, what commands make, edits, crashes, dry runs |
| `RemoteProofs` | `RemoteInvHolds`, `EntriesAreAlwaysTraces` (`EntriesAreTraces`), `RemoteIsAlwaysTransparent` (`RemoteIsTransparent`) | workspaces, contents, servers, edits, faults, builds |
| `DaemonProofs` | `HitsAreAlwaysTrue` (`HitsAreTrue`), `RejectionsAreOfWhatWasRead` (`RejectionIsOfWhatWasRead`) | files, graph sources, closures, what is watched, environments, identities, changes, requests |
| `CommandsProofs` | `CommandsInvHolds`, `OneProgramAlways` (`OneProgram`), `VendoredIsAlwaysPinned` (`VendoredIsPinned`), `UpdatesAlwaysGoForward` (`UpdatesGoForward`), `IsolationAlwaysHolds` (`IsolationHolds`), `VerdictsAreAlwaysTrue` (`VerdictsAreTrue`), `RequestsAreAlwaysSound` (`RequestsAreSound`), `EveryoneIsAlwaysTold` (`EveryoneIsTold`), `ClientsAreAlwaysServed` (`ClientsAreServed`), `EditorIsAlwaysRight` (`EditorIsRight`) | manifests, sources, events; fetchers, declarations, archives, releases, edits, failing renames; actions, programs, trees; clients, daemons, requests; labels, texts, edits; blobs, sizes, limits, uploads; closures, workers, results; kills |

*The assumptions.* `Scheduler`: a finite graph, producers earlier in a topological position
(`toposort_targets`) and precertified actions closed under producers; demands and limits are natural
numbers, limits positive. `Attempts`: finite sets, at least one command. `ActionBody`: a finite graph
without a cycle through declared or order-only inputs, no file with two producers, headers that include
nothing themselves and are sources or outputs their reader waits for. `Journal`: a finite
set of actions. `Store`: every blob has a chunk. `Daemon`: closures are sets of files, what is unwatched are
files and graph sources, the certificate is none of either. `Remote` and `WarmPath`: nothing but that `None` is no content (and no time).
`ActionBodyProofs` moreover assumes, in each statement, `CommandsWriteContents`: a command does not write
`Garbage`, the mark of a half-written file, which stands for bytes no complete run writes. The front
ends: `None` is none of the values it stands beside; declarations have the fields of a `build_fetch`, and
an archive tells one version of the binary in it; there is a daemon to start, and clients ask for one of
the five commands; a label is declared in one manifest; the files of an action and of a program are
paths. An action has an output, and its dependency report is in no directory it owns, which the loader
checks; no path is a file and a directory (`ManifestAssumption`). A program is described by what it makes
and what it litters, and litters nothing the action owns; a file it renames gets a name of its own
(`ProgramAssumption`). Sizes and limits of blobs are natural numbers (`ReapiAssumption`). A build has a
worker, its closure is finite, and what an action comes to is a result (`ProgressAssumption`).

### The arguments

**`Scheduler`.** `ProducersFirst` is not inductive: whether an unlocked dependent may
be queued depends on its counter. `OrderInv` adds that the counter of an undecided
action is the number of its undecided producers, that a worker past its claim holds
an undecided action nobody else holds or queues, that an abort has emptied the queue, and
that precertified actions are decided. `BudgetInv` adds `Accounts`, that the four
counters are the tallies of the set of actions in flight; a tally (`Total`) is the size of the set
of units that are held, so what claim and release do to it are facts about cardinalities, and
clamped demand makes every single action fit an idle budget (`IdleFits`). `FailureInv`
adds that an action past its upstream check has no bad producer. `NeverAllAsleep`
follows from `BudgetInv` and a second strengthening, that somebody is awake whenever
something is undecided: were all asleep, nothing would be in flight, so the first
undecided action in topological order would be ready (`NothingDropped`) and would
fit, and a worker that saw it would not have gone to sleep. `PoolInv` adds that `pending` is
the number of undecided actions and `NoLostWakeup`, that queued actions are matched by workers
awake or wakeups owed unless somebody waits for budget: a completion that does not wake everybody
is neither the last nor blocked, and owes a wakeup for each action it leaves queued
(`PublishWakes`); a claim takes from both sides at once. The refinement maps the
actions in flight, the outcomes and the abort flag; a claim is `Start`, a
completion that also claims its continuation is one step of `BuildOrder` that does both.

**`Attempts`.** For the signals, `SignalInv` adds that a worker that waits is registered
and that a cancellation that began has set the flag: a process is then either seen
by the canceller, which signals all that are registered, or registers later and is
signalled by the check that follows, since the flag was set before. For the loops,
`LoopInv` relates the attempts the code counts to those that happened: while one is in
progress, `attempts - 1` have failed and `completed - 1` passed, and the only
output on disk is its own. `OnlyPassesAreRecorded` follows because `Flaky` looks at
`attempts` and the second loop at `completed`; it keeps the exception `cancelled`, without
which it is false (section 6).

**`ActionBody`.** The properties speak of records and finished builds; what makes them true is
spread over every step before. `BodyInv` says, part by part, that a digest that is settled, sampled or
gathered was the file's content and is unless a source was edited since (`DigestInv`); that
nobody who has begun waits for an output whose producer is not done (`OrderInv`), and that what is gathered or
read is a source or was waited for (`GatherInv`; for what earlier runs discovered, `EntryInv`), so that a
write disturbs no digest, that of a discovered header included; what an action has gathered at each phase (`GatherInv`); that what a
command read and what was digested are the same, or in a racing history that the digest
is the older (`CommandInv`, `RaceInv`: contents are numbered, so "older" is an order); that a
record has a witness, the map that one run of its command read (`TruthInv`); and that the record of
an action that ended well fits the workspace while it is quiet (`VerdictInv`). The preflight's
certified set is a fixed point over declared and order-only inputs, so a certified action's inputs,
discovered ones included, are sources or outputs of certified ones.
`CleanBuildHolds` then needs that the outputs of a passed build are those of a build
from nothing: `Built` is characterised by an equation per action, and on an acyclic graph that equation
has one solution (`BuiltIsUnique`, by the least action, in the graph's order, that two solutions
differ in).

**`Journal`.** What can be read is a prefix that ends before the first unreadable frame
(`ReadableIsPrefix`), and the decoder finds the last record of an action in it (`DecodedIsLast`); both
come from a least element of a set of positions. `WriterInv` says where the writer is relative to the
prefix: a build has either not opened the file and still holds the extent it loaded, or has opened it,
and then the file is readable to its end or a write fell short in this build. `MemoryInv` adds that the
engine's maps are never behind the file and equal it for every action not hidden behind a torn frame.

**`Store`.** `StoreInv` says that a client that restores or puts has a blob, that what it cuts or splices are chunks,
and that a call ends in "good" or without publishing anything: a copy is looked at after it is made, and a splice
only uses chunks it has looked at, so that decay and the collector can make a restore miss and no more.

**`WarmPath`.** An identity (time, size, inode) is given once: a file that changes gets one that
none has had, or none. So "`s` was the identity of `f` when it held `b`" (`Identifies`) holds for
ever once it holds (`IdentityStays`), and everything kept under `.frost` is stated with it. Every entry of
the hash cache, on disk, loaded or about to be saved, identifies (`CacheInv`), because the stat is taken
before the bytes are read. A stored graph is that of the sources it names (`GraphInv`). A
certificate is an identity of the source, one of the output, and a result that fits
both (`CertInv`): the digests that verify it are found after the identities were captured, so
each says what the file held at its captured identity or at a later one, and in the latter case
the certificate will never hold again (`VerifyInv`). The record it rests on is what the command makes of
its key (`RecordInv`), because the source does not change between its digest and the command
(`SourceInv`, an assumption of section 4). `TruthInv` carries that through the build for as long as nothing was
touched. The stamp values of a certificate are some values, not the present ones: with
the present ones `CertInv` is not inductive, which is the finding `noop_stamp`.

**`Remote`.** An entry of the server is a trace: the inputs it lists and what the action makes of them.
`RemoteInv` adds what a worker has in hand at each step: what it looked up or made fits the inputs
its build has settled, and those still are the tree's until every command of the build has read
them (`TreeInv`). What is fetched is verified by digest before it is kept, so nothing has to be said of the
blobs: a fault of the server can make an action run, never change what it leaves.

**`Daemon`.** A remembered proof is true up to changes that are on their way. `MarkersInv` says that the
marker of the current barrier is at most once in the queue and not after it was seen; so a
change queued before it (`Unsettled`) is delivered before the barrier is passed, and drops the memory.
`ProofInv` and `ValidInv` say of the request being served that it has seen an instant at which its claim
held, or that a change is in front of its marker, or that the epoch has moved, which is what it
checks last. `GraphInv` follows the sources through the validation: each that was compared was as claimed at
some instant, and one that is watched still is, or its change is on its way, or the epoch has moved; of an
unwatched one nothing more can be said (section 6). The watcher's overflow
is the exception `missed` in the property itself (section 6).
`RejectionInv` ties the claim that was read to the stamp that was taken, both before the validation.

**`Commands`.** The front ends share no variable, so `CommandsInv` is the conjunction of one invariant
each, and a step of one is a stutter of the others (`OneStep`). *Watch*: `running` counts what `dev` says
is alive, and `WatchReplaces` shows that `replace_dev_process`, the only place that starts a program, has
stopped the one before. *Acquisition*: a tree with a receipt holds what the archive of that receipt
holds, unless edited; one without is its user's, and no fetch works on it unless it came after the fetch
had looked (`Spares`, with the exception `overtaken`), although the decision is old when it is used, since
only fetches make receipts; and what was vendored when the fetches began, or was put there since, is there
or is the backup of a fetch that has moved it (`IsHeld`), which is where a kill between the two renames and
a restore that fails are exceptions (`lost`). *Isolation*: outside the paths an action is answerable for the workspace is
the one the build began with, or differs by what was written through a hard link; then `verify_links`
fails the action, so nothing is moved back. `SeesAlike` shows that the namespace and the tree show the
same files, from what prefixes of paths have in common. For the verdicts `VerdictInv` follows the two
runs: in the first, files the action owns are nowhere until the program makes them, in the tree or in the
workspace, and each was made from files as they were saved (`FirstSound`); in the second, a program that
makes other bytes has written them to every path it keeps, or a file of another name lies beside each
that it renames, and moving files and directories back one by one carries that over (`SecondRun`), so the
comparison with `first` cannot come out equal; and a report is in the tree, unpublished, or in the
workspace, rebased (`Reporting`), except one that a directory published later replaces (section 6).
*Progress*: an event is in the channel, and in the log and the display when it was received, so
everything is stated of the log and the channel together: `PoolInv` says what each worker holds, which no
other holds or is to continue with; `Said` that the log tells of exactly the actions that began and were
reported, each once and in order, that a row of the live display names an action at work unless its end
is still in the channel, and that a line of the plain one is a result that was received. A receive moves
an event from one side to the other; a step of a worker adds its events and changes its place at once.
Builds that are answered by the certificate or by the preflight alone have three events, whose few states
`CertificateInv` and `FullInv` list. *Reapi*: what a call has to store is on the server or is still to be
sent, and the counts of both add up (`Covers`); a batch ends before the first blob that does not fit, and
what its blobs come to is not more than what `batch_pairs` counts for them (`BatchFits`). The sum is a
recursive function; that it exists, and grows with what is added for each blob, is shown by the least
number of blobs for which it would not. *Lifecycle*: unless two daemons raced, at most one starts at a
time, a daemon that lives is the one whose listener the file names, and none lives while another removes
the file and binds its own (`Reachable`). *Language server*: the last message about a document on its way
to the server leaves it with the editor's copy, or there is none and it has it already (`Follows`); what
is shown is of the copy and the error it has (`ShownIs`); a stored graph is of files without fault
(`WarmIsRight`); and what is known of the project is what the files say, unless a reload is due
(`ProjectIsRight`).

### Only model-checked

Liveness under fairness (`WorkIsDone`, `CommandsStop`, `Heals`, `BuildsEnd`, `SettlesDown`, `ComesToRest`,
`CommandsEnd`) and `RequestGoesOn`, which speaks of ENABLED, are beyond the prover. `Queries`, `Plan` and
the elaboration under them (`ReadsAreOrdered`, `ExportsReach`, `ConfigurationsApart`, `QueriesAreRight`,
`PlanIsSound`) are recursive functions and folds over trees of data that the elaborators build: what they compute
would need induction over that data. Every other invariant and action property of a run is stated by a theorem.

## 6. What the code does otherwise than it says

**A stamp the certificate does not hold** (`noop_stamp`, `frostbuild-exec/src/fast_noop.rs:54`).
`stamp.rs:12` says that a new commit should rebuild the binary that embeds its SHA. The
certificate records no stamp values, so that after a commit a default build is answered
"up to date".

**A report in a directory that is cleaned** (`report_in_clean_dir`, `frostbuild-exec/src/hermetic.rs:140`).
`hermetic.rs:129` says that a path inside the private tree, in a dependency report, is moved back as the
workspace file of the same name. `publish_hermetic_outputs` writes the rebased report first and then replaces
each clean directory by that of the tree, the report in it included: what is recorded names files of
a tree that is removed, and an edit of a header that only the report names rebuilds nothing. The loader keeps
a report out of owned directories only (`manifest.rs:1472`).

The following were met while modelling. The models have the code's behaviour; where a
property would fail for it, its statement names the exception, or a guard named in
section 4 leaves the case out.

*Engine.*
- A header reported by the compiler is digested after the command (`discovered.rs:63`).
  Edited in between, its new digest is recorded with the old object, and every later
  build calls the stale object current (`docs/16_action_key_audit.md:4`).
- When an append to the journal fails half-way, the writer stays open and later records go
  behind the torn frame, where no load finds them (`journal.rs:174`): actions reported
  executed run again.
- With `--runs-per-test N` a cancellation between two runs ends the loop without a failure,
  and the test is recorded as passed (`lib.rs:1214`, `docs/06_manifest_spec.md:345`).
- `DESIGN.md` (3.3) says failed actions have partial outputs removed; `execute` does not when a
  step after a successful command fails (`lib.rs:1270`). The outputs are not recorded.
- `frost test --affected` plans with a dry run, which restores outputs.

*Daemon.* `watchable` is computed from the certificate's files alone (`fast_noop.rs:223`). The graph's sources are
covered by its fingerprint, which a validation computes through symbolic links (`graph_store.rs:189`), and neither
`check_watch_proof` nor an event covers them afterwards. Once a proof is remembered, an edit of a manifest
that is linked from outside the workspace goes unseen, and the daemon answers "up to date" from memory until
something inside changes, although `docs/13_issue_implementation_matrix.md:11` says that symlinked evidence stays on
the complete check: `HitWasCurrent` claims of such a source only that a validation compared it. An overflow of the kernel's queue arrives as an event of kind `Other`, which
the callback ignores (`frostbuild-daemon/src/lib.rs:238`, `README.md:545`): the remembered proof
survives the lost edit. Two daemons that start at the same time may leave one that
nobody can reach (ghost `raced`); `daemon restart` can fail because the old listener is
still there after its answer; a daemon killed in a build leaves its child running
while the client builds again.

*Graph.*
- `toposort_targets` looks at `deps` only: an input that is another target's output, without a
  dependency, gives a closure out of order (`graph.rs:1386`) or an accepted cycle, on which
  the scheduler hangs and the critical path may loop (`schedule.rs:216`).
- A platform section that names a dependency elaborated later panics (`graph.rs:429`,
  `docs/06_manifest_spec.md:737`); its sources and dependencies are not prefixed, resolved or expanded in packages,
  and make `query.rs`'s remark false that every profile has the same shape.
- Ownership of `output_dirs` is not compared between targets (`docs/06_manifest_spec.md:540`).
- `allpaths` says `truncated` when there are exactly `limit` paths (`graph.rs:229`).
- `validate_volatile_stamps` looks at direct producers of compile inputs only.
- Trees are not disjoint when a profile has a platform's name (`docs/guide/reference/cli.md:225`).
- `${deps}` hands tools the stamp of a tree; `${stamp.X}` in a direct test's arguments is
  accepted and never collected; a diamond of static libraries is linked in preorder.
- `over_critical_path_pct` compares a makespan over recorded durations with a critical path
  over the estimator's own.

*Caches.* A directory keeps whatever has a blob's name, so a damaged upload stays.
`save_graph` may stamp a manifest edited after it was read (`graph_store.rs:395`).

*Isolation.* The namespace mounts the whole parent directory of outputs, so it shows
undeclared siblings there that the tree hides (`hermetic.rs:12`), and for an output at the root
the whole workspace. An include directory below `.frost` counts as placed beside an input at
the root. The determinism rerun does not remove outputs first. A kill between run and
`verify_links` leaves an input that was written through a hard link; a user's edit of a
linked input is blamed on the action.

*Acquisition.* If `publish_tree` cannot put the old tree back (`fetch.rs:186`), the scratch directory's drop
deletes it, and a kill between the two renames leaves no tree: both are modelled, and are the exception `lost`
of `TreesAreKept`. `fetch_one` looks for ownership before the download (`fetch.rs:97`) and `publish_tree` moves aside
whatever is there after it, so that a directory a user creates in between is replaced and deleted, although
`docs/06_manifest_spec.md:144` says that frost refuses to: the exception `overtaken`. Two concurrent updates with a release between can go back.

*Front ends.*
- Watch: `output_dirs` are not among the exclusions, which are refreshed after a success only: a
  new output can rebuild for ever (`watch.rs:3`); `stop_dev_process` leaves the group of a
  launcher that has exited; watcher errors and overflows start no build.
- Language server: a cycle's message quotes nothing and is shown in no document; `definition`
  reads the disk with positions of the buffer; a manifest outside the workspace is taken
  for the root's.
- REAPI: `write_bytestream` ignores `committed_size` (`client.rs:8`); the time limit of Execute is
  per message; a blob within the overhead of the limit travels alone.
- Progress: the live display may go backwards and end below its total; a dependent's start may
  be logged before its producer's finish; an abort leaves undecided actions without an event;
  a failing save leaves a stream without `build_finished`; a test run with nothing affected
  writes no file (`docs/33_scale_and_recovery.md:219`); a cancelled build whose actions all passed ends with 130 and
  `success: true`.

## 7. Plan

Done: everything in section 2, and the theorems of section 5. What could be added:

1. For `Queries` and `Plan`, lemmas about the operators that are not recursive (visibility, filters,
   budgets); the rest stays with TLC.
2. In `Isolation`, actions with `preserve_outputs`, for which a rerun may see what the first run left.

### Not modelled

Probing of compilers, options, phases and the parser of coverage notes have no state. The
formatter, the linter and the journal export turn text into text. Generators and importers
(`dotnet`, `npm`, `ninja`, `init`, `compdb`, `ide`) write once what they read. Benchmarks measure.
Left out of what is modelled: TOML and command-line syntax, wording and layout, archive
formats and transport, `preserve_outputs` across builds and tests that are never cached in
`ActionBody`, the Windows variants of process groups and pipes, a loss of power before a
flush, reuse of process numbers, a full disk under the event log, and the HTTP remote,
which has the directory's layout. Two builds in one workspace at the same time
are outside what the code promises.
