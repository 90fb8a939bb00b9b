# Supply-Unchained in TLA+

Supply-Unchained scans a PyPI release before it is installed. One scan joins
four layers (OSV, custom static rules, Bandit, metadata scoring) into a verdict
`safe | warn | block`; a watcher scans what appears in PyPI's feeds and queues
what looks malicious for a person; a pip proxy scans before it streams a file.
This directory holds TLA+ models of that code, the configurations that check
them with TLC and the proofs that TLAPS checks. Every definition is translated
from the Python source; `PROJECT.json` gives the lines of each one.

- [Inventory](#inventory)
- [Modules](#modules)
- [Runs](#runs)
- [Proofs](#proofs)
- [Findings](#findings)
- [What is not modelled](#what-is-not-modelled)
- [Plan](#plan)

## Inventory

The program is asyncio code in one process. Coroutines interleave only at
`await`; what runs in `asyncio.to_thread` (SQLite, extraction, analysis) really
runs beside them and is not stopped when the awaiting task is cancelled.

| Component | State | Operations | Talks to | Correct when |
|---|---|---|---|---|
| Watcher cycle, `watcher/runner.py` | one cycle's items, tasks, semaphore | `run_cycle`: look up, order, cut, scan, mark, queue | feeds, pipeline, store | every item is accounted for; nothing is lost, queued twice or starved |
| Watch tables, `api/storage.py` | `watch_seen`, `watch_queue` | `unseen`, `seen_names`, `mark_seen`, `enqueue`, `enqueue_removed`, `queued_records`, `update_queue` | watcher, reviewer | one row per reason and name |
| Watch process, `cli/su_scan.py watch` | none | cycle, sleep, stop, restart | watcher | a stop loses nothing |
| Feed reader, `watcher/feed.py` | none | two RSS requests | PyPI | a broken feed costs only itself |
| Shared context, `common/pypi.py PackageContext` | cached project JSON, extracted tree, two locks, temporary directory | `project`, `extracted_path`, `archive_names`, `aclose` | PyPI, threads | fetched once, one answer for all, nothing left on disk |
| Download and extraction, `common/pypi.py` | buffer, files | `download`, `extract` | PyPI, disk | limits hold |
| Pipeline, `api/routers/scan.py run_scan` | `layer_errors`, results | four layers under one `gather`, tagging, `_decide`, storing | all of the above | "could not look" is never "looked and clean" |
| Scoring, `scoring/` | none (pure) | `build_signals`, `compute_score`, features | pipeline | more evidence never helps a package |
| Collector, `scoring/collector.py` | none | `collect` | context | a failure is a note, never a fact |
| Static driver, `engine/static_analyzer.py` | none | `analyze_package` | context, rules | unreadable files are told |
| Static rules, `engine/rules/` | none (pure) | one function per rule | driver | it looks at what runs, follows a decoded value, and blocks what an installer would run |
| CVE matcher and CWE tagging, `engine/cve_matcher.py`, `api/cwe.py` | none | one query, one request per vulnerability | OSV | a failure is told; tagging stops nothing |
| Scan history, `api/storage.py scans` | table `scans` | `insert`, `finalize`, `recent`, `get` | pipeline, dashboard | a record is whole and carries its id |
| Proxy, `api/routers/proxy.py` | none | rewrite the index, gate a file | pipeline, PyPI | nothing unscanned is streamed |
| HTTP application, `api/main.py` | shared client, body counter | lifespan, body limit | all routers | one answer per request |
| CLI, `cli/su_scan.py` | none | check, install, check-file, history, guard, watch | API | exit codes |
| Crosscheck, `watcher/crosscheck.py` | none | one-shot report | OSV, queue | reads only |

What is hard here, and hardly reached by a test:

- **Interleaving**: two tasks of one cycle read the queue before either writes;
  three layers meet a failure in any order, and the order decides who is told
  what.
- **Threads that outlive their task**: an exception in one layer leaves the
  `async with` while another layer's thread still writes the tree.
- **Two statements that belong together**: `mark_seen` then `enqueue`,
  `insert` then `finalize`, a `SELECT` before an `INSERT`.
- **Partial failure**: each layer may fail alone and the scan still answers;
  what is lost must be told, and must not harden the verdict.
- **Limits**: the cut of a cycle, the semaphore shared by two kinds of task with
  two disciplines.
- **Boundaries**: weights, rounding, cap and floor in one file, thresholds in
  another.

`PROJECT.json` lists each of these at its line under `hazards`, with the
properties that would catch it.

## Modules

| Module | Models | Extends or instantiates |
|---|---|---|
| `OnceCell` | abstract: a value computed once and handed to every caller | |
| `PackageContext` | the shared context of one scan, its layers and threads | `OnceCell` (twice, with refinement mappings) |
| `Watcher` | cycles of the watcher, the two tables, the reviewer, stops | |
| `Scoring` | `compute_score` and `_decide` as operators | |
| `Verdict` | a walk over all inputs of those two | `Scoring` |
| `RunScan` | `run_scan` from the request to the verdict | `Scoring`, `PackageContext` |
| `ScanService` | who asks for scans and what they do with the answer; the table `scans` | |
| `Features` | the release burst; what is compared of two names | |
| `InstallTime` | which code the rule `install_time_exec` looks at | |
| `Decoders` | how a decoded value is followed to `exec` | |
| `Limits` | the limits of download, extraction and request body | |
| `Budgets` | which files the static layers read, skip and report | |
| `PipArgs` | what `su-scan guard` makes of pip's arguments | |
| `Hooks` | how overridden commands and `.pth` files are graded | |
| `MCAlgorithms` | a walk over inputs of the seven modules above | all seven |
| other `MC*` | the instances TLC checks | |
| `PackageContext_proofs`, `Watcher_proofs`, `ScanService_proofs` | theorems about the module they are named after | that module |
| `Scoring_proofs` | lemmas on the score and the decision | `Scoring` |
| `Verdict_proofs` | theorems about `Verdict` | `Verdict`, `Scoring_proofs` |
| `RunScan_proofs` | theorems about `RunScan` | `RunScan`, `Scoring_proofs`, `PackageContext_proofs` (instantiated) |
| `Algorithms_proofs` | theorems about `Features`, `Limits`, `Budgets`, `PipArgs`, `Hooks` for inputs of any size | `MCAlgorithms` |
| `Reaching_proofs` | theorems about `InstallTime` and `Decoders` for any number of functions | `Algorithms_proofs` |

### PackageContext

A *task* is one layer. Its `pc` names the suspension point it is at, and an
action is the code between two of them:

| Action | Code |
|---|---|
| `ProjectMiss`, `FetchReply`, `ProjectHit` | `project()`: the first caller sets `_loaded`, awaits `fetch_project` under the lock; later ones take what was stored |
| `ArtifactMiss`, `ArtifactHit` | `extracted_path()`: the first caller sets `_extract_done` before it awaits |
| `AfterProject` | inside `_download_and_extract`: select the artifact and start the download; in the collector: stop, or go on to `archive_names` |
| `Downloaded`, `DownloadFails`, `Unpacked`, `UnpackOrphaned` | the download, and the extracting thread, which ends even when its task was cancelled |
| `ReadDone`, `ReadOrphaned` | the analysing threads |
| `Leave`, `Escape`, `SiblingRaises`, `Cancel` | the four ways to leave the `async with`; each runs `aclose` |
| `Finalize` | `tempfile`'s finalizer, external |

A reply is a class of replies: the version has files, has none, is unknown, the
project is missing, a `PyPIError`, or an exception outside that hierarchy
(`"broken"`). Which waiter an `asyncio.Lock` serves next is left open, which
includes its FIFO order. The fairness is weak fairness of each layer, of leaving
the block and of the orphaned thread: the event loop runs what is ready, httpx
has a timeout on every request and worker threads return. Failures, `Ctrl-C`
and a sibling's exception are not fair.

### Watcher

One *item* is a release of the updates feed or a name of the new-projects feed.
The tasks of a cycle go through the phases of `run_cycle`: the lookups
(`resolve_latest`) of new names under the semaphore, one `gather`, the ordering
and the cut, the scans under the semaphore, one `gather`. Each store call is an
action of its own (`MarkSeen`, `SelectRemoved`, `InsertRemoved`, `ReadQueue`,
`Enqueue`), because each is a separate statement in a worker thread: `sqlite3`
opens a transaction before an `INSERT` and not before a `SELECT`. Lookups keep
their permit through the store calls and scans give it back before them, as in
the code. `Review` is the PATCH of the reviewer; `Stop` ends the process at any
step and `Restart` starts it again with the tables as they were. What a scan
returns is any answer it may return (`RunScan` shows which ones those are).
Fairness is weak fairness of `Progress`, the steps of a running cycle, for the
same reasons as above; feeds, reviewers, stops and restarts are not fair.

### Scoring and Verdict

`Scoring` holds the weights, the thresholds and the two functions; the
similarity is a number of hundredths, because `typosquat_score` is rounded to
two decimals, and `RoundedShare` is Python's `round`, a half to the even
neighbour. In IEEE doubles `30 * s` is exact at the only two halves in range
(0.85 and 0.95), so the hundredths lose nothing. `Verdict` is a state machine
only so that "one piece of evidence more" is a step: `Monotone` is then an
action property over all pairs of neighbouring inputs.

### RunScan

`RunScan` declares the variables of `PackageContext` again and instantiates it,
so that every step of a layer is literally a step of `PackageContext`. A layer
that ends also *reports*: findings, signals and what it appends to
`layer_errors`. `truth` is what the release is really like. The code never
reads it except through what PyPI and OSV answer (`Truthful`, `CveAnswers`,
`Analysed`), so `TrueVerdict`, the verdict of a scan in which nothing fails, can
be compared with the one given. An error's text is kept only as far as something
depends on it: `"missing"` stands for the text in which `_removed_from_pypi`
looks for "not on PyPI".

Whether the release holds a file that deserves a high finding is `truth.bad`, and
the sort of file matters: one whose size cannot be read (`DiskTree.size` gives
-1) is no candidate of the rules and is not reported as unreadable either. If it
is a `.py`, Bandit takes it for oversized and tells; if it is a `.pth`, or if
Bandit does not run, nobody tells (`Overlooked`). A size that cannot be read is
taken to be a matter of the file, so that both layers meet it.

A collector that catches a `PyPIError` gives defaults (`MetadataOf`); a scoring
layer that catches anything else gives `_NEUTRAL_SIGNALS` (`ScoringRaises`),
which forgets even the name's similarity. `TaggingRaises` is an answer of OSV
that is not an object. Storing the answer is a matter of `ScanService`.

### ScanService

A *client* is whoever gives one command: a POST to the server, pip asking the
gate for a file, or a shell with `check`, `install`, `check-file` or `guard`,
which scan in their own process or, with `SU_API_URL`, through the server. A
scan inside gives any verdict or raises; what it really says is `RunScan`.

| Action | Code |
|---|---|
| `GateRefuses`, `GateScans` | `gated_file` before it scans: host, file name, parsed release |
| `Skips`, `NoFile`, `Resolves`, `ResolveFails`, `Invalid` | `check_file`, `_resolve_spec`, `_resolve_latest`, `ScanRequest`; a file that is missing is refused, one that is no UTF-8 is a traceback |
| `Unreachable`, `Sends` | `_scan_remote` and `_scan_local` |
| `Scans`, `Inserts`, `Stamps`, `Raises` | `run_scan`; `store.insert` and `store.finalize` are two transactions, and everybody writes the same file |
| `Refuses`, `Passes`, `Declines`, `Installs`, `Fetches` | what a command makes of its answers |
| `RenderFails` | the table of results is markup, and `check`, `install`, `check-file` and `guard` do not escape what comes from the package, as `watch` and `queue` do |
| `Leaves` | a timeout, a reply that is no JSON, a closed connection, Ctrl-C: what runs in the server goes on |
| `Stop`, `Restart` | the server, at any step; the table stays |

A failed scan ends a command of the shell with exit code 2 where the code catches
it and in a traceback, exit code 1, where it does not (`Fails`): every exception
of a scan in the command's own process, and a reply of the server that cannot be
read.

A spec without an exact version has two releases: the one that is scanned,
`Target`, which is the newest of the project (`Newest`), and, for `guard`, the one
pip chooses for it from the arguments it is given unchanged, which is the spec's
`release`. The two need not be the same.

A request for a file names what it wants twice, in the path and in the URL, so a
job has both. `left` are the specs a command has still to scan, and a list is
scanned one by one with other clients in between. Fairness is weak fairness of
each client's `Progress`: httpx has a timeout on every request and SQLite on
every lock. Nobody has to ask, to leave or to restart the server, and a command
whose server is gone ends with an error (`Unreachable`) instead of waiting. The
fairness of `Declines` and `Installs` takes for granted that the user answers the
question whether to go on.

### The algorithms

Seven modules hold functions of an input, each with a definition of what it is for
next to it, in other terms: subsets instead of a sliding window, all closed sets
instead of a loop that runs until nothing changes, pip's own reading of its
arguments instead of guard's. `MCAlgorithms` is a state machine whose one step
chooses an algorithm and an input; the properties are invariants of it. The
limits, the names of functions and the names of variables are its constants, so
that the proofs hold for all of them.

- `Features`: dates are hours. `sorted()` is the order `Before` on their places;
  what the code slices off the sorted list, `From` counts. `Compared` says which parts of two names go to
  `SequenceMatcher`; its ratio is not modelled. The segments `split("-")` makes
  are told by the places where they end (`Ends`): that two names share some in
  front says that both have an end at a place up to which they are the same
  (`Shared`). `EditDistance` is over the pairs of beginnings, of which the code
  keeps three rows at a time.
- `InstallTime`: a body is the set of statements in it that lead on. What Python
  runs is `RunsAtInstall`; a module that exists both as `m.py` and as
  `m/__init__.py` is excepted, because the rule reads the first and Python
  imports the second. The body of a class that `setup()` is not given is in no
  scope, in the code and in the model.
- `Decoders`: the functions of a file call each other in any way and stand in any
  order, which is part of the parsed file; a variable is followed for one step, as
  the code says.
- `Limits`: bytes and members arrive in pieces; what is said of them beforehand
  need not be so. `extract` looks at every member before it writes the first, so
  where its loop stops makes no difference, and `Refuses` says only whether it does.
- `Budgets`: a file is its depth, place, size class, cost, and whether it can be
  read. Both layers leave out `tests` and its like; the rules leave out
  `SKIP_DIRS` (`venv`, `node_modules`) besides, without a word, and what lies there
  is Bandit's alone: that every file is read or told by the rules is claimed of
  the package's own code.
  The list Bandit works through is a set of places in the order of `Before`: a
  file is kept if fewer than `MAX_BANDIT_FILES` come before it, and seen if the
  `Clock` of those had time left. Only `.py` files; for a `.pth` without a size see `RunScan`.
- `PipArgs`: a token is its kind, and so is a line of a requirements file: a
  package, a path, a URL, `-e`, a nested `-r`, another option. `GuardAccounts`
  excepts what guard passes over in silence, although it means to tell all it does
  not scan: a path after `-e`, a requirements file glued to its option, an `-e`
  line of a file and a nested `-r` line of a file, which stands for the packages of
  the file it names. A URL in a file is scanned under its scheme's name and counts
  as scanned.
- `Hooks`: a file is the entries of `cmdclass` and the classes in it; a call is
  its name's kind and what it is called on. A command or a class that is there
  twice is excepted from `HookIsGraded`: the rule reads the first class and every
  entry, Python the last. That pip runs `egg_info` and the building commands of an
  sdist too is not counted against the rule, which takes them for the
  publisher's. An indented `import` of a `.pth` is graded like one that is not,
  though Python does not run it. A wheel's data scheme has no place in site-packages.

## Runs

Every run ends within a minute or so. `CHECK_DEADLOCK FALSE` is said only where
the model may stop: in `Verdict.cfg`, where the walk ends when all evidence is
in, and in `Algorithms.cfg`, where it is one step. The other models have an
explicit last stuttering step.

| Run | Instance | Shows |
|---|---|---|
| `ctx` | static, Bandit and scoring layers | `AtMostOnce`, `OneAnswer`, `CleanExit`, both refinements, `EveryLayerEnds` |
| `ctx_shared_failure`, `ctx_leak` | the same | two promises the code breaks, see Findings |
| `watcher` | two cycles over small feeds with one permit, a reviewer, a stop | `PermitsAccounted`, `ReleaseQueuedOnce`, `RepeatsOnlyWithinCycle`, `FailedIsRetried`, `CycleAccounts`, `NewNamesFirst`, `NothingLost`, `CycleEnds` |
| `watcher_repeat`, `watcher_outage`, `watcher_crash` | the same or smaller | three promises the code breaks |
| `verdict` | all 3232 inputs | `LookalikeWarned`, `BlockNeedsProof`, `Monotone` |
| `scan` | eight releases, four layers | `FullScanIsRight`, `FailureOnlySoftens`, `NotLookedIsTold`, `RemovalIsTold`, `EveryScanEnds` |
| `scan_empty` | the same | a promise the schema makes and the code breaks |
| `service` | two clients, each with one of seven jobs, a stop of the server | `AnsweredIsStored`, `RecordsAreFinal`, `NothingUnscanned`, `ExitCodeTells`, `EveryCommandEnds` |
| `algorithms` | 652,000 small inputs of the seven modules | `BurstIsDense`, `TyposAreSeen`, `ScopeIsWhatRuns`, `DecodersAreFound`, `LimitsHold`, `SkippedIsTold`, `GuardAccounts`, `HooksAreGraded` |

What each property means is said above it in its module. The ones that carry
most:

- `FullScanIsRight`: an answer without layer errors gives the verdict that a
  scan without any failure would give. It holds although every layer swallows
  some failure silently, because whichever layer swallows one, another tells. The
  one failure nobody tells is a file without a size that Bandit does not look at
  (`Overlooked`); the verdict is then that of the release without this file.
- `NotLookedIsTold`: the same for the artifact. The case that makes it hard: an
  exception outside `PyPIError` reaches Bandit or scoring first, the static layer
  is then told that there is no artifact and reports nothing; the layer that got
  the exception is the one that tells.
- `FailureOnlySoftens`: no failure hardens a verdict, and Bandit never blocks.
- `RepeatsOnlyWithinCycle`: two rows for one reason come from one cycle: the
  race is bounded by the `gather`.
- `CycleAccounts`: at the end of a cycle each item is scanned, known, gone,
  invalid, failed, or counted as cut. Of a name it says
  that some release is settled, which is no news where one of them is invalid.
- `AnsweredIsStored`: an id that was handed out leads to the record it was handed
  out with, although other scans insert between the two transactions and either
  of them may be lost.
- `NothingUnscanned`: what is streamed or installed was scanned for this very
  command and passed: the name in the path is the file in the URL, a list is
  scanned whole before pip runs, and a block anywhere in it decides. Not so what
  guard lets pip choose: for `requests<2` the newest release was scanned and
  passed, and an older one is installed, as `_resolve_spec` says.
- `ExitCodeTells`: exit code 0 is never given for something that was not scanned
  or was blocked. Exit code 1 says less: a block, or a traceback.
- `SkippedIsTold`: the two static layers leave out different files for different
  reasons, and of the package's own code each is read or told.

**Bounds.** Three layers share the context in `run_scan`, and all three are
there; with `bandit=False` there is one fewer. In `watcher` the two feeds hold
what the hard cases need: a project that is new and has two releases in the other
feed (a race on one name, an item in both feeds), a second name, an invalid
release. Two scans per cycle leave something to cut; a new
name is cut only if the order were wrong, and `NewProjectsFirst` proves the rest. One permit makes the second
task of each kind wait, and the race is still there, because a scan gives its
permit back before the store calls; the violation runs have two. Two cycles are
the least in which a row or a mark of an earlier cycle meets a new scan, and one
stop the least that leaves a mark without its row; `MaxCycles` and `MaxStops` are
bounds of the model, named in its guards. In `scan` the eight releases lie at the
decision's edges: one blocked for its score only if `setup.py` is seen, one that
only the static rules block and OSV knows, two with a file that has no size, a
harmless one, all but those two in the kinds of
release for which that matters (published, without files, an unpublished version,
gone). `verdict` has no bound. In `service` two clients are the least whose
transactions interleave, and one of them may ask for a list, so that three records
meet; the newest release is another one than pip chooses for the spec without a version; a page of two records is one that newer scans can fill, and one stop the
least that hits a scan between its transactions. In `algorithms` the limits are a
few bytes, members and files, with inputs on both sides of each: a chunk that
exceeds the limit alone, three members for a limit of two, four files for a budget
of two. Names have up to five characters and two segments; three functions are
enough for a chain, a cycle and a wrong order; four tokens for an option, its
value and a package behind them.

## Proofs

TLAPS proves the following for every value of the constants that satisfies the
named assumptions.

| Module | Theorems | Assumptions |
|---|---|---|
| `PackageContext_proofs` | `TypeCorrect`, `FetchedAtMostOnce`, `SameAnswer`, `ExitIsClean`, `AnswersHaveASource`, `ArtifactRefinesOnceCell`, `ProjectRefinesOnceCell` | `TasksAssumption`: readers and scorers are disjoint, the guarded layers are layers, `Nobody` is none |
| `Watcher_proofs` | `TypeCorrect`, `PermitsKept`, `QueuedOnce`, `RepeatsRecognised`, `FailedNotSeen`, `NothingDropped`, `NewProjectsFirst`, `NothingIsLost` | `ConstantsAssumption`: finitely many names and versions, markers that are none of them, feeds are sequences of items, at least one permit and one scan |
| `ScanService_proofs` | `TypeCorrect`, `AnswersAreStored`, `RecordsStayFinal`, `DeliveredWasScanned`, `ExitCodesTell` | `ServiceAssumption`: what a job may look like (a file request names one release; a pinned spec of a command names one; only `install` and `guard` know `--yes` and `--force`), a page of at least one record |
| `Verdict_proofs` | `TypeCorrect`, `LookalikesAreWarned`, `BlocksHaveProof`, `EvidenceOnlyHardens` | none |
| `RunScan_proofs` | `ScanIsAContext`, `ScanKeepsItsContext`, `TypeCorrect`, `RemovalsAreTold`, `NotLookedIsAlwaysTold`, `FullScansAreRight`, `FailuresOnlySoften` | `RunScanAssumption`: three different layers, `Nobody` is none, releases of the right type |
| `Algorithms_proofs` | `EveryBurstIsDense`, `DistanceTellsTypos`, `EveryTypoIsSeen`, `EveryDownloadHolds`, `EveryExtractHolds`, `EveryBodyHolds`, `EverySkippedIsTold`, `EveryArgumentIsAccountedFor`, `EveryHookIsGraded`, `EveryPthIsGraded`, and of the walk `BurstIsAlwaysDense`, `TyposAreAlwaysSeen`, `LimitsAlwaysHold`, `SkippedIsAlwaysTold`, `GuardAlwaysAccounts`, `HooksAreAlwaysGraded` | `LimitsAssumption`: the limits are natural numbers; names do not end in a dash (`EveryTypoIsSeen`) |
| `Reaching_proofs` | `EveryScopeIsWhatRuns`, `EveryDecoderIsFound`, and of the walk `ScopeIsAlwaysWhatRuns`, `DecodersAreAlwaysFound` | `NamesAssumption`: finitely many functions, two of which the walk names; no name stands for two things |

**PackageContext.** That a value is fetched once is not inductive. The invariant
adds `Locks` (a lock is held exactly during the awaits of its critical section),
`Flags` (the flag is set before the first await and the result after the last),
`Counters` (the requests follow the flags) and `Told` (nobody is told anything
before the result is stored, and then the result). `ExitIsClean` needs two more
groups, `Threads` and `Directory`, on the life of the extracted tree.
`AnswersHaveASource` adds three more for the scan that uses the context: `Asked`
(of the project nobody is told anything but what is stored), `Origin` (a tree is
there only of a published version, and "missing" is said only of a missing
project) and `Endings` (where a layer is follows from what it was told, and only
a guarded one returns from an exception). The
refinements map a value that is flagged and unlocked to a filled cell; each action
is then one of `Fill`, `Abort`, `Get` or a stutter.

**Watcher.** The inductive invariant is `TypeOK` with three groups: `Phases`
(lookups run in the first half of a cycle and scans in the second), `Results`
(what a task knows of its item decides which insert it is on its way to) and
`Marks` (an item is marked before it is queued, and a task that has not marked
its item is the only one that will). `QueuedOnce` follows from the marks. The
other theorems add one invariant each to it: `RepeatsRecognised` that a row
with the reason a task is about to insert was born in this cycle (`Current`), `NothingDropped` that an item whose
task has ended is settled (`Sorted`), `PermitsKept` that permits and their
holders add up, for which `Items` must be finite.

**ScanService.** That answers are stored is not inductive: nothing says that the
row a client is about to stamp is its own. `Pending` adds that this row holds the
record the client will be given, still with 0 for an id, and that no two clients
wait for one row; an answer's row carries a positive id, so no stamp ever hits
one, which gives `Kept`, `Unique` and the action property. `Line` says that what a
command has left can be scanned. `Covered` is the other half of the argument:
the `Target` of each spec that is due was answered or is still in line, resolved
or not, so a command with nothing left has an answer for all, and `Settled` keeps what an outcome was justified by.
`DeliveredWasScanned` and `ExitCodesTell` follow from these two.

**Scoring.** `Verdict_proofs` proves its four properties of every evidence. The
one fact that needs care is the rounding: a rounded share lies within half a
point of the exact one, so a hundredth more (0.3 points) never counts less. The
rest is a sum of four terms against the thresholds: cap and floor keep its order,
and without the name it stays at 60 of the 70 a block takes. The lemmas are in
`Scoring_proofs`; `FewerSignals` and `VerdictGrows`, that less evidence gives no
harder verdict, serve `RunScan_proofs` too.

**RunScan.** The layers are those of `PackageContext`, so first every step of a
scan is shown to be a step of its context or to leave it alone
(`StepsOfContext`); the invariants of `PackageContext_proofs` then hold of a scan
through an instance of that module, and `ScanIsAContext` says it as a theorem.
They know nothing of reports. `Inv` adds them: for each layer what it has
reported when it has ended, in terms of what it was told, and that it reported nothing else (`Reports`), the
same for OSV (`Advisories`), and that nothing is decided before the gather is over (`Outcome`). `Settled` then
does the case analysis the code never writes down: when a scan has answered, a
published version is taken for empty only if some layer met an exception outside
`PyPIError`, and that layer told. `NotLookedIsAlwaysTold` and `FullScansAreRight`
follow; `FailuresOnlySoften` needs that each signal and finding of a scan is one of
the true ones or missing, and the monotonicity of the score.

**The algorithms.** The theorems are first about an operator and every input
(`Every...`), then about the walk, whose inputs are shown to be among those
(`Inputs`, `Searched`). Four arguments carry them:

- Induction over the length of an input is by its least counterexample: a set of
  natural numbers that is not empty has a least one (`LeastNumber`), so the
  statement is given as the set of numbers it holds of.
- A fold is a run: `FoldLeft` is a recursive function over sets of places
  (`FoldExists`), and of any fold there is a sequence of intermediate values, each
  a step from the one before (`Running`). Downloads, bodies, archives and the clock
  of Bandit are proved of these values.
- A loop that runs until nothing changes has one result, because each turn that
  changes something leaves less to add (`OneResult`); this result is closed and
  within every closed set that has the start (`FollowReaches`, `LocalIsReaching`). For the
  decoders a turn goes through the functions in the order of the file, and what
  it adds depends on that order, but not where it ends.
- Sorting is an order, and what a place in it means is a cardinality (`OneOrder`,
  `FirstOfDates`, `LastOfSome`): what is shallower is kept first because fewer files
  come before it, and seen first because their clock is less.

For a budget the theorem is about every cost, every limit and files of any number:
the three numbers Bandit tells add up to the files it did not look at, those whose
size hides them from the rules included.

**Typing errors.** `EveryTypoIsSeen` is about two names of any length that do not
end in a dash, as every name the schema admits (schemas.py:60): a name that does
is not a package's. The argument has three parts. That one name is a typing error
of the other is said by the places of their characters (`Near`), for any two
beginnings of them; what one more character on each side does to it
(`OneMoreNear`) has the shape of the recursion of `_edit_distance`. So
`DistanceTells` goes by induction over the sum of the two lengths: the distance is
0 for equal beginnings and at most 1 for those that are `Near`. The table of
distances must first be shown to exist, since a recursive function is a `CHOOSE`
(`DistancesExist`). Last, what two names have in common in front takes no part in
a typing error (`NearPastTheSame`): one that is made within it is also one behind
it, or there is none. Where nothing is left behind the shared segments, one name
is longer by a dash and a character at least, which is more than one error.

**Only model-checked.** Liveness (`EveryLayerEnds`, `CycleEnds`,
`EveryScanEnds`, `EveryCommandEnds`) is out of the prover's reach, and so are the
runs that end in a counterexample. Every safety property and action property of
the runs that pass is a theorem.

## Findings

Each is a run that must end in a counterexample; `PROJECT.json` quotes the
lines.

1. `ctx_shared_failure`: an exception outside `PyPIError` is not cached by
   `extracted_path()`; the next layer is told that the release has no artifact.
2. `ctx_leak`: a tree written by a thread after `aclose()` is never removed.
3. `watcher_repeat`: two releases of one name in one cycle are both queued for
   the same reason.
4. `watcher_outage`: during an outage releases are marked seen unscanned.
5. `watcher_crash`: a stop between the mark and the row loses a removal.
6. `scan_empty`: a version that does not exist is answered without a layer
   error.

## What is not modelled

- The tables of names and patterns the static rules use, the ratio of `SequenceMatcher`, the age of a package,
  advisory parsing and CVSS vectors, RSS parsing, file-name parsing, request
  validation: sequential functions of text or data with unit tests. Models take
  their results from small sets.
- The rewriting of index pages in the proxy: a function of text, and the gate does
  not rely on it.
- pip: which dependencies it installs besides, from which index, and that the
  artifact scanned, the sdist if there is one, is the file that is streamed.
- Bandit itself, OSV, PyPI, httpx, SQLite and `tempfile` are external; each
  answers whatever it may answer.
- SQLite's `busy` timeout in the watcher: an exception of a store call is a
  `Stop`, which is what it leads to. In `ScanService` it is `Raises`.
- A name that is registered anew after its removal: the watcher never looks it up
  again, and the updates feed may show it.
- The offline demo, rendering, `history`, `review`, `crosscheck`, dashboards,
  evaluation tools and samples: they print what they read.

## Plan

What is left, most important first:

1. `Feed`: one broken feed leaves the other's items; the CVSS base score over its
   vectors.
2. The watcher and `ScanService` in one model: rows of the queue refer to records
   by their id, and a reviewer opens them while scans go on.
