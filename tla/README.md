# A verified model of multi-arch-ir-analysis

The repository lifts a corpus of ELF binaries with eight decompilers and
analysis frameworks and compares the intermediate representations they
produce. Phase 1 (`pipeline/run_lifting.py`) runs one subprocess per
(binary, backend) pair; phase 2 (`pipeline/metrics`) aggregates what phase 1
left on the disk. This directory holds TLA+ models of the parts where order,
concurrency, crashes and staleness matter, TLC runs over small instances, and
TLAPS proofs for all instances. Line numbers are those of
`src/pipeline/run_lifting.py` unless another file is named.

## 1. Inventory

| Part | State it keeps | Operations | What makes it correct |
|---|---|---|---|
| `MemoryBudget` (83-105) | `used_mb`, a condition variable | `acquire`, `release` | exact ledger; budget exceeded only by one job alone; no lost wake-up; nobody sleeps for ever |
| Scheduler: `main` from 431, `run_job`, two `ThreadPoolExecutor`s | futures, queues, `results_by_job` | submit, take, two checks of the pause, launch, collect, join, return | running backends fit the budget and the license cap; every job gets the record of what happened to it; exit code 0 only if all ran; it ends |
| `PauseController` (124-158), stdin listener, SIGUSR1 handler | `event`, `futures`, `_lock`, `pause_state.json` | `attach`, `request_pause`, `_cancel_pending` | after a pause nothing new starts, nothing waits for ever, one caller writes the file |
| Session: `main` 304-429 and 486-531, `write_json` | `pause_state.json`, `manifest.json`, each pair's `summary.json` | load, resume, skip-existing, merge | a recorded pause holds until `--resume`; the manifest forgets nothing, is not complete too early and is true of the files; resuming finishes the corpus |
| Subprocess control: `run_one`, `run_subprocess_with_rusage` (178-257) | one reaper thread per backend, `reaped` | start, `wait4`, join with timeout, kill, read the summary | one record per attempt; ok only of a child that exited with 0 in time; measurements lost only in known ways; nothing left running or unreaped once its reaper was started |
| Backend drivers (`backends/*.py`, eight of them) | `functions.json`, `lift_records.json`, `summary.json`, IR dump; Ghidra project, RetDec outputs; a tool process | open, list, lift each function, write, close | a bad function costs its own record; a fatal error is in the summary and the exit code; the files of an ok attempt are its own and agree |
| IR accounting (`lift_function` of each driver, `binja_il_classify.py`) | none | counts by category, histogram, depth, escapes, CFG | the different walks over one function agree with each other |
| Native classifier (`native_classify.py`, `elf_bytes.py`) | none | category of an instruction | total, one category each, the stated precedence |
| Metrics (`metrics/`) | `manifest.json`, `metadata.json`, `lift_records.json` read; `metrics/*.json`, `*.csv` written | register, load, compute blocks, write | None and zero handled; binaries grouped over architectures without mixing them; no row about what was not lifted; outputs that belong together |
| Discovery and metadata (`common.py`) | none | scan, parse a file name | string matching |

**Interaction.** `main` submits jobs to both pools; workers call `acquire`,
start a backend as a child process, and `release`; the listener thread and the
signal handler set the pause event and cancel futures behind `main`'s back;
backends and the orchestrator share only files. Between invocations there are
only files: the state file decides whether to run at all, the summaries
what to skip, the manifest what is known of pairs outside this invocation.
Metrics trust the manifest for which runs are ok and read the rest from the
runs' directories, while phase 1 may be writing them: nothing locks either.
Tools that are processes of their own (radare2, retdec-decompiler) outlive a
killed driver and meet the retry in its directory.

**Hard behaviours.** Four kinds of threads and a signal handler that runs on
top of the main thread; a condition variable with unequal demands; cancellation
that works only for futures no worker has taken; a daemon thread that dies
with the process in the middle of a write; files that are truncated before
they are filled; a crash between any two steps; orphaned backends; results of
an old attempt taken for those of a new one; `kill()` and `wait4` competing for
one exit status; one metric dividing numbers that come from two different walks,
or from two files of different attempts. `PROJECT.json` lists them one by
one under `hazards`, with the property that covers each or the reason there is
none yet.

## 2. Modules

| Module | Models | State and actions against the code |
|---|---|---|
| `MemoryBudget` | class `MemoryBudget` | `used_mb`; `call[w]`, `amount[w]`: where a thread stands in its `acquire`. Both methods hold the condition's lock, so the code between two waits is one action: `Acquire`, `Recheck` after each wake-up, `Release` with `notify_all`. |
| `PauseGate` | what the pause promises (abstract) | A phase per job. `Pause` closes the gate but for the jobs already past the last look at it; a job is declined only because of a pause; everything that starts is reported as run. |
| `LiftScheduler` | scheduler and pause control | `main`, `wpc[w]`, `rpc[r]`: program counters of the main thread, the workers, and the callers of `request_pause` (the listener, and a stack of signal frames that hold the main thread up). One action per step between two shared accesses. Uses `MemoryBudget` by `INSTANCE` with its own variables, `PauseGate` by a refinement mapping. |
| `LiftSession` | what survives an invocation | The files as variables; an invocation from its command line to its exit, with `write_json` in two steps; each backend as a process that writes `summary.json`, then `lift_records.json`, then exits. `NotLaunched`: `ensure_dir` raises outside `run_one`'s `try`; `Unwind`: its exception ends `main` without a manifest once the other jobs are over. `LosesChild` (no reaper) and `Kill` leave backends as orphans; `Reboot` ends them, between any two steps. `told` and `cutShort` are histories (see `ManifestMatchesDisk`, `ResumeCompletes` below). |
| `Reaping` | `run_one`, the reaper thread, the child | `worker`, `reaper`, `child`: program counters and the process as the kernel knows it. One action per system call two of them may compete for, or that can fail by itself: `Popen`, `StartReaper` or `ReaperNotStarted`, `Join`, `KillPolls` (the poll inside `Popen.kill`), `KillSignals`, `Wait4`, `Collect`, `Unlink` (the logs of a success, inside the `try`). |
| `BackendPromise` | what `LiftSession` takes an attempt to be (abstract) | Empty and fill `summary.json`, then `lift_records.json`, over at any point (`Die`), ok only after a clean summary (`Return`), no backend and no record when `ensure_dir` raises (`Raise`), or a failed one that still writes (`LoseSight`). |
| `BackendDrivers` | `run()` of the eight drivers | Each as the sequence of its steps inside `try`, its `finally`, and what all of them do at the end; `StepAt(k, i)` is the i-th of them all. |
| `BackendAttempt` | an attempt as a whole | Extends `Reaping` and `BackendDrivers`: `driver` is the memory of `run()`, `helper` the tool, `disk`, `outputs`, `savedBy` the directory that later attempts find as it was left. Implements `BackendPromise` and `Reaping`. |
| `NativeClassify` | `native_classify.py`, `elf_bytes.py` | `classify_insn` over instruction attributes; the bytes a tool may read. |
| `MetricFormulas` | `formulas.py` | Exact fractions, `None`. |
| `IRAccounting` | `lift_function` of the drivers, `binja_il_classify.py` | A function is a record of instructions with expression trees; `Lifted` is its entry in `lift_records.json`, `Outputs` the files of a finished attempt. |
| `MetricBlocks` | `metrics/blocks/*.py`, `registry.py` | `compute(block, runs, seen)`: rows and summary. |
| `MetricsPhase` | `run_metrics.py` beside `run_lifting.py` | `manifest`, `dir`, `lifter` on one side; `phase`, `todo`, `runs`, `seen`, `result`, `json`, `csv` on the other. A block reads one directory per step; writing is step by step; `Cut` ends an invocation anywhere. |
| `MCMemoryBudget`, `MCLiftScheduler`, `MCLiftSession`, `MCBackendAttempt`, `MCMetrics` | | Values of the constants. |
| `MemoryBudgetProofs`, `LiftSchedulerProofs`, `LiftGateProofs`, `LiftSessionProofs`, `ReapingProofs`, `BackendAttemptProofs`, `MetricsPhaseProofs`, `AccountingProofs` | | Theorems (section 5). |

How they fit together: `LiftScheduler` uses `MemoryBudget` and takes an attempt
for one action; `LiftSession` takes it for a process that writes two files;
`BackendAttempt` shows that this is what an attempt with its threads, driver
and tool amounts to (`KeepsPromise`). `MetricsPhase` computes with
`MetricBlocks` on the records `IRAccounting` makes.

Operators whose name says what they leave out (`FitsIgnoringAmount`,
`RecheckLeaks`, `MergedRunsOverwritten`, `NamesOkTruthy`, ...) are plausible
slips of the definition after them. No specification uses them; putting one in
place of its original breaks the property it is listed with in `PROJECT.json`,
which shows that the property depends on that line of the code.

**Abstractions.** Megabytes are integers (the estimates are; sums of them are
exact in floating point). `TotalMB` stands for the floor of the budget: an
integer exceeds a number exactly when it exceeds its floor. The four end statuses
of a backend are one in `LiftScheduler` ("ran"), two in `LiftSession`; the exception of
`ensure_dir` is a way out of its own in both. A missing and a
torn file read alike everywhere in `run_lifting.py` and are one value. Every future of
`as_completed` may come in any order. `ThreadPoolExecutor`, `Future`,
`Condition` and `signal` are modelled from how the code uses them and marked
external in the map.

In `BackendAttempt` an exception may come at any step inside the `try` and death
by a foreign signal anywhere; a function is a name, a record its outcome. The
three Binary Ninja drivers have the same steps. In the metrics modules a table of
operation names is cut to a member or two per category, a function's IR is given by
small trees, a value is an integer or an exact fraction; a coefficient of
variation is its square, and of the Jensen-Shannon similarity only what needs no
logarithm is kept (`None`, 0 for disjoint histograms, 1 for equal ones, strictly
between otherwise). Means, which have no property, and the text of rows
are left out; `evaluated` is `num_functions_evaluated`, or `cost`'s `num_runs_ok`.

## 3. Runs

| Run | Module, cfg | Shows |
|---|---|---|
| `memory_budget` | `MCMemoryBudget` | Ledger, budget, no lost wake-up, every sleeper woken. |
| `scheduler` | `MCLiftScheduler`, `MCLiftScheduler.cfg` | `RunningFitsBudget`, `MemoryReturned`, `NothingLeftPending`, `LicenseCap`, `SingleWriter`, `ExitTellsTruth`, types; no deadlock. |
| `scheduler_promise` | `MCLiftPromise.cfg` | The scheduler implements `PauseGate` and terminates. |
| `session` | `MCLiftSession`, `MCLiftSession.cfg` | `NothingForgotten`, `CompleteMeansAllRan`, `PauseOutlivesProcess`, types; `ManifestMatchesDisk`: what the manifest says of a job is true of its files until a backend is started there again, also after invocations that ended by an exception or a reboot. |
| `session_resume` | `MCLiftResume.cfg` | `ResumeCompletes`: resuming again and again ends with a complete manifest and a clean summary of every job. Its records are there too, unless a backend of the job was ended between its two files: `--resume` skips such a job and never repairs it. |
| `attempt` | `MCBackendAttempt` | What a record and the files of an attempt say is true: `NothingLeftBehind`, `OkMeansExitedByItself`, `CrashedHidesOnly` (which children that ran are recorded as crashed, without measurements), `OkMeansLifted`, `DumpMatchesRecords`, `SummaryTellsHowFar`, `OkLeavesNoTool`, `ShortListingOnlyOnRetry`, types. Every attempt ends (`AttemptEnds`); it implements `BackendPromise` (`KeepsPromise`). |
| `metrics` | `MCMetrics` | The numbers of a record agree (`AccountsAgree`); the blocks speak of what was lifted, whatever the manifest's order (`OnlyWhatWasLifted`, `OrderIrrelevant`); the comparison blocks agree with each other (`MatchRatesAgree`); zero means zero (`ZerosAreMeasured`, `StatsInOrder`); the outputs belong together and are current (`CsvBelongsToJson`, `OutputsAreCurrent`). |
| `max_parallel` | `MCMaxParallel.cfg` | Disagreement 1. |
| `paused_exit` | `MCPausedExit.cfg` | Disagreement 2. |
| `two_signals` | `MCTwoSignals.cfg` | Disagreement 3. |
| `skip_existing` | `MCSkipExisting.cfg` | Disagreement 4. |
| `measurements` | `MCMeasurements.cfg` | Disagreement 5. |

**Bounds, and why they suffice.**

* `memory_budget`: four threads, amounts 1, 2, 3, 6 against a budget of 4. One
  release can wake three sleepers of which one fits; 6 is oversized; 1+3, 2+2
  fill the budget exactly.
* `scheduler`: jobs r (3), b and c (2 each, licensed), o (6, oversized), budget
  4, `--max-parallel` 1, so one worker in each pool and two jobs queued behind
  it; one typed "p" and one SIGUSR1, which may overlap in every way. No two
  pool heads fit together, so waiting for memory across the pools happens.
  Two workers in one pool compete only through the budget, which
  `memory_budget` covers with four threads, and the proofs cover any number.
* `scheduler_promise`: the same without c; liveness needs fewer states.
* `session`: two jobs, command lines for both or for the first, all flags; two
  bad attempts (a backend that dies, a fatal error, a raising `ensure_dir`), so
  that one job's files can be torn in the invocation the other one ends; one
  pause, one reboot; no backend is left behind. Any number of invocations. About 3.8
  million states.
* `session_resume`: one job; two bad attempts, one pause, one backend left
  behind (`MaxKills`: by a kill, or by a reaper that does not start), one reboot.
  Jobs meet each other only in `manifest.json` (the subject of `session`).
  No job gets a second orphan. The theorems of `LiftSessionProofs` have any number of
  jobs and orphans.

* `attempt`: two functions in the binary, one that only analysis finds and one
  import with a symbol and no code, so that listings differ with the state of
  the Ghidra program and external functions occur; `--limit` 1 or none; two
  calls of `run_one` on the pair, so that a retry meets everything the
  first may leave (a saved program, torn files, a living tool); a child without a
  reaper is over before the next call begins (`Begin`: that the two may write at
  once is in `LiftSession`, as an orphan); six drivers, one
  Binary Ninja driver standing for the three. The proofs of `ReapingProofs` cover any
  number of calls.
* `metrics`: manifests of two or three runs, one for each kind of backend:
  another architecture, another width, both, one label twice, one failed run,
  one without metadata; two functions per binary, one large, one small, one
  that fails, one empty; every block, alone or with those it is compared
  with; two invocations of one `--blocks` (blocks write files of their own, so an
  invocation of other blocks in between disturbs nothing) and one
  repeated attempt whose steps fall anywhere. `timeout` stands for every status
  that is not ok. `--blocks` is assumed to name no block twice
  (`MetricsAssumption`): the code does not refuse it, and repeats the block.

`CHECK_DEADLOCK FALSE` appears in `MCTwoSignals.cfg`, whose subject is a
process that stops; in `MCBackendAttempt.cfg`, where the last attempt is
followed by nothing; in `MCMetrics.cfg`, where both programs may be done.
`LiftSession` never stops, `LiftScheduler` ends in `Terminated`.

**Fairness.** Every thread that can step eventually does (`WF` for main, each
worker, each caller in `request_pause`): the operating system schedules all,
and the timeout ends every backend (`reaper.join(timeout_s)`, `proc.kill()`),
so `LiftEnds` too; that is what `AttemptEnds` shows, from the worker and the
reaper alone (`WF` of each): of the driver and its tool nothing is assumed,
they may hang. In `MemoryBudget`, weak fairness of `Recheck` and `Release`
says the same of a woken and of a holding thread. Nothing forces a pause, a
signal or a call of `acquire`. `LiftSession` assumes in addition that the user
does not give up (strong fairness of the full `--resume` command line, since
other command lines may come in between); `ResumeCompletes` is a statement
about such users.

## 4. Where the code and its words disagree

1. `--max-parallel N` allows N plus min(3, N) subprocesses; with 1, two run at
   once, although help (291-293) and comment (383-386) promise a sequential
   run.
2. The event is set before the state file is written, the writer may be a
   daemon thread, and a torn state file reads as a fresh start: a run can exit
   with the code of a paused run and come back unpaused (docstring 125-131).
3. `request_pause` takes a non-reentrant lock in a signal handler. A second
   SIGUSR1 inside the first one's `with` stops the main thread for good.
4. `--skip-existing` trusts any clean `summary.json`: that of a backend which
   was killed after writing it, or of an earlier attempt than the one that
   timed out (help 301-306).
5. A resumed run puts `skipped_existing` records without wall time and RSS
   over the measured ones (418-423, 503), against `cost.py` 13-14.

Further places where a comment or docstring and the code part, which no run is
about:

* `robustness.py` counts runs with status "ok" or "error"; `run_lifting.py` never
  writes "error" (it writes failed, timeout, crashed), so failed runs are not counted.
* `native_classify.py`'s docstring gives the order control, memory, arithmetic; the code
  tests arithmetic first (and says so in a comment further down). `_writes_pc` is true for any
  operand that is pc, also a source.
* RetDec functions without a definition in the .ll ("likely external") become errors,
  while `write_summary` describes externals as skipped.
* `ir_size_cv` takes RetDec's names from the records, the other comparison blocks from
  `whole_binary.ll`, which has functions beyond `--limit` and failed ones: their match
  rates differ (`MatchRatesAgree` leaves RetDec out for it).
* `by_arch_pair` is made of pairs that have a value: pairs that match no function
  are missing there.
* `write_block_output` leaves an older CSV beside a JSON without rows
  (`CsvBelongsToJson` allows it and nothing worse).
* A retry of pyghidra after a kill between save and analyze works on the unanalysed
  program, and is ok (`ShortListingOnlyOnRetry` allows that and nothing worse).
* angr's category counts sum to `num_statements` plus the number of blocks.
* `pyghidra_lift.py` 50-52 puts CALLOTHER under "other"; the set below has it under
  control.
* RetDec's category totals count the header, label and `uselistorder` lines, of
  which `num_ll_lines` leaves out the last.

## 5. Proofs

All theorems hold for every value of the constants under the modules' named
assumptions (`BudgetAssumption`, `SchedulerAssumption`, `SessionAssumption`,
`ReapingAssumption`, `AttemptAssumption`, `MetricsAssumption`, and `NoneAssumption`,
that Python's `None` is no number, fraction or dict of counts):
any job list without a bound on its length, any estimates, any
`--max-parallel`, any integer budget, any number of pauses and signals; any
set of jobs and command lines, any number of kills and reboots.

**`MemoryBudgetProofs`.** `BudgetInvariant` is the inductive invariant: types,
`LedgerExact`, `BudgetRespected` and `NoLostWakeup` together. None is
inductive alone: that the budget is respected after `Acquire` needs the
ledger (`used_mb = 0` exactly when nobody holds), and that a sleeper still
does not fit needs that `used_mb` only grows between releases. The ledger is a
recursive sum over the threads; `SumOverUpdate` and `SumOverMonotone` are
proved by an index induction (`IndexInduction`, from the well-ordering of the
naturals) instead of the library's schemes. Corollaries: `BudgetTypeCorrect`,
`LedgerCorrect`, `BudgetSafe`, `WakeupsNotLost`.

**`LiftSchedulerProofs`.** `TypeCorrect`; then `WorkerBudgetLink`, the places of
`run_job` at which a worker is in or past `acquire`. With it every step of the
scheduler is a step of `MemoryBudget` or leaves it alone
(`SchedulerRefinesBudget`), so the budget's invariant carries over:
`MemorySafe` (`RunningFitsBudget`) and `MemoryNotLeaked` (`MemoryReturned`).
`LicenseSafe` needs that queues hold only jobs routed to them.
`StateFileHasOneWriter` and `PauseReachesAllFutures` rest on `PauseInv`: at
most one caller saw the event unset, and while the event is set and futures
are attached and pending, somebody is on the way to cancel them.

**`LiftGateProofs`.** `JobInvariant` follows each job through queues, workers,
futures and results: it is in the hands of one worker at most, it has a result
exactly from the end of `run_job` on, it is declined or cancelled only because of a pause, and
`main` collects only what is done. `ExitTellsTruth` needs all of it, since the exit
code is computed from results that other threads wrote; `ExitIsTruthful` is that
theorem. With the invariant every step of the
scheduler is a step of `PauseGate` under the refinement mapping or leaves the
mapped variables alone (`SchedulerKeepsGate`): the last look at the event lets a job
through before the pause or not at all, whatever frame of the signal
handler is on top of `main` at that time.

**`LiftSessionProofs`.** `StageInv` says what `main` knows at each place (before
the jobs no event, no records; while jobs run without a pause the file says
"running"). `TypeOK` is inductive only together with it. `PauseSurvives`
follows from it for every step. `RecordInv` adds what a trace on the disk says
(a readable summary, a live process or an ok record means an attempt was made)
and that what `manifest.json` or the copy in memory holds covers everything
ever recorded; it gives `ManifestKeepsAll` and `CompleteIsTrue`.
`ManifestMatchesDisk` speaks of the jobs nobody touched since the manifest was
written. It is not inductive: until then what is in a job's directory is told by the
place of the backend that alone writes there, then by the job's record, then by
`main`'s merged copy, at last by the file. The history `told` says which of them
it is, and `DiskInv` what each then knows; a process that ends in between, by an exception,
a kill or a reboot, and an orphan leave nobody who can tell. So `ManifestIsOfDisk`
holds for any number of kills, reboots and exceptions. The exception that the property makes is
real: a new attempt empties files the manifest still vouches for, and if its invocation
writes no manifest the old one goes on saying ok (hazard of line 209).

**`ReapingProofs`, `BackendAttemptProofs`.** The three safety properties of
`Reaping` (`NothingIsLeftBehind`, `OkExitedByItself`, `CrashedHidesNothingElse`) are not
inductive: each needs to know what the worker has learnt at
its place (`WorkerKnows`: past `rejoining` the reaper is over, so the child is
gone; or there was no reaper, and the record says crashed), and that the child's exit status has one owner (`OneStatus`). `ReapInv`
has these and is inductive for any number of attempts. `ImplementsReaping`
shows that every step of `BackendAttempt`, for any set of backends,
functions and limits, is a step of `Reaping` or leaves its variables alone, so the three
carry over (`AttemptLeavesNothing`, `AttemptOkExited`, `AttemptCrashedHides`).

What the drivers leave needs their code, statement by statement. `Places` says where in
each of the eight sequences a statement stands, so that "past the listing" is
a comparison of numbers; `AttemptInvariant` then says for every place what `run()` knows
there: where it can be (`WhereInv`), what its variables hold (`MemoryInv`,
`ListingInv`), which tool is alive (`ToolInv`), which files are written and of
what (`FileInv`, `DumpInv`), and what the worker has after the end
(`AllIsWell`, `ReturnInv`). None of these is inductive alone: a file's contents are
what memory was when it was written, and memory no longer changes because of the place.
It gives `AttemptTypeCorrect`, `OkIsLifted`, `DumpIsOfRecords`,
`OkLeftNoTool`, `ShortListingIsRetry`, `SummaryIsHonest`, and
`AttemptKeepsPromise`: the attempt implements `BackendPromise`, on which `LiftSession`
is built.

**`MetricsPhaseProofs`.** For any manifests, directories, requests and numbers of
invocations and repeated attempts, if tools present what they find the way the code relies
on (`MetricsAssumption`, see below). `CsvBelongsToJson` compares
a line count with a cardinality, so first everything a block reads is shown finite
(`DataInv`) and with it the rows of every block (`ComputeFinite`); then
`PlaceInv` says where an invocation stands between the two files of its block: `CsvFollowsJson`.
`TruthInv` adds that the result in hand is what `compute` makes of the
runs and directories that were read, and that these are the ones there are as long as nobody
has lifted since the manifest was loaded; a block that is over has then written what is
current, and an output of an earlier invocation is not mistaken for one of this
(`FinishedBlocksAreCurrent`). `BlocksSpeakOfLifted` goes into the
operators: the rows of every block come from runs with status ok and
records with status ok, and since one run stands for each label of a group
(`setdefault`), a pair of labels is one pair of runs (`PairsAreOfLabels`).

**`AccountingProofs`.** The counts of a record are folds over finite sets, which the
prover cannot unfold. A small theory replaces unfolding: a fold is the only
function that meets its own equation (`FoldUnique`), such a function exists on
every finite set (`FoldExists`), both by a smallest counterexample among the subsets
(`SubsetInduction`) instead of the library's schemes. From it follow the facts about sums
that the rest cites: one element more (`SumAdd`), equal and bounded summands
(`SumEqual`, `SumBetween`), sums of sums (`SumPlus`), and counting by keys
(`SumFibres`), which says that labels, opcodes or levels partition what they label.
`FlatWithinTree`: the tree walk finds at least as much of every category as the
flat labels, because every instruction's label is that of a node of its tree
(`SameLabel`), even the inherited one of an assignment. `RecordsAgree` puts together,
for each of the four kinds of record, all that `AccountsAgree` asks: sizes, flat and nested
counts, histogram, depths, escapes, and a complexity above zero.

The last part is about `formulas.py`. Among finitely many fractions there is a k-th smallest
(`KthExists`: the least value that at least k do not exceed), and it grows with k (`OrderedGrows`), so
that `Ordered`, a `CHOOSE`, is what its name says. `QuartilesGrow` adds the interpolation:
a quartile lies between its two neighbours, quartiles that share the neighbours are in the order of
their weights, and the others in the order of their places. `StatsOrdered` and `StatsAreValues` are
what the metrics need. `SimilaritiesAreRates`: a sum of minima is at most the sum of the maxima.

The theorems are about any function a tool may present, as far as the code relies on
it (`Presented`, `PresentedAll` in `IRAccounting`): finite lists; a tree in
preorder; an assignment that has what it assigns; one graph in which every block but the
first is reached (`OneEntry`; `cyclomatic_complexity`'s docstring says "a single connected component with one
entry point", and `ida_lift.py` drops the stubs that are none); RetDec functions of one
name have one define block; counts a tool hands out are natural numbers. `MetricsAssumption` asks it of every function found, and TLC
evaluates it for those of the runs; of a run it asks a backend the metrics know, code that
has an end, and measurements that are numbers or `None` (`Usual`). Without `OneEntry` a complexity of zero or less is
possible, and the code would report it. The tables of operation names are those of the model.

In `MetricsPhaseProofs` the two meet. `RecordsOnDiskAgree` (`AccountsAgree`): every record on the
disk, and every one that a repeated attempt is about to write, came from `Lifted`
of a function presented to the run's own backend (`SoundInv`), for a run keeps its
backend while its status changes. `ZerosOnlyMeasured` (`ZerosAreMeasured`) needs more for RetDec, whose
sizes are counted by the metrics in files the records only name: those files are
of the same attempt as the records unless that attempt is being repeated, or was
and ended early, and then the manifest does not say "ok" (`JoinInv`). While nobody lifts the
block therefore finds every function of an ok run in the `.ll`, with at least one line.
`ComparisonsAgree` (`MatchRatesAgree`): what a block compares by are histograms, of the last
record of a name or of the `.ll` (`DatumIsHist`); the weighted Jaccard of two histograms has
no value exactly if their Jensen-Shannon similarity has none, when both are empty
(`SimilaritiesOfSame`); and a row is known by its pair and its function (`RowsByKey`), so
that the two blocks have equally many. `StatisticsInOrder` (`StatsInOrder`): everything a block takes
a statistic of is missing or a fraction with a positive denominator (`RowMeasures`, `PairMeasures`),
which is due to what it has read of each directory, even if a repeated attempt left
half of that (`SeenInv`), and `StatsOrdered` does the rest. That rates lie between 0 and 1 needs
the agreement of the records: an escape is one of the operations counted.

`SummaryIgnoresOrder` (`OrderIrrelevant`): the manifest backwards is the same runs under other places
(`Mirrored`), which carries every row to a row with the same values (`RowsRenamed`)
and, if no build of a group is listed twice, every pair to the pair of the same builds the other way
round (`PairsRenamed`). Counts, sums and order statistics are the same under
other names (`RenamedCount`, `RenamedSum`, `RenamedStats`), and both similarities, the coefficient of variation
and the distance are symmetric (`ComparisonSymmetric`), so the summaries are equal field by field.
The theorem, like the property, is about that one other order.

**Only model-checked:** the liveness properties (`SleepersWoken`,
`Terminates`, `ResumeCompletes`, `AttemptEnds`), since fairness and `ENABLED` are
out of the prover's reach.

## 6. Not modelled

* How the tools' objects are walked to reach instructions, operands and blocks (the
  object models of Ghidra, VEX, radare2, Hex-Rays and Binary Ninja): `IRAccounting` begins
  where the code has them in hand. The tables of mnemonics and operation names beyond
  some members per category; Thumb and endianness of the disassembler; the
  ELF section search.
* Means, logarithms, rounding and floating point of `formulas.py`; the text of CSV rows.
* `metadata.json`'s contents, `pipeline.pid`, command-line filters, formatting, logging.
* File name parsing and discovery (`common.py`): string matching without state.
* Two invocations of `run_lifting.py` on one results directory, and two binaries of
  one stem: neither code nor docs speak of them.
* The container files and requirements hold no logic.

## 7. What is left

1. **`LiftSession`, extended**: two invocations on one results directory,
   shared output directories, `pipeline.pid`.
2. **Proofs**: the summaries for any order of the manifest, not only the reverse one;
   `Renames` and what follows from it hold for any bijection, and what is missing
   is the pair that changes its direction alone.
