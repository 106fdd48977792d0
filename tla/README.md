# TLA+ models and proofs for PNMAX

PNMAX explores mappings of tensor workloads onto processing-near-memory
architectures: it samples random mappings, keeps the legal ones as trace files,
evaluates them with an analytical model, takes Pareto fronts and composes
end-to-end results.  The searches run for hours with a pool of worker
processes, are interrupted and extended, and the repository promises two things
about them that no unit test reaches:

* `src/pnmax/seeding.py`: for a given base seed, "worker counts and scheduling
  order cannot change results";
* `README.md`: "Every run is safe to re-run after an interruption".

The models start from these two promises.  Paths below are relative to the
repository root, and the package is `src/pnmax`.

## 1. Inventory

| Component | Code | State | Operations | Hard behaviour | Correct when |
|---|---|---|---|---|---|
| Chunk scheduler | `dse/random_search.py` `_RoundRobinChunkScheduler` | active list, cursor, next attempt per workload, attempts scheduled | `next_chunk`, `mark_workload_complete` | removal while the cursor moves; cut last chunk | fair turns, every attempt handed out once, exact budget |
| Output directory and resume | `dse/random_search.py` `_load_resume_snapshot`, writers | `trace_*.yaml`, `accepted.jsonl`, `state.json` | read back, append, replace | kill between any two writes, half rows, extension, other seed | no duplicates, journal agrees with traces, resume point moves forward and skips nothing |
| Search with a pool | `_run_multi_process`, `_worker_sample_chunk` | pending, completed, next index to emit, counters | submit, wait, emit, accept, save | workers finish in any order; stale chunks; kill | same traces as sampling in order, budget, termination |
| Search in one process | `_run_single_process` | chunk, counters | draw, accept, save | early exit inside a chunk, discarded chunks | the same traces as the pool |
| Sampling and validation | `dse/random_search.py` `_sample_*`, `_materialize_workload`, `verify_constraints` | none (seeded per attempt) | factorise, order, annotate, check | counting of factorisations under caps, the extent that is passed on, what is checked early | every schedule that fits can be drawn, choices are weighted by the ways to go on; what is accepted can be read again |
| Workload-space staging | `cli/run_workload_space_random_search.py`, `dse/workload_search_spaces.py` | `manifest.json`, directories a, b, c, d, root summary | migrate, import, search, derive, report | kill at any step, extension, other configuration, old output | a ⊆ b ⊆ c, d = c, no mapping twice, nothing lost |
| Seeding | `seeding.py` | none | derive a seed per attempt | – | results independent of workers |
| AttAcc search | `dse/random_search_attacc.py` | trace files | sample, write | no resume | – |
| Pareto fronts | `dse/pareto_export.py`, `dse/combined_pareto_plot.py` | Fenwick tree of a sweep | 2, 3 and n objective fronts, dedupe | ties, last nodes of the tree | equals pairwise dominance |
| Frontier composition | `cli/run_end_to_end_workload_space.py` `_compose_full_frontier` and below | result, power and combined front, pending batch, flag `approximate` | repeat by squaring, combine in batches, thin | pruning before summing, thinning between batches | the front of all choices, or flagged and within epsilon |
| Workload evaluation | `dse/workload_eval.py` | one model per workload | evaluate a mapping for a target | – | refuses what the constraints exclude |
| Evaluation pool | `cli/run_workload_space_pareto_eval.py` `_run_tasks_on_recovering_pool` | executor, futures in flight, rows, silence, replacements | start, submit, wait, file a row, replace | workers die noticed or unnoticed, results in any order, late results | every task once, rows final, ends |
| Pareto evaluation, around its pool | `cli/run_workload_space_pareto_eval.py` | report directory: table, fronts, manifest, summary | discover, deduplicate, evaluate, merge into a report, write | one workload in many files, rows found in an earlier report, kill between writes and inside a row | the table has the row of every file, and no cost of it is lost |
| End-to-end command, around the composition | `cli/run_end_to_end_workload_space.py` | run manifest, pipeline rows, searches, evaluations, fronts, summaries | run, re-run, recompose, replot | torn and stale manifests, rows of another layer count, cleared searches | every layer has one mapping, no choice is better, the summary reproduces the front |
| Sweep commands | `cli/run_*_workload_space_*.py` | output directory of one sweep | geometry, buffer, random-set, activation sweeps | selection per variant over shared mappings | winners are best, lines are whole |
| Analytical model | `analytical_model/analytical_model.py` | memo of the last target and its breakdown | constraints, tiles, metrics of a target | several targets on one object, boundaries of level products | accepted mappings fit; a cache never costs |
| Cache simulation | `analytical_model/cache_sim.py` | LRU contents, counters, shared loop context | allocate, walk | closed forms against the stepwise cache, remainders of shares | the hits of the reference schedule |
| Row changes | `analytical_model/row_changes.py` | open row, placement, bounded trace | walk, estimate | tiles at row boundaries, cut streams | the estimate is the walk unless it says otherwise |
| Workload and architecture descriptions | `database/workload.py`, `database/arch.py` | none after parsing | read, refuse, edit, write | two forms of bounds, retired fields, defaults | what is written is read back as it was |
| GPAM front end | `gpam/` | graph | load, lower | – | – |
| Simulator back ends | `simulators/`, `cli/*_validation.py` | code buffers | generate, run external simulators | – | – |
| External, plots, data, experiments | `external/`, `plot/`, `data/`, `experiments/` | – | – | – | – |

How they interact.  A command builds a `RandomSearchConfig` and calls
`run_random_search_multi`, which reads the directory back (resume snapshot),
returns at once when there are enough traces, and otherwise runs the
one-process or the pool loop; both draw chunks of attempts from the scheduler,
and both write to the same directory format.  In the pool the parent alone
writes; workers receive a chunk and return its legal candidates, with no shared
state.  The staging command runs a search per space, copies the traces of a
space into the directory of the next one before its search, and keeps a
manifest for the root.  The evaluation commands only read trace directories:
they evaluate every distinct workload among the traces on one evaluation pool,
whose executor the parent replaces when it breaks or falls silent, and report
fronts or winners of the rows; a merge reuses the rows of an earlier report.  A
task of the pool builds one analytical model, which verifies the mapping and
simulates its caches.  The end-to-end command runs searches and evaluations for
every group of equal layers and composes their fronts into the front of the
network; later sweeps look up its newest run.  Workloads pass between all of
them as files or mappings, which `Workload.to_dict` writes and
`Workload.from_dict` checks.

`PROJECT.json` lists every part with its status, and every hazard with the line
where it bites and the properties that cover it.

## 2. Modules

```
AttemptScheduler ── SchedulerTurns ───┐
 SearchStore (INSTANCE TraceSampling)  │
      │    └───────────────── SearchStoreProofs ── PoolSearchProofs, SequentialSearchProofs
      ├── PoolSearch ── MCPoolSearch
      ├── SequentialSearch ── MCSequentialSearch
      └── WorkerCounts (INSTANCE both) ── MCWorkerCounts
SpaceStaging ── MCSpaceStaging
      └── SpaceStagingProofs
EvalPool ── MCEvalPool
      └── EvalPoolProofs
ParetoSweep ── FrontierCompose ── MCFrontierCompose
                    └── FrontierProofs
Mapping ── CacheGroups ── CacheWalk ───┐
   │            ├── Metrics ───────────┤
   │            └── ReuseCache (INST.) ┤
   ├── RowTrace ───────────────── ModelEvaluation ── MCModelEvaluation
   │                                   └── ModelEvaluationProofs
   └── WorkloadFiles ── TraceDrawing ── TraceLife ── MCTraceLife
          ArchFiles ────────┘
ReportInputs ── ReportPlan ── ReportSelection ── EvaluationCommands ── MCEvaluationCommands
                                                      └── EvaluationCommandsProofs
NetworkPlan ── NetworkCommands ── MCNetworkCommands
```

**AttemptScheduler** – the scheduler object as a record and its two methods as
functions of it: `NextChunk`/`AfterNextChunk` (`next_chunk`) and `MarkComplete`
(`mark_workload_complete`), with the cursor arithmetic of the source, 0-based.

**SchedulerTurns** – the scheduler driven by an arbitrary caller: draws and
completions in any order.  Ghost variables count turns and collect the chunks.

**SearchStore** – the output directory: `traces` (the trace files in index
order), `journal` (complete rows of `accepted.jsonl`), `torn` (its last row is
half written), `saved` (`state.json`).  `ResumeAccepted`, `ResumeSeen` and
`ResumeNext` are the resume snapshot; `Refused` is when the snapshot, or
`--no-resume`, raises; `SkipDirectory` is the early return with enough traces.

**TraceSampling** – the abstract specification: each workload keeps the first
`Share[w]` distinct legal draws of its own stream, in the order of the draws.  The
traces of all workloads are one log, in which the workloads may come in any order.

**PoolSearch** – `_run_multi_process`.  One action per step between two
effects that a kill or another process can separate: `Submit`, `WorkerFinish`,
`Collect` (`wait(FIRST_COMPLETED)`), `BeginChunk`, `DropDuplicate`,
`WriteTrace`, `AppendRow`, `CloseChunk` (with the save of the state file),
`EndRun`, and `Kill` in between, after which a further `Command` may start.

**SequentialSearch** – `_run_single_process`, on the same directory.  It keeps
the ways in which that loop differs: duplicates are dropped over the whole run
and before validation, the loop leaves a chunk in the middle, and a chunk drawn
for a workload that needs nothing is thrown away (`DiscardChunk`).

**WorkerCounts** – one command run twice from scratch, once with each loop.

**SpaceStaging** – one output root of the staged search: migration of old
output, manifest, the import and search of each stage, the derivation of d and
the report, with a kill after every write and, where the code writes files in
place, inside it.  `RefuseDerive` is the derivation that raises, for
`--no-resume` over an existing d.  The direct modes, which search c or d alone, are
left out.

**EvalPool** – `_run_tasks_on_recovering_pool`, the pool the Pareto, geometry
and end-to-end commands share.  `StartExecutor` is the head of the outer loop
with the first submissions; `WaitSome`, `WaitTimesOut` and `CheckStall` the wait
of the inner loop; `TakeResult` files one row of a batch and refills, or leaves
when the refill meets a broken executor; `TakeBroken` leaves at a future that
raises; `Replace`, `Escape` and `CloseExecutor` are the three ways out of the
inner loop.  `WorkerFinish` and `WorkerDies` (noticed or not) are the
environment.

**ParetoSweep** – `_pareto_front_3d` row by row, with the Fenwick tree of prefix
minima node by node (`QueryPath`, `UpdatePath`), against the pairwise definition
`NonDominated` (`_pareto_front_generic`).

**FrontierCompose** – `_compose_full_frontier`: `NextWorkload` begins the
repetition of a workload's front, `Multiply` and `Halve` are the two halves of
the squaring loop, `Join` adds a workload to the network.  Each of them calls
`_combine_frontiers`, whose batches are `MergeBatch`, the steps of the sweep,
`Compress` and a second sweep when the front is too large, and `EndBatch`;
`Assign` is its return.

**Mapping** – a mapped workload as a record of extents by level and dimension,
and what the analytical model derives from it: level products, tile widths, rows
and the constraints `Legal` (`verify_constraints`).

**CacheGroups, CacheWalk, ReuseCache** – how the cache of a PU is divided among
groups and tensors; the simulation itself, one action per innermost iteration
(`SimulateAccess`), with its shared loop context; and the abstract specification it refines: an access hits exactly if
fewer other entries were touched since the last access to the same one than the
tensor has room for.

**RowTrace** – the row-change walk of a tensor, access by access, with its
bounded trace, and the closed estimate.

**Metrics** – the latency and energy terms of every target, exact.

**ModelEvaluation** – one `AnalyticalModel` from verification over the cache
simulation to the metrics of one target after the other (`AskAgain`), and the
row-change analysis on the same object.

**ReportInputs, ReportPlan, ReportSelection** – operators for the three stages of
an evaluation command: what is found and refused, which tasks and rows are made
of it, and what is reported.  **EvaluationCommands** runs scripts of commands over
directories that stay: one `Start…` per command with all its refusals, one action
per evaluated task, the selections, and the files one by one, in the order in
which the command writes them, a kill before or inside each.  A kill inside a table may end it at any row,
and that row anywhere (`TornRow`): before its hash or inside it the row is nobody's, at
the comma before it the row goes by its path, and after it the row counts as
evaluated although its error and breakdown are gone (`_read_existing_evaluation_rows`).
A Pareto report has a place, its architecture and display name, under which a
random-set sweep looks for the newest one, of one workload or of an architecture
(`ResolvedInputs`); it knows its baseline by any name of the workload
(`BaselinesNamed`).

**NetworkPlan, NetworkCommands** – layers, groups, combined fronts and least
EDAP: `Combine` thins a front of more than `MaxPoints` rows to one row per bucket
(`Thinned`) and flags it as approximate, and the flag goes with the front through
`Repeat` and `Compose` into the summary; and the end-to-end commands as lists of steps (`todo`) over the manifests,
searches, evaluations and fronts they share, a kill at any step and inside any
write that is in place.

**WorkloadFiles, ArchFiles** – `from_dict` and `to_dict` with everything they
refuse or default.  **TraceDrawing** – `prepare_workload_for_space`, caps, the
factor sampler with its weights, the drawn pragmas, materialisation.  **TraceLife**
follows one workload from the file to the trace and to the commands that read it.

### What is abstracted

* *Draws.*  The candidate of an attempt is a function of the base seed, the
  workload and the attempt number (`_stable_seed`), and validation sees only the
  candidate.  The whole sampling procedure is therefore one table `stream`, and
  every table over a small set of keys is explored.  A draw is a dedup key or
  `NoSample`.
* *Counters.*  `rejected` is attempts − accepted − duplicates and is omitted.
* *Companion files.*  `summary.json` of a search and the schedule files are
  written next to the state file and the trace files; nothing reads them back in
  a search, so they have no variable.
* *Files replaced through a temporary name* (trace files of a search,
  `state.json`) change in one step; appended rows and files written in place may
  be left half written by a kill (`TornAppends`, `TornWrites`).
* *The search inside a stage* of SpaceStaging finds any mapping it does not have
  or gives up: what it really does is the subject of the other modules.
* *Evaluation.*  A task is its index, its row says which executor computed it:
  evaluation is a function of the task.  Time is counted in timed-out waits.  A
  worker dies unnoticed only while a result is outstanding, so the shutdown after
  the last result returns.
* *Rows of a front* are their metrics: rows of equal metrics are deduplicated
  before every sweep.  Metrics are natural numbers that a float holds exactly.
* *Fractions.*  The model divides in floating point; Metrics brings miss rates and
  ratios to one denominator and is exact.  Of a breakdown, who wrote an entry is
  kept, not what.
* *Files of a report* are who wrote them, whether they are whole and what a later
  command reads of them.  Progress display, plots and wording have no variable.
  Names, stems and times are numbers; two runs never start in the same second, and
  inputs are not edited between planning and evaluation.
* *Workloads of a report* are identifiers with the flags the commands change;
  `MCOutcome` is the table of what the model says of each on each architecture.
* *End-to-end.*  A search finds mappings in order, an evaluation writes all its
  rows into a new directory, and the sums of two fronts are one batch (the code has
  batches of at least 1024): PoolSearch, EvaluationCommands and FrontierCompose are
  about how.  The buckets of a thinned front are intervals between `Bounds`, the
  values at which the floor of the logarithm goes up.  A failed
  evaluation leaves no directory that a later step would read.
* *Descriptions.*  Mappings, not YAML text; a field that may be absent is a
  sequence of length 0 or 1; names and roles are left out.
* *Configurations.*  The fields by which a manifest or a signature is compared
  are one value (`Configs`, `Seeds`).

## 3. Runs

| Run | Question | Bounds |
|---|---|---|
| `scheduler_turns` | Are turns fair and attempts handed out once, whoever leaves? | 4 workloads, any number of them eligible, budget 11 in batches of 2 (odd: the last chunk is cut), seeds 0 and 2 |
| `pool_one` | Does the directory grow only towards the first distinct legal draws, whatever is killed? | 1 workload, all 1024 tables of 5 draws over 2 legal keys, 1 illegal and none (up to symmetry), 2 workers, 3 commands with and without resume, half rows |
| `pool_two` | Does every command end? | 2 workloads, 3 traces shared 2 : 1, all tables of 2 draws each, 2 workers, 2 commands |
| `sequential` | The same for the one-process loop | 2 workloads, 3 traces, all tables of 3 draws each, batches of 2, 2 commands, half rows |
| `worker_counts_two` | Do one worker and two keep the same traces of two workloads when the budget is short? – *violated* | 2 workloads, 2 traces, 4 attempts in batches of 1, 2 workers |
| `staging` | Nested spaces, no duplicates, nothing lost? | 3 commands out of {stage to d, extend b, other configuration}, resuming or not, empty and old roots, torn writes |
| `eval_pool` | Is every task evaluated once, and does the run end, whatever workers do? | 5 tasks, one thread or two processes, 2 in flight per worker, stall after 2 silent waits, 2 replacements |
| `frontier_compose` | Is the front of a network the front of all choices? | 2 workloads in 1 to 3 layers, all fronts of 1 to 3 of five rows with ties in one or two metrics, batches of 4, limit of 3 points, epsilon 1 |
| `evaluate_mapping` | Do cache walk, row walk, estimates and constraints agree with what they stand for? | convolutions of 3 and 4 levels with all splits of loops up to 3, a batched product of matrices, register file and scratchpad of 6 to 16 bytes, rows of 16 to 96 bits, 3 targets in any order |
| `evaluation_commands` | Does a report have the outcome of every file, whatever was there before and whoever was killed writing it? | 35 scripts of 1 to 3 commands over a dozen roots, each with up to 6 files sharing workloads, 3 buffers or geometries |
| `end_to_end` | Do fronts, summaries and look-ups stay true to what was searched? | 11 scripts of 2 to 5 commands, a network of 3 layers in 2 groups and one of 1, 2 architectures or geometries, up to 2 mappings per search, fronts of more than 3 rows thinned by 4 buckets |
| `trace_life` | Does a workload survive its way through the program? | 24 workload files and 13 architectures, 14 and 9 of them refused, all 9 search spaces, levels and output constraints asked for or not, 1 attempt with every draw |

Why the bounds are enough.  With two workers a chunk can finish before an
earlier one.  Five draws in
batches of two give a cut last chunk, a duplicate inside a chunk, one across
chunks and one across commands, and a target met in the middle of a chunk while
another chunk is in flight.  Two commands show every effect of a kill on a
resume, three show an effect of a resume on a later one (resume points built
from resume points).  With three traces over two workloads the shares differ.  Three stages,
each with its own import, and an extension with a larger `want` are what the
staging code distinguishes.  Five tasks at two per worker leave tasks waiting,
in flight and done at the same time under either executor; two replacements let
one follow another and a third be refused.  Fronts of three rows give nine pairs,
three batches of four, with a front above the limit after the first batch and
below it after the last; three layers are two bits, and the sums have enough
footprints for every shape of the tree up to five nodes.  The caches of
`evaluate_mapping` hold from one entry of a tensor to all of them, shares leave
remainders, tiles fill rows exactly, leave a rest or split, and the trace is cut in
some jobs and whole in others; each flag of a mapping is varied on its own.  The
scripts of `evaluation_commands` and `end_to_end` are chosen: every command, every
refusal and every pair of commands that read each other's files occurs, and a kill
may come at any step of any of them.  The factors 2, 3 and 4 of `trace_life` exceed
some caps and meet others, and split over up to four levels.  `Horizon` limits the table only: later attempts
draw nothing, as do attempts that find no factorisation.  `MaxRuns` limits
commands; `MaxAttempts` is the program's own bound.

`CHECK_DEADLOCK FALSE` is set where the system may stop: after `MaxRuns`
commands, or the last command of a script, nobody starts another.

Fairness is assumed of the processes that run and of nothing else: `WF(Parent)`
and `WF(Worker)` in PoolSearch and `WF(Process)` in SequentialSearch say that a
process with something to do goes on (the workers sample a finite chunk; the
parent never waits for anything but a worker), `WF(DrawChunk)` in SchedulerTurns that
its caller goes on drawing.  In EvalPool the parent and the one worker of a
thread pool are fair; nothing is assumed of worker processes, which may die, hang
or answer as they like.  No command has to be started and nothing has to be
killed.

### Properties

* `TurnsBalanced`, `RangesTile` (scheduler): the cursor survives removals, ranges
  tile.
* `TracesDistinct`, `JournalConsistent`, `ResumeNeverMovesBack` (directory): what a
  later command relies on.
* `ShortOnlyWhenSpent`, `Terminates` (loops).
* `ImplementsSampling`: the loops, with kills and restarts, implement
  TraceSampling under `draws <- stream[TheSeed]`, `kept <- traces`: the log of traces
  itself is the abstract log.
* `SameTraces` (WorkerCounts): both loops write the same files.  It holds while the
  budget lasts and not beyond (section 4).
* `StagesNested`, `SpacesDistinct`, `WorkKept` (staging), with `--no-resume` too.
  `SpacesDistinct` speaks of a, b and c: d is overwritten with c file by file, and
  halfway through an older d may hold a mapping twice; `StagesNested` says that a
  reported d is c.
* `EachTaskOnce`, `RowsKept`, `SubmissionOrder`, `Ends` (EvalPool): a
  task has a row, is in flight or waits, and only one of these, also between a
  wait that returned results with failures and the replacement; the silence of
  every worker is survived, and the number of replacements ends a run in which
  executors keep failing.
* `SweepExact` (ParetoSweep): at every row, what is kept is the front of what
  was taken.
* `FrontierExact`, `LossBounded` (FrontierCompose): pruning between powers,
  workloads and batches loses no total unless the result says so; one combination
  loses at most one bucket per metric, however often it was thinned.
* `ImplementsReuse`: the cache walk, with shares and remainders, implements
  ReuseCache.  `ResidentFits`: what all caches hold fits the PU.  `CacheNeverCosts`
  relates the simulation to every metric that uses it.
* `EstimateExact`, `TraceAgrees` (RowTrace): the ceiling division is the walk where
  it does not say otherwise, and the two streams and the counters of a trace agree
  until one is cut.  `VerifiedFits`: what passes the constraints, which count rows
  by the estimate, has room for the rows the walk places.
* `TableAsFresh` (EvaluationCommands): a finished table has one row for every file of
  every step, with its status and costs, also if rows were merged from a report that
  was killed while it was written.  A row torn after its hash is reused and written
  again without its error or breakdown, and no later merge repairs it: the property
  counts such workloads, and there are at most as many as kills inside the table
  (`cuts`).  A merge does not compare its architecture and target with those of the
  rows it finds: the property says that each row is of one the report was made or
  merged for (`archs`).  `archs` and `cuts` are ghosts of a directory.
* `FrontsOwn`, `WinnersBest`, `LinesHold` (EvaluationCommands): what is selected of the
  rows answers for the files asked for.  Fronts have no column that follows the hash,
  so `FrontsOwn` does not suffer from torn rows; it is about reports of one
  architecture and target (`OneArch`).  `SummaryVouches`: a
  summary is written last, so a whole one says that the rest is there.
* `EveryLayerOnce`, `NoneBetter`, `LeastEdap`, `SummaryReproduces`, `ResolvedWhole`
  (NetworkCommands): the directories of a run are extended, cut short, reseeded,
  cleared and killed between commands, and what stands afterwards still covers the
  network and misses nothing.  A thinned front may miss a choice, and the point of
  least EDAP with it; `NoneBetter` and `LeastEdap` therefore leave out what the
  summary reports as approximate, and the mutant of `LeastEdap` is a thinned front
  that says it is exact.
* `ReadBack`, `DrawsEverySchedule`, `WeightsExact`, `SearchSurvives` (TraceLife): what
  an edit or a draw leaves is what the next reader takes; the sampler reaches the
  schedules that fit, and a choice has for its weight the number of completions that
  the counting recursion stands for; no draw ends a search with an error.

## 4. What the violated run shows, and what else was met

* `worker_counts_two`: with several workloads in one directory
  (`run_random_search_multi`), which traces are kept depends on the worker count,
  against `seeding.py`.  A pool accepts whole chunks in submission order, and when it
  consumes the chunk that completes a workload it has already submitted a further
  turn of it; the sequential loop removes the workload first.  The attempts of that
  turn count against the budget that the workloads share.  In TLC's counterexample
  four attempts go to w1, w2, w1, w1 with one worker, which keeps a trace of each
  workload, and to w1, w2, w1, w2 with two, which keep the trace of w2 alone.  While
  the budget lasts, traces, numbers and journal are the same: the same configuration
  with `MaxAttempts = 12`, and with batches of 2 and 3 traces, has no counterexample.
  What a workload keeps are its first legal draws, in
  their order, in either case (`ImplementsSampling`); how many it keeps is what
  depends on the workers.
  The counters of `state.json` differ even with one workload: the sequential
  loop stops inside a chunk, the pool counts it whole.

The models contain the following behaviour as it is in the code; no property
excludes it.

* A first search killed between its first trace and its first state file leaves
  traces without a signature, and a command with another seed continues them.
* `manifest.json`, imported and derived traces are written in place.  A kill inside
  such a write leaves a file on which every later command raises, against the
  sentence of `README.md` quoted above.
* `--no-resume` fails at the second stage of any plan, since the import has filled
  the directory that the search then requires to be empty; before that it has
  overwritten the manifest of the root.
* `Workload.from_dict` refuses `sharing.system` above 1 without `sharing.pu`, but drawn
  sharing flags are independent of each other; verification drops the candidates
  that could not be read again (`ReadBack`).
* A merge takes a row that was torn after its `state_hash` for evaluated, and writes it
  without its breakdown or error for good.
* A merge does not ask for which architecture and target the rows it finds were
  evaluated.
* An architecture that leaves a level out, or has no cache block where a workload
  asks for a cache, is accepted when it is read and ends a search with an error.
* Entries of the breakdown that are recorded once, such as the cache counters,
  belong to the target that was asked for first, and are missing while another one
  is active.

## 5. Proofs

TLC checks the small instances above; TLAPS proves the following for every
number of workloads, workers, commands and attempts, every key set, every table
of draws and every batch size, from the named assumptions on the constants.

| Theorem | Module | Run that checks the property |
|---|---|---|
| `TurnsTypeCorrect`, `RoundRobinFair`, `AttemptsTiled` | SearchStoreProofs | `scheduler_turns` |
| `PoolTypeCorrect`, `NoMappingTwice`, `JournalFaithful`, `ResumePointsForward`, `PoolImplementsSampling`, `ShortRunsSpendTheBudget` | PoolSearchProofs | `pool_one` |
| `SequentialDirectorySound`, `SequentialResumeForward`, `SequentialImplementsSampling` | SequentialSearchProofs | `sequential` |
| `TypeCorrect`, `ReportedStagesNest`, `NothingImportedTwice`, `MigrationKeepsWork` | SpaceStagingProofs | `staging` |
| `EvalPoolTypeCorrect`, `EveryTaskOnce`, `SubmittedInOrder`, `ResultsFinal`, `AlwaysFed` | EvalPoolProofs | `eval_pool` |
| `FrontierTypeCorrect`, `SweepIsExact`, `ComposedExactly`, `ComposedSupported`, `ThinningBounded` | FrontierProofs | `frontier_compose` |
| `SummariesVouch`, `TablesAreFresh`, `FrontsAreOwn`, `WinnersAreFastest` | EvaluationCommandsProofs | `evaluation_commands` |
| `WalkCorrect`, `ResidentCorrect`, `ReuseRefined`, `TraceCorrect`, `CachePays`, `EstimateCorrect`, `PlacementCorrect` | ModelEvaluationProofs | `evaluate_mapping` |

*Lemmas about the scheduler* (the first part of SearchStoreProofs): `NextChunk`, `AfterNextChunk`
and `MarkComplete` stay within their types, and act pointwise as expected: one
workload advances, the removed workload alone leaves the list.

*RoundRobinFair* (the last part of SearchStoreProofs) rests on `TurnsInv`.  Balance alone is not inductive: it says
nothing of who is next.  The strengthening says that the active list has no
repetition, that the cursor points into it (`Pointed`), and that for some number
t every workload before the cursor has had t + 1 turns and every other active
one t (`InRound`).  Drawing moves the step by one position or begins a round;
removing a workload leaves it where it was.

*AttemptsTiled* rests on `TileInv`: the chunks of a workload lie between its
seeded start and its next attempt, and every attempt in between is in exactly
one of them.

*NoMappingTwice and JournalFaithful* rest on `PoolInv`.  Its part `StoreInv`
speaks of the directory alone.  `RunAhead` ties the memory of the parent to it:
the set `seen` of a running command contains every trace on disk, whichever
command wrote it.  `TraceInHand` covers the gap between the two writes: the last
trace file is the one the next row will name, drawn at the attempt that row will
record, and no row names it yet.  A kill keeps the first part and makes the
others vacuous.

*ResumePointsForward*: `ResumeNext` is the largest of three sources, of which
traces and journal only grow while `state.json` is replaced.  `RunAhead` says
that the resume points a running command holds are not below those of the state
file it will replace, so that no replacement lowers the largest.

SearchStoreProofs holds the part that does not depend on who writes, for use by
both loops.  *SequentialDirectorySound and SequentialResumeForward* follow from it
with the same two ties, `RunAhead` and `TraceInHand`, and `AtInChunk`, since that
loop stops inside a chunk and records the attempt after the one it stopped at.

*PoolImplementsSampling and SequentialImplementsSampling* assume `OneSetting`: all
commands over a directory have one seed and one `num_traces`, without which the
abstract specification has no stream to speak of.  A step of the loops either
writes a trace, and then must write the *first* draw that is legal and not kept,
or leaves the log alone.  What can go wrong is a draw that was passed over, and
`Covered(w, p)` says there is none below p: every legal draw of w below p is kept,
or w has its share, or the directory is complete.  `SampledInv` states it for what
is on disk (each row of the journal, the state file), so that a resume may start
there; `Gapless` for the traces themselves, whose number is a resume point as
well.  `Consumed` states it for a running command.  In the pool this needs that
chunks are consumed in the order of their submission without a gap: `Numbered` has
one outstanding chunk for every submission index, `Tiled` has those of a workload
adjoin.  In the sequential loop it needs `Counted`: a mapping that the loop takes
for a duplicate without a trace of it was dropped for a workload that has its
share.

*ShortRunsSpendTheBudget*: a run ends with less than it wants only if all attempts
of its budget are spent.  `Budgeted` counts attempts by submission index (`Cum`), a
workload leaves the scheduler only with its share (`Attended`), and the parent
waits for a chunk while there is one to hand out (`Watched`).  If the scheduler has
nobody left, all shares are filled, and the shares add up to `num_traces`
(`SharesAddUp`).

*The staging theorems* rest on `StagingInv`.  `WorkKept` says that a migration
deletes nothing the present version found; but the migration looks at the manifest
alone.  `Marked` is why that is enough: before the first trace of this version
there is a manifest of this version, so a root without one, or with an old one,
holds only old traces.  `StagesNested` is about reports, and not inductive:
`Nested` says it of a running command as far as it has come.  `Derived` has d agree
with c up to the trace in hand.  The assumptions on the constants say what
`plan_search_space_execution` returns and what an earlier version left behind:
spaces without repetition and no manifest of this version.

*EvalPoolProofs* rests on one invariant, `EvalInv`.  That a task is in one place
(`EachTaskOnce`) is not inductive.  A replacement submits what has no row, so
nothing may be left submitted when a new executor starts (`NothingSubmitted`); a
loop that has nothing in flight ends, so something must be in flight while a task
waits (`AlwaysOne`); the order of submissions to one executor distinguishes its
rows from those of its predecessors (`RowsOlder`); and `Counting` bounds silence
and replacements.  `PoolFed` (while tasks wait, the limit is in flight) is proved
on top of it, with cardinalities; no run checks it.

*SweepIsExact* starts from the tree: the recursive functions of its paths are shown
to exist (`Recursion`), and a query of index j meets the update of index i exactly
if i <= j (`PathsMeet`), by halving indices (`NoNodeBetween`) and descending on
2j - i.  `SweepInv` then says that a node holds the least energy of the kept rows
whose update visits it, that rows are taken in order, and that a dropped row is
dominated by a kept one, so that comparing with kept rows is enough.

*ComposedExactly and ComposedSupported* rest on three invariants.  `FrontierInv` has
types, finiteness and the control of the loops.  `CombineInv` says that what a
combination has so far is the front of the sums it has made, unless thinned: the
front of a set may be taken of any part that has something no worse for every row
(`CofinalFront`), hence batch by batch, and of sums of fronts (`FrontOfSums`).
`LoopInv` says that `result` stands for a layers and `power` for b, where a plus
`remaining` times b is the multiplicity (`Squaring`, `MultiplesAdd`), and that the
combined front stands for the workloads before `w`.

*ThinningBounded* follows bucket by bucket: a kept row is no worse, a thinned row
has a companion in its bucket, a lower metric no higher bucket (`BucketMonotone`).

*SummariesVouch* rests on `OrderInv`, for every script, input and table of
outcomes, killed at any step.  A whole summary says that every file the command
owes stands, is whole and is not older.  `Writing` is the argument: the summary is
the last of the files to be written; what is not to be written any more has been
written by this command, or is the baseline; and the summary that is there, if
any, is older than the command.  A merge works in the directory of an earlier
command, whose summary stays until the new one replaces it: the first file the
merge writes is newer (`Dated`), and from then on the old summary vouches for
nothing.  `Planning` has the directory of a command that still evaluates hold
nothing but a whole baseline and, for a merge, older files; `Known` bounds what a
merge can find.

*TablesAreFresh* is about a merge that finds rows of commands before it, some of
them killed while they wrote.  `FreshInv` has five parts.  `ReportsGood`: every row
of every report is the outcome of a workload on an architecture the report was
evaluated for, or has no hash (`GoodRow`), whole or cut, and there are no more cut
workloads than cuts (`Few`); so a row that is found under a key has, but for its
place, the status and costs of the row of the task (`RowFound`).
`Evaluating`: what a merge evaluates is what it has not found, and each result is
that of its task.  `Delivering`: the table that is to be written or stands is as
`TableAsFresh` wants it (`Owed`), and the fronts are those of such a table.  `Ending`:
a finished command has nothing left to write.  `Coming` carries the
assumption to the commands still to come.  That cut workloads do not multiply is a
matter of keys: the rows of a plan that lack something are rows that were found so,
one per key, and a kill adds one row (`FewerIncomplete`).  The rest is about lists: that every
occurrence is of exactly one task, so that expanding the tasks' rows gives each
file one row and as many rows as files (`ExpandedOnce`).  The
filters and joins of the model are folds of the library; what they do is proved
from the existence of the fold as a function (`FoldExists`), which the library
leaves to CHOOSE.  `ScriptsAssumption` says that a script and the discovered steps
and files are lists (the library's sort is opaque to the prover) and that a file
is known by a hash that is a natural number; what is left of a torn hash is not one
(-1 in the model).

*FrontsAreOwn* rests on the same invariant and on costs that are numbers not below
0 (`Measured`).  Of the rows of a state only the first of the least is kept, but
every state keeps one (`StateKept`), and within a group rows of a state cost the
same, since they were evaluated on one architecture (`ReportedOutcome`): so what is
dominated by a dropped row is dominated by a kept one.  Of the kept rows that are no
worse than a given one, that of the least sum of the two metrics and then of the
least key is on the front (`FrontCovers`, `LeastKey`).

*WinnersAreFastest* relates a winner to the files of the request, not to the table
it was selected from.  `SweepInv` says that what a script asks for is sound
(`Promised`), that each result is that of its task (`Sweeping`), and that the
winners are to be written or stand (`Awarding`).  A sweep evaluates one file of each
content, so the rest is about what stands for what: the distinct mappings of
some sources are a file of each content in them (`MappingsRepresent`), also once
a cap has left some out (`PoolRepresents`); the pools nest as the property says
what a config considers (`PoolsConsidered`); files of one content have one outcome
on an architecture, up to name and place (`SameOutcome`); and the least of the kept
rows is as fast as any row (`LeastIsFastest`).  `SweepsAssumption` says what Python's
`sorted` returns, the same elements as a list (the library's sort is opaque to the
prover), and what a request is: variants have their own identifiers, configs are
numbered in order, third inputs are not an empty list, and the costs of legal
rows are numbers.  Stating it for all inputs showed that the property had counted
files of a space that are no traces, which `_collect_step_workload_paths` passes
over; it counts traces now, and the run has a space with another file in it.

*WalkCorrect* is about one simulation of the caches, for every mapping and
architecture.  `WalkInv` ties the state of the walk, which the code changes loop
by loop and access by access, to the place of the access in the schedule.  The
point, read as digits, is the number of accesses so far (`NumberStands`); digits
never leave their loops, so an access can be recovered from its number (`KeyThere`).
The shared context is what the loops of each access wrote last: an access writes
the dimensions of its own level, and a loop that advances resets what lies below it
(`Forward`).  What a cache holds are the values used most recently, each once and
in that order, and as many as it has room for (`Recent`).  `Recent` is an
invariant of the list alone; that an access then hits exactly if fewer other values
than that were used since (`HitIffReused`) is what makes *ReuseRefined* true,
where the abstract specification looks back over the whole schedule and knows no
list.  The operators of the instance equal those of the model by their definitions
(`SameAccess`, `SameRoom`).

*ResidentCorrect* adds that the room of a group's tensors is their share of the
bytes: the shares of the groups are rounded down and the first groups get a byte of
the remainder each (`GroupsFit`), so do the tensors of a group (`SharesAddUp`), and
no tensor is in two groups (`CapacityFits`).
Division, sums and products over finite sets have their lemmas at the head of the
module; sums over a set are proved from the existence of the fold (`SetFoldExists`).

*TraceCorrect* rests on `RowInv`, which a row walk keeps access by access
(`TraceFollows`).  Tiles are placed one behind the other in the order of their
first access (`WalkedRows`), so those of the first rows are tracked and no others
(`Tracks`).  Until the stream of rows is
cut, the runs to a tracked row are as many as the times it was opened, they cover
what its tiles count, and the last run ends with the last access just if that was
to a tracked row (`RowStory`): this is what makes continuing a run in
`_append_tile_segment` right.  The stream of tiles has `TileStory`.  A cut stream
keeps its shape only.

*CachePays* rests on `CostInv`: only a legal mapping is costed, and the totals are
what the misses of the finished simulation cost (`Costed`).  By `WalkInv` those
misses are at most the accesses.  Every factor of a metric term is a natural number
(`FactorsTyped`), the tiles that share a remote access are at most all
shared ones (`SharedTiles`), and the terms without a cache differ in these places
only (`UncachedTerms`); so stream, compute and total are compared one by one
(`StreamNotMore`, `ComputeNotMore`, `TotalNotMore`).

*EstimateCorrect* rests on `CountInv`, which is `RowInv` together with what the row
walk has placed so far (`Counted`).  For weights and outputs the tile of an access
is told by the digits of the loops the tensor depends on, and by no others; read as
a number of their own these digits are its rank (`TileRankTells`).  From one access
to the next the rank grows by one at most or falls back to a tile already seen
(`RankNext`), so tiles are placed in the order of their ranks (`PlacedByRank`) and
in the end there are as many as the product of those loops (`AllPlaced`), which is
what the estimate multiplies.  The tiles of a hypertile have neighbouring ranks and
hypertiles follow each other (`HypertileOrder`).  A row of whole hypertiles is
therefore left for the next one only (`RowsInOrder`), and the openings are the rows;
where a row ends within a hypertile they are at least that.  Input tiles have no rank, since
`p + r` is the same for several p and r.  They are told apart by a key made of the
loops N, K and C and of one number per window and level, below the extents that
`_input_estimate` multiplies (`KeyBound`, `InputTold`), so there are at most as many
as it says (`InputFits`).

*PlacementCorrect* is then arithmetic: the rows placed are at most those of the
estimate (`CountedFits`), and the rows of all banks, with their rounding up and the
sharing of an interleaved bank, have room for them (`RoomForRows`).  Where an
interleaved layout stores both weights and inputs the code counts the larger of the
two, which needs a second bank.  Neither property is about mappings shared at a
system level, where the estimate is the share of one PU.

`JobsAssumption` says what a workload and an architecture are once they
are loaded: extents, weights and widths are positive, elements are at least a byte
wide (`max_tiles_per_row` raises otherwise; wider ones count in whole bytes,
`ElementBits`), indices add up dimensions, a dimension that a level does not list has
extent 1 there, and no tensor is in two groups.  `IndexAssumption`, which the last two theorems alone
use, says which computations the estimate is about: weights and outputs are indexed
by single dimensions, and the input has one index of P and R and one of Q and S.
The parser accepts any sum of dimensions, but `_input_estimate` names P, R, Q and S,
and the expressions of the repository's workloads (a convolution, a product of
matrices and a batched one) are of that form.

*Only model-checked.*  Liveness (`Terminates`, `Ends`): the prover does not handle
fairness and ENABLED.  TraceDrawing counts with recursive operators, which keeps
TraceLife out of the prover's reach.  `LinesHold` of EvaluationCommands selects
samples by their place in a sorted list; the prover does not look into `SortSeq`.
NetworkCommands rests on folds throughout, and `SameTraces` compares two whole runs.

## 6. Plan

Order of work, the most important behaviour first; all models are in place.

1. Scheduler, directory, pool search, sequential search, worker counts, staging;
   proofs for scheduler and pool.
2. Evaluation pool, sweep and composition with their proofs; the evaluation, sweep
   and end-to-end commands around them.
3. The analytical model with cache and row walks; workload and architecture
   descriptions, the sampler and its hand-overs.
4. Both loops implement TraceSampling; staging; the order of the files of a report.
5. The table, the fronts and the winners of a report, however it came about.
6. The cache walk for every mapping: what the caches hold, which accesses hit, and
   that no metric is worse for it; the row walk, its traces, and the estimate and
   the constraints that stand for it.
7. Left: `LinesHold`; `EveryLayerOnce`; `ReadBack` of WorkloadFiles, apart from the
   sampler.

## 7. Not modelled

* *GPAM* (`gpam/`) lowers a graph to workload files operator by operator, a
  translation of data; its output is what WorkloadFiles reads.
* *The AttAcc search* samples for one operator shape in one process, without
  resume; it shares no state with the others.
* *Code generation* for the external simulators is a straight-line walk of one
  mapping whose meaning the simulators decide; the *validation commands* compare
  numbers with them.
* `LoopBounds.set_extent` and `remove_extent` have no caller in the program; seed
  resolution from flag and environment is one expression; plots, unit conversions
  of bandwidth and frequency, and path names have no state.
* The exact hypertile simulation of `row_changes.py` is switched off by a constant, and
  no command passes `include_streaming` to its analysis.
* A random-set sweep finds the reports of a workload or of an architecture under the
  report root; a report directory given to it directly is left out.
* External simulators, figures, data and experiment scripts are not part of the
  program's logic.

## 8. Running

```
tlc -workers 2 -config MCPoolSearch_one.cfg MCPoolSearch
tlapm PoolSearchProofs.tla
```

`PROJECT.json` lists every run with its configuration, a mutant of the model
that each property catches, and for every definition the source lines it models.
The operators marked `Variant` in the modules are those mutants; no action uses
them.
