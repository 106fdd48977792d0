----------------------------- MODULE ReportPlan -----------------------------
(***************************************************************************)
(* What an evaluation command evaluates, and the rows it makes of it: a    *)
(* task for every distinct workload of a group (all of a Pareto report, a  *)
(* geometry, a buffer variant, an activation config), and a row for every  *)
(* file that holds it.  Names, stems and identifiers are numbers.          *)
(***************************************************************************)
EXTENDS ReportInputs

CONSTANTS
  Outcome(_, _)  \* status and cost of a workload state on an architecture

NoCost == [latency |-> 0, footprint |-> 0, energy |-> 0]

\* _evaluation_task_key: the content of a file, or its path if it cannot be
\* loaded.
Key(file) ==
  [path |-> IF file.state = Unreadable THEN file.path ELSE 0, state |-> file.state]

\* A file at its place in a step of a group, on that group's architecture.
Occurrence(group, arch, step, i) ==
  [group |-> group, arch |-> arch, step |-> step.id, file |-> step.files[i], attempt |-> i - 1]

OccurrencesOf(group, arch, steps) ==
  FlattenSeq([s \in DOMAIN steps |->
    [i \in DOMAIN steps[s].files |-> Occurrence(group, arch, steps[s], i)]])

\* Variant: a geometry meets the workloads of the one before.
SameTaskAnyGroup(o, p) == Key(o.file) = Key(p.file)

SameTask(o, p) == o.group = p.group /\ Key(o.file) = Key(p.file)

\* The elements of a list at some of its places.
Picked(list, places) ==
  FoldLeftDomain(LAMBDA picked, i : IF i \in places THEN Append(picked, list[i]) ELSE picked,
                 << >>, list)

\* The first occurrence of a key makes the task.
TasksOf(occurrences) ==
  Picked(occurrences,
         {i \in DOMAIN occurrences : \A j \in 1 .. i - 1 : ~SameTask(occurrences[j], occurrences[i])})

\* _build_evaluation_plan and _build_geometry_evaluation_plan.
ParetoOccurrences(request) ==
  OccurrencesOf(0, << request.file, request.target >>, StepInputs(request.inputs))

GeometryOrder(request) == SetToSortSeq(Geometries(request), LAMBDA g, h : g < h)

GeometryArch(request, g) == << FileOf(InputsOf(request, g)[1]), request.target >>

GeometryOccurrences(request) ==
  LET geometries == GeometryOrder(request)
      Of(g) == OccurrencesOf(g, GeometryArch(request, g), StepInputs(InputsOf(request, g)))
  IN  FlattenSeq([i \in DOMAIN geometries |-> Of(geometries[i])])

\* Distinct mappings of the sources: the first of each, by name and path.
Distinct(occurrences) ==
  SetToSortSeq(ToSet(TasksOf(occurrences)),
               LAMBDA o, p : IF o.file.state.name = p.file.state.name
                             THEN o.file.path < p.file.path
                             ELSE o.file.state.name < p.file.state.name)

\* _discover_unique_mappings.
UniqueMappings(sources) == Distinct(OccurrencesOf(0, << >>, sources))

\* Variant: a mapping at the cap is left out.
CappedBelow(mappings, cap) ==
  Picked(mappings, {i \in DOMAIN mappings : cap = << >> \/ mappings[i].file.state.sharing < cap[1]})

\* Of the activation sweep: without those that share too widely.  A file that
\* cannot be loaded has no sharing, and passes.
Capped(mappings, cap) ==
  Picked(mappings, {i \in DOMAIN mappings : cap = << >> \/ mappings[i].file.state.sharing <= cap[1]})

\* _discover_unique_mappings of the activation sweep.
Pool(sources, cap) == Capped(UniqueMappings(sources), cap)

\* The sources of the three configs: a command that includes pools nests what a
\* config can do in what the next can, and caps the third alone.
PoolSources(request) ==
  LET first == << FirstSource(request) >>
      second == ActivationSources(request.inputs)
      third == ThirdSources(request)
  IN  IF request.inclusive THEN << first, first \o second \o third, first \o third >>
      ELSE << first, second, IF third = << >> THEN second ELSE third >>

CapOf(request, c) == IF request.inclusive /\ c # 3 THEN << >> ELSE request.cap

Pools(request) == [c \in 1 .. 3 |-> Pool(PoolSources(request)[c], CapOf(request, c))]

ConfigsOf(request) == IF request.hasThird THEN 1 .. 3 ELSE 1 .. 2

\* _discover_unique_mappings raises for an empty pool, and for workloads of
\* several names unless the command includes pools.
PoolsRefused(request) ==
  \E c \in ConfigsOf(request) :
    \/ Pools(request)[c] = << >>
    \/ /\ ~request.inclusive
       /\ Cardinality({o.file.state.name : o \in {o \in ToSet(Pools(request)[c]) :
                                                    o.file.state # Unreadable}}) > 1

\* The pools cannot be put together.
PoolsFail(request) ==
  \/ FirstRefused(request)
  \/ \E i \in DOMAIN request.third : ActivationSourceFails(request.third[i])
  \/ Conflict(ToSet(ThirdSources(request)), Fields)
  \/ PoolsRefused(request)

\* _build_evaluation_tasks: every mapping for every variant.
Cross(mappings, group, arch) ==
  [i \in DOMAIN mappings |-> [mappings[i] EXCEPT !.group = group, !.arch = arch]]

VariantTasks(mappings, variants, target) ==
  FlattenSeq([v \in DOMAIN variants |->
    Cross(mappings, variants[v].id, << variants[v].file, target >>)])

ActivationTasks(request) ==
  FlattenSeq([c \in ConfigsOf(request) |->
    Cross(Pools(request)[c], request.configs[c].id, << request.configs[c].file, request.target >>)])

\* _discover_buffer_variants: by size, then by name.
Variants(found) ==
  SetToSortSeq(found, LAMBDA v, u : IF v.bytes = u.bytes THEN v.id < u.id ELSE v.bytes < u.bytes)

-----------------------------------------------------------------------------
(* Rows.                                                                   *)

\* The columns of EVALUATIONS_FIELDNAMES, in order; detail says that what follows
\* the hash (error_type, error_message, breakdown_json) is whole.
Row(task, status, state, cost) ==
  [group |-> task.group, step |-> task.step, attempt |-> task.attempt,
   path |-> task.file.path, status |-> status, cost |-> cost, state |-> state,
   detail |-> "whole"]

Judged(task, state, hashed) ==
  LET result == Outcome(state, task.arch)
  IN  IF state = Unreadable \/ result.status = "error"
      THEN Row(task, "error", Unreadable, NoCost)
      ELSE Row(task, result.status, hashed, result.cost)

\* _evaluate_task of the Pareto and the geometry evaluation: ok, or invalid, or
\* an error, which has no hash.
Evaluated(task) == Judged(task, task.file.state, task.file.state)

\* _evaluate_geometry_task: the same on the architecture of the geometry.
EvaluatedInGeometry(task) == Judged(task, task.file.state, task.file.state)

\* Of the buffer sweeps: with the cache enabled, before the workload is hashed.
WithCache(state) == IF state = Unreadable THEN state ELSE [state EXCEPT !.cached = TRUE]

EvaluatedWithCache(task) ==
  Judged(task, WithCache(task.file.state), WithCache(task.file.state))

\* Of the activation sweep: the second and third config with the cache enabled,
\* the hash is that of the file.
EvaluatedInConfig(task) ==
  Judged(task, IF task.group = 1 THEN task.file.state ELSE WithCache(task.file.state),
         task.file.state)

RowAt(row, o) == [row EXCEPT !.step = o.step, !.attempt = o.attempt, !.path = o.file.path]

\* occurrences_by_task_key.
Held(task, occurrences) ==
  Picked(occurrences, {i \in DOMAIN occurrences : SameTask(occurrences[i], task)})

\* _expand_evaluation_rows: the row of a task at every file that holds it.
RowsHeld(row, held) == [j \in DOMAIN held |-> RowAt(row, held[j])]

ExpandedRows(tasks, rows, occurrences) ==
  FlattenSeq([i \in DOMAIN tasks |-> RowsHeld(rows[i], Held(tasks[i], occurrences))])

\* _expand_geometry_evaluation_rows.
GeometryRows(request, tasks, rows) ==
  ExpandedRows(tasks, rows, GeometryOccurrences(request))

\* _task_key_for_existing_evaluation_row.
KeyOfRow(row) ==
  [path |-> IF row.state = Unreadable THEN row.path ELSE 0, state |-> row.state]

\* _existing_unique_rows_by_task_key: the first row of a task, 0 if there is none.
RowFor(rows, task) == SelectInSeq(rows, LAMBDA r : KeyOfRow(r) = Key(task.file))

Missing(tasks, rows) ==
  Picked(tasks, {i \in DOMAIN tasks : RowFor(rows, tasks[i]) = 0})
=============================================================================
