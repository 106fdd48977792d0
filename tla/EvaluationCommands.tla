------------------------- MODULE EvaluationCommands -------------------------
(***************************************************************************)
(* The commands that evaluate the mappings of search directories, one      *)
(* after the other: Pareto evaluation, its merge into an existing report,  *)
(* and the geometry, buffer, random-set and activation sweeps.  Each       *)
(* checks what it is given, plans its tasks, has them evaluated, selects   *)
(* what it reports, and writes its files in place; a kill may come at any  *)
(* time.  How the pool comes by its rows is the subject of EvalPool.       *)
(***************************************************************************)
EXTENDS ReportSelection

CONSTANTS
  Scripts,          \* sequences of commands
  BaselineGeometry  \* BASELINE_GEOMETRY_ID, as a sequence of one

\* A script, and what a command discovers, are lists.  A file that is discovered
\* is loaded by its hash, a number, and what it costs are numbers.
Listing(s) == s \in Seq(ToSet(s))

Costs == [latency : Nat, footprint : Nat, energy : Nat]

Measured(file, arch) ==
  /\ file.state.id \in Nat /\ file.state.cached \in BOOLEAN
  /\ file.state # Unreadable /\ Outcome(file.state, arch).status = "ok" =>
       Outcome(file.state, arch).cost \in Costs

Discovered(steps, arch) ==
  /\ Listing(steps)
  /\ \A s \in ToSet(steps) :
       Listing(s.files) /\ \A f \in ToSet(s.files) : Measured(f, arch)

ASSUME ScriptsAssumption ==
  \A s \in Scripts : Listing(s) /\ \A r \in ToSet(s) :
    /\ r.kind \in {"pareto", "merge"} /\ ~ParetoRefused(r) =>
         Discovered(StepInputs(r.inputs), << r.file, r.target >>)
    /\ r.kind = "geometry" /\ ~GeometryRefused(r) =>
         /\ Listing(GeometryOrder(r))
         /\ \A g \in ToSet(GeometryOrder(r)) :
              Discovered(StepInputs(InputsOf(r, g)), GeometryArch(r, g))

\* What a sweep takes, it sorts: its sources, their mappings, its variants, which
\* have an identifier each.  What the rows of its tasks cost are numbers.
Sorts(list, set) == Listing(list) /\ ToSet(list) = set

SourcesListed(inputs, base) ==
  Sorts(Sources(inputs, base), {Source(inputs[i], base) : i \in DOMAIN inputs})

PoolListed(sources) ==
  /\ Listing(sources) /\ \A s \in ToSet(sources) : Listing(s.files)
  /\ Sorts(UniqueMappings(sources), ToSet(TasksOf(OccurrencesOf(0, << >>, sources))))

Numbered(row) ==
  row.status = "ok" => row.cost \in Costs /\ row.state.id \in Nat /\ row.state.cached \in BOOLEAN

VariantsListed(r) ==
  /\ SourcesListed(r.inputs, "d") /\ PoolListed(Sources(r.inputs, "d"))
  /\ Sorts(Variants(r.variants), r.variants)
  /\ \A v, u \in r.variants : v.id = u.id => v = u
  /\ \A t \in ToSet(VariantTasks(UniqueMappings(Sources(r.inputs, "d")),
                                Variants(r.variants), r.target)) : Numbered(EvaluatedWithCache(t))

ConfigsListed(r) ==
  /\ SourcesListed(r.inputs, "c")
  /\ r.third # << >> => DOMAIN r.third # {} /\ SourcesListed(r.third, "c")
  /\ \A c \in ConfigsOf(r) : PoolListed(PoolSources(r)[c]) /\ r.configs[c].id = c
  /\ \A t \in ToSet(ActivationTasks(r)) : Numbered(EvaluatedInConfig(t))

ASSUME SweepsAssumption ==
  \A s \in Scripts : \A r \in ToSet(s) :
    /\ r.kind = "buffer" /\ ~BufferRefused(r) /\ r.variants # {} => VariantsListed(r)
    /\ r.kind = "activation" /\ ~ActivationRefused(r, BaselineGeometry) /\ ~PoolsFail(r) =>
         ConfigsListed(r)

VARIABLES
  script,   \* the commands to come
  request,  \* the command that runs, or ran last
  command,  \* its number
  pc,
  outputs,  \* the report directories: kind, place and files; archs and cuts are no part
            \* of the program: the architectures and targets that the rows of the
            \* directory were ever evaluated for, and the tables cut short in it
  at,       \* the directory of the command
  tasks,    \* of the round that is evaluated
  rows,     \* the results so far, by task
  rounds,   \* the results of the rounds before
  existing, \* the rows a merge has found
  sample,   \* the mappings of a random-set sweep
  todo      \* the names and contents still to be written

vars == << script, request, command, pc, outputs, at, tasks, rows, rounds,
           existing, sample, todo >>

Init ==
  /\ script \in Scripts
  /\ request = << >> /\ command = 0 /\ pc = "idle"
  /\ outputs = << >> /\ at = 0 /\ tasks = << >> /\ rows = << >>
  /\ rounds = << >> /\ existing = << >> /\ sample = << >> /\ todo = << >>

Has(dir, name) == name \in DOMAIN dir.files
Whole(dir, name) == Has(dir, name) /\ dir.files[name].whole

File(content) == [whole |-> TRUE, by |-> command, content |-> content]
With(dir, name, file) ==
  [dir EXCEPT !.files = [n \in DOMAIN @ \cup {name} |-> IF n = name THEN file ELSE @[n]]]

\* _resolve_display_name: what the manifests name, or the baseline, or the input.
DisplayName(r) ==
  LET recorded == Recorded(AllSteps(r.inputs), "workload")
  IN  IF recorded # {} THEN CHOOSE w \in recorded : TRUE
      ELSE IF r.baseline # << >> THEN << r.baseline[1].state.name >>
      ELSE r.inputs[1].root.place["workload"]

\* The place of a Pareto report is its architecture and workload.
Place(r) == IF r.kind = "pareto" THEN << r.arch, DisplayName(r) >> ELSE << >>

NewDir(r) == [kind |-> r.kind, place |-> Place(r), files |-> << >>, archs |-> {}, cuts |-> 0]

\* The command begins with a plan, and files to be written before it is carried
\* out; a fresh report has a directory of its own.
BeginWith(r, dirs, dir, plan, first) ==
  /\ script' = Tail(script) /\ request' = r /\ command' = command + 1
  /\ outputs' = [dirs EXCEPT ![dir].archs = @ \cup {plan[i].arch : i \in DOMAIN plan}]
  /\ at' = dir /\ tasks' = plan /\ rows' = << >> /\ rounds' = << >> /\ todo' = first
  /\ pc' = IF first = << >> THEN "evaluate" ELSE "prepare"

Begin(r, dirs, dir, plan) == BeginWith(r, dirs, dir, plan, << >>)

\* The command raises; what it has made of its directory stays.
Raise(r, dirs) ==
  /\ script' = Tail(script) /\ request' = r /\ command' = command + 1
  /\ outputs' = dirs /\ pc' = "idle" /\ existing' = << >> /\ sample' = << >>
  /\ UNCHANGED << at, tasks, rows, rounds, todo >>

Ready(kind) ==
  /\ pc \in {"idle", "done"} /\ script # << >>
  /\ Head(script).kind = kind

Fresh(r) == Append(outputs, NewDir(r))

Output(name, content) == [name |-> name, content |-> content]

BaselineFile(r) ==
  IF r.baseline = << >> THEN << >>
  ELSE << Output("baseline", Outcome(r.baseline[1].state, << r.file, r.target >>).cost) >>

BaselineFails(r) ==
  r.baseline # << >> /\
    \/ r.baseline[1].state = Unreadable
    \/ Outcome(r.baseline[1].state, << r.file, r.target >>).status = "error"

-----------------------------------------------------------------------------
(* run of the Pareto evaluation, and merge_into_existing_output.           *)

StartPareto ==
  /\ Ready("pareto")
  /\ LET r == Head(script)
     IN  IF ParetoRefused(r) \/ BaselineFails(r) THEN Raise(r, outputs)
         ELSE /\ Begin(r, Fresh(r), Len(outputs) + 1, TasksOf(ParetoOccurrences(r)))
              /\ existing' = << >> /\ sample' = << >>

\* A report directory may hold files that cannot be read any more.
Damaged(dir) ==
  \E n \in {"manifest", "summary", "baseline"} : Has(dir, n) /\ ~Whole(dir, n)

\* _read_existing_evaluation_rows: what is left of a half-written table.
ExistingRows(dir) == IF Has(dir, "evaluations") THEN dir.files["evaluations"].content ELSE << >>

\* The baseline of the report is taken as it is, or evaluated and written first.
StartMerge ==
  /\ Ready("merge")
  /\ LET r == Head(script)
         dirs == SelectInSeq(outputs, LAMBDA d : d.kind = "pareto")
     IN  IF \/ dirs = 0 \/ ParetoRefused(r)
            \/ Damaged(outputs[dirs])
            \/ ~Has(outputs[dirs], "baseline") /\ BaselineFails(r)
         THEN Raise(r, outputs)
         ELSE LET found == ExistingRows(outputs[dirs])
              IN  /\ BeginWith(r, outputs, dirs, Missing(TasksOf(ParetoOccurrences(r)), found),
                               IF Has(outputs[dirs], "baseline") THEN << >> ELSE BaselineFile(r))
                  /\ existing' = found /\ sample' = << >>

StartGeometry ==
  /\ Ready("geometry")
  /\ LET r == Head(script)
     IN  IF GeometryRefused(r) THEN Raise(r, outputs)
         ELSE /\ Begin(r, Fresh(r), Len(outputs) + 1, TasksOf(GeometryOccurrences(r)))
              /\ existing' = << >> /\ sample' = << >>

-----------------------------------------------------------------------------
(* The latency sweeps.                                                     *)

BufferMappings(r) == UniqueMappings(Sources(r.inputs, "d"))

StartBuffer ==
  /\ Ready("buffer")
  /\ LET r == Head(script)
     IN  IF BufferRefused(r) \/ r.variants = {} THEN Raise(r, outputs)
         ELSE /\ Begin(r, Fresh(r), Len(outputs) + 1,
                       VariantTasks(BufferMappings(r), Variants(r.variants), r.target))
              /\ existing' = << >> /\ sample' = << >>

\* The directory is made before the pools are put together.
StartActivation ==
  /\ Ready("activation")
  /\ LET r == Head(script)
     IN  IF ActivationRefused(r, BaselineGeometry) THEN Raise(r, outputs)
         ELSE IF PoolsFail(r) THEN Raise(r, Fresh(r))
         ELSE /\ Begin(r, Fresh(r), Len(outputs) + 1, ActivationTasks(r))
              /\ existing' = << >> /\ sample' = << >>

\* _discover_pareto_report_dirs: the newest report in every place, of those that
\* have a manifest.
IsReport(dir) == dir.kind = "pareto" /\ Has(dir, "manifest")
NewestReports ==
  {Last(SelectSeq(outputs, LAMBDA d : IsReport(d) /\ d.place = p)) :
     p \in {d.place : d \in {d \in ToSet(outputs) : IsReport(d)}}}

ReportInputsD(dir) ==
  {i \in ToSet(dir.files["manifest"].content.inputs) :
     Mode(i.root) = "current" /\ "d" \in {s.id[2] : s \in Expanded(i)}}

\* _resolve_mapping_input: a root, a workload's reports or those of an
\* architecture, which must be of one workload; of a report, the directory of
\* step d.
ResolvedInputs(r) ==
  LET found == {d \in NewestReports :
                  IF r.through = "arch" THEN d.place[1] = r.arch ELSE d.place = r.place}
      whole == {d \in found : Whole(d, "manifest")}
  IN  IF r.through = "root" THEN {r.inputs[1]}
      ELSE IF Cardinality(found) # 1 THEN {}
      ELSE {[i EXCEPT !.step = "d"] :
              i \in UNION {ReportInputsD(d) :
                             d \in {d \in whole : d.files["manifest"].content.arch = r.arch}}}

RandomInput(r) == << CHOOSE i \in ResolvedInputs(r) : TRUE >>

\* _resolve_midpoint_variant: the middle one, or the one of the given size.
Midpoint(r) ==
  LET variants == Variants(r.variants)
  IN  IF r.midpoint = << >> THEN variants[Len(variants) \div 2 + 1]
      ELSE CHOOSE v \in r.variants : v.bytes = r.midpoint[1]

MidpointUnclear(r) ==
  IF r.midpoint = << >> THEN Cardinality(r.variants) % 2 = 0
  ELSE Cardinality({v \in r.variants : v.bytes = r.midpoint[1]}) # 1

RandomRefused(r) ==
  \/ r.budget < r.topk
  \/ ResolvedInputs(r) = {}
  \/ SourceFails(RandomInput(r)[1], "d")
  \/ OtherArch(ToSet(Sources(RandomInput(r), "d")), r.arch)
  \/ Mode(RandomInput(r)[1].root) = "ns"
  \/ NamesConflict(Sources(RandomInput(r), "d"))
  \/ MidpointUnclear(r)

\* _sample_mapping_points: without replacement, and all must load.
StartRandomSet ==
  /\ Ready("random_set")
  /\ LET r == Head(script)
     IN  IF RandomRefused(r) THEN Raise(r, outputs)
         ELSE LET mappings == UniqueMappings(Sources(RandomInput(r), "d"))
              IN  IF r.budget > Len(mappings) THEN Raise(r, Fresh(r))
                  ELSE \E chosen \in kSubset(r.budget, ToSet(mappings)) :
                         IF \E o \in chosen : o.file.state = Unreadable
                         THEN Raise(r, Fresh(r))
                         ELSE LET drawn == SelectSeq(mappings, LAMBDA o : o \in chosen)
                              IN  /\ Begin(r, Fresh(r), Len(outputs) + 1,
                                           VariantTasks(drawn, Variants(r.variants), r.target))
                                  /\ sample' = drawn /\ existing' = << >>

-----------------------------------------------------------------------------
(* Evaluation.                                                             *)

\* A result of the pool, in any order, is filed under its task.
EvaluateWith(Evaluate(_), kinds) ==
  /\ pc = "evaluate" /\ request.kind \in kinds
  /\ \E i \in DOMAIN tasks \ DOMAIN rows :
       rows' = [j \in DOMAIN rows \cup {i} |-> IF j = i THEN Evaluate(tasks[i]) ELSE rows[j]]
  /\ UNCHANGED << script, request, command, pc, outputs, at, tasks, rounds, existing, sample, todo >>

EvaluateParetoTask == EvaluateWith(Evaluated, {"pareto", "merge"})
EvaluateGeometryTask == EvaluateWith(EvaluatedInGeometry, {"geometry"})
EvaluateVariantTask == EvaluateWith(EvaluatedWithCache, {"buffer", "random_set"})
EvaluateConfigTask == EvaluateWith(EvaluatedInConfig, {"activation"})

\* A dead worker ends the plain pools, and too many the recovering one.
PoolFails ==
  /\ pc = "evaluate" /\ tasks # << >>
  /\ pc' = "idle"
  /\ UNCHANGED << script, request, command, outputs, at, tasks, rows, rounds, existing, sample, todo >>

RoundDone == pc = "evaluate" /\ DOMAIN rows = DOMAIN tasks
Results == [i \in DOMAIN tasks |-> rows[i]]

\* What is selected is written, in this order; or the command raises.
Report(files) ==
  /\ todo' = files /\ pc' = "write"
  /\ UNCHANGED << script, request, command, outputs, at, tasks, rows, rounds, existing, sample >>

NothingToReport ==
  /\ pc' = "idle"
  /\ UNCHANGED << script, request, command, outputs, at, tasks, rows, rounds, existing, sample, todo >>

\* Variant: the summary first.
SummaryFirst == << Output("summary", << >>),
                   Output("manifest", [arch |-> request.arch, inputs |-> request.inputs]) >>

\* The manifest of a report, with its steps, and the summary.
Records == << Output("manifest", [arch |-> request.arch, inputs |-> request.inputs]),
              Output("summary", << >>) >>

\* The rows of a report: those found for a task, or the new ones.
RowsOfPlan(plan) ==
  [i \in DOMAIN plan |->
     LET found == RowFor(existing, plan[i])
     IN  IF found # 0 THEN existing[found]
         ELSE rows[SelectInSeq(tasks, LAMBDA t : SameTask(t, plan[i]))]]

ParetoRows ==
  LET occurrences == ParetoOccurrences(request)
      plan == TasksOf(occurrences)
  IN  ExpandedRows(plan, RowsOfPlan(plan), occurrences)

SelectPareto ==
  /\ RoundDone /\ request.kind \in {"pareto", "merge"}
  /\ IF Successes(ParetoRows) = {} THEN NothingToReport
     ELSE Report(<< Output("evaluations", ParetoRows),
                    Output("front", StepFronts(ParetoRows)) >>
                    \o (IF request.kind = "merge" THEN << >> ELSE BaselineFile(request)) \o Records)

SelectGeometry ==
  /\ RoundDone /\ request.kind = "geometry"
  /\ LET all == GeometryRows(request, tasks, Results)
     IN  IF Successes(all) = {} THEN NothingToReport
         ELSE Report(<< Output("evaluations", all), Output("front", GeometryFronts(all)) >> \o Records)

\* A winner for every variant, or config.
GroupsOf(r) == IF r.kind = "buffer" THEN {v.id : v \in r.variants} ELSE ConfigsOf(r)

WinnerFiles(groups) ==
  << Output("evaluations", Results), Output("best", Winners(Results, groups)) >>

SelectBuffer ==
  /\ RoundDone /\ request.kind = "buffer"
  /\ LET groups == GroupsOf(request)
     IN  IF Failing(Results, groups) THEN NothingToReport
         ELSE Report(WinnerFiles(groups) \o Records)

\* The relative metrics are those of the first two winners.
SelectActivation ==
  /\ RoundDone /\ request.kind = "activation"
  /\ LET groups == GroupsOf(request)
     IN  IF Failing(Results, groups) \/ RelativeFails(Winners(Results, groups))
         THEN NothingToReport
         ELSE Report(WinnerFiles(groups)
                       \o << Output("relative", Relative(Winners(Results, groups))) >> \o Records)

\* A further round on one mapping for all variants.
NextRound(mapping) ==
  /\ tasks' = VariantTasks(<< mapping >>, Variants(request.variants), request.target)
  /\ rows' = << >> /\ rounds' = Append(rounds, Results)
  /\ UNCHANGED << script, request, command, pc, outputs, at, existing, sample, todo >>

SelectSample ==
  /\ RoundDone /\ request.kind = "random_set" /\ rounds = << >>
  /\ IF SampleFails(sample, Results, Variants(request.variants), Midpoint(request), request.topk)
     THEN NothingToReport
     ELSE NextRound(MidpointBest(sample, Results, Midpoint(request)))

\* _resolve_baseline_spec: a baseline goes by its name and by that of its file, the
\* workload by the names of its root, its manifest and its mappings.
WorkloadNames ==
  LET input == RandomInput(request)
  IN  Named(input, "workload") \cup Recorded(ToSet(Sources(input, "d")), "workload")
        \cup {<< o.file.state.name >> : o \in ToSet(sample)}
BaselinesNamed ==
  {f \in request.baselines : {<< f.token >>, << f.state.name >>} \cap WorkloadNames # {}}

SelectBestLine ==
  /\ RoundDone /\ request.kind = "random_set" /\ Len(rounds) = 1
  /\ IF LineRefused(Results, Variants(request.variants)) \/ Cardinality(BaselinesNamed) # 1
     THEN NothingToReport
     ELSE NextRound(Occurrence(0, << >>, Step([name |-> 0, manifest |-> << >>,
                                               spaces |-> [b \in {"d"} |-> BaselinesNamed]], "d"), 1))

\* _build_selected_evaluation_rows and _build_plot_rows: the baseline, the best
\* at the midpoint, and those that change most.
Lines ==
  LET variants == Variants(request.variants)
      top == TopChange(sample, rounds[1], variants, request.topk)
  IN  << LineOf(Results, variants), LineOf(rounds[2], variants) >>
        \o [i \in DOMAIN top |-> Line(rounds[1], top[i], variants)]

SelectLines ==
  /\ RoundDone /\ request.kind = "random_set" /\ Len(rounds) = 2
  /\ IF LineRefused(Results, Variants(request.variants)) THEN NothingToReport
     ELSE Report(<< Output("sampled", sample), Output("evaluations", FlattenSeq(Lines)),
                    Output("best", Lines[2]), Output("plot", Lines) >> \o Records)

-----------------------------------------------------------------------------
(* Writing, in place, and kills.                                           *)

WriteFile ==
  /\ pc \in {"prepare", "write"} /\ todo # << >>
  /\ outputs' = [outputs EXCEPT ![at] = With(@, Head(todo).name, File(Head(todo).content))]
  /\ todo' = Tail(todo)
  /\ pc' = IF Tail(todo) # << >> THEN pc ELSE IF pc = "write" THEN "done" ELSE "evaluate"
  /\ UNCHANGED << script, request, command, at, tasks, rows, rounds, existing, sample >>

\* Variant: the costs of a row come after its hash.
TornLate(row) == {[row EXCEPT !.cost = NoCost, !.detail = "cut"]}

\* What csv.DictReader makes of a row that ends early: before or inside its hash
\* it is nobody's; at the comma before the hash it goes by its path; after the
\* hash it counts as the row, without what follows.
TornRow(row) ==
  {[row EXCEPT !.state = [Unreadable EXCEPT !.id = -1], !.detail = "cut"],
   [row EXCEPT !.state = Unreadable, !.detail = "cut"],
   [row EXCEPT !.detail = "cut"]}

\* What a kill leaves of a table: some rows, and possibly a part of the next.
Cuts(table) ==
  {SubSeq(table, 1, n) : n \in 0 .. Len(table)} \cup
    UNION {{Append(SubSeq(table, 1, n - 1), row) : row \in TornRow(table[n])} : n \in DOMAIN table}

CutDir(dir, output, left) ==
  With([dir EXCEPT !.cuts = IF output.name = "evaluations" THEN @ + 1 ELSE @], output.name,
       [whole |-> FALSE, by |-> command, content |-> left])

KilledWriting ==
  /\ pc \in {"prepare", "write"} /\ todo # << >>
  /\ \E left \in IF Head(todo).name = "evaluations" THEN Cuts(Head(todo).content) ELSE {<< >>} :
       outputs' = [outputs EXCEPT ![at] = CutDir(@, Head(todo), left)]
  /\ pc' = "idle"
  /\ UNCHANGED << script, request, command, at, tasks, rows, rounds, existing, sample, todo >>

Killed ==
  /\ pc \in {"prepare", "write"}
  /\ pc' = "idle"
  /\ UNCHANGED << script, request, command, outputs, at, tasks, rows, rounds, existing, sample, todo >>

Next ==
  \/ StartPareto \/ StartMerge \/ StartGeometry \/ StartBuffer \/ StartActivation
  \/ StartRandomSet
  \/ EvaluateParetoTask \/ EvaluateGeometryTask \/ EvaluateVariantTask
  \/ EvaluateConfigTask \/ PoolFails
  \/ SelectPareto \/ SelectGeometry \/ SelectBuffer \/ SelectActivation
  \/ SelectSample \/ SelectBestLine \/ SelectLines
  \/ WriteFile \/ KilledWriting \/ Killed

Spec == Init /\ [][Next]_vars
-----------------------------------------------------------------------------
Done(kinds) == pc = "done" /\ request.kind \in kinds
Content(name) == outputs[at].files[name].content

\* All rows of the report were evaluated for what is now asked for.
OneArch == outputs[at].archs \subseteq {<< request.file, request.target >>}

\* What the rows of the report may have been evaluated for.
EvaluatedFor(o) == IF request.kind = "geometry" THEN {o.arch} ELSE outputs[at].archs

Planned ==
  IF request.kind = "geometry" THEN GeometryOccurrences(request) ELSE ParetoOccurrences(request)

\* The row is that of a fresh evaluation of the file, possibly without what follows
\* the hash; or it has lost its hash too, and has gone by its path for a file that
\* cannot be loaded any more.
FreshRow(row, o, archs) ==
  \E a \in archs :
    LET fresh == Evaluated([o EXCEPT !.arch = a])
    IN  \/ row \in {fresh, [fresh EXCEPT !.detail = "cut"]}
        \/ /\ o.file.state = Unreadable
           /\ row = [fresh EXCEPT !.status = row.status, !.cost = row.cost, !.detail = "cut"]

\* The workloads that lack what follows the hash.
Incomplete(table) == {KeyOfRow(r) : r \in {r \in ToSet(table) : r.detail = "cut"}}

\* The table of a report has one row for every file of every step, with the
\* outcome of that file, on its own geometry, also when most rows were found in
\* the report, whoever was killed writing it before.  A merge does not ask what
\* its rows were evaluated for: their costs are those on some architecture and
\* target the report was made or merged for.  Each kill inside the table costs
\* one workload at most what follows the hash; all other rows are as if all were
\* evaluated afresh (merge_into_existing_output, _expand_evaluation_rows).
TableAsFresh ==
  Done({"pareto", "merge", "geometry"}) =>
    LET table == Content("evaluations")
        Fits(r, o) == FreshRow(r, o, EvaluatedFor(o))
    IN  /\ Len(table) = Len(Planned)
        /\ \A o \in ToSet(Planned) : \E r \in ToSet(table) : Fits(r, o)
        /\ \A r \in ToSet(table) : \E o \in ToSet(Planned) : Fits(r, o)
        /\ Cardinality(Incomplete(table)) <= outputs[at].cuts

\* A front answers for its own step or geometry: its points are of files there,
\* none is dominated there, and every legal file is matched by a point
\* (_build_step_artifacts, _build_geometry_artifacts).
FrontsOwn ==
  Done({"pareto", "merge", "geometry"}) /\ (request.kind # "geometry" => OneArch) =>
    LET GroupFor(o) == IF request.kind = "geometry" THEN o.group ELSE o.step
    IN  \A g \in {GroupFor(o) : o \in ToSet(Planned)}, p \in Pairs :
          LET legal == {r \in {FrontRow(Evaluated(o)) : o \in {o \in ToSet(Planned) : GroupFor(o) = g}} :
                          r.status = "ok"}
          IN  legal # {} =>
                LET front == Content("front")[g][p]
                IN  /\ front \subseteq legal
                    /\ \A r \in legal : \E s \in front : NoWorse(s, r, p)
                    /\ \A s \in front, r \in legal : ~Dominates2(r, s, p)

\* The mappings a latency sweep promises to consider for a variant or config.
FilesIn(inputs, base) ==
  UNION {ToSet(StepFiles(inputs[i].root.spaces[base])) : i \in DOMAIN inputs}

Considered(r, g) ==
  IF r.kind = "buffer" THEN FilesIn(r.inputs, "d")
  ELSE LET first == ToSet(FirstSource(r).files)
           second == FilesIn(r.inputs, "c")
           third == IF r.third = << >> THEN second ELSE FilesIn(r.third, "c")
       IN  IF r.inclusive
           THEN << first, first \cup second \cup third, first \cup third >>[g]
           ELSE << first, second, third >>[g]

CappedAt(r, g) == r.kind = "activation" /\ r.cap # << >> /\ (r.inclusive => g = 3)

Eligible(r, g) == {f \in Considered(r, g) : CappedAt(r, g) => f.state.sharing <= r.cap[1]}

ArchOf(r, g) ==
  IF r.kind = "buffer" THEN << (CHOOSE v \in r.variants : v.id = g).file, r.target >>
  ELSE << r.configs[g].file, r.target >>

TaskFor(r, g, f) ==
  [group |-> g, arch |-> ArchOf(r, g), step |-> << >>, file |-> f, attempt |-> 0]

OutcomeOf(r, task) == IF r.kind = "buffer" THEN EvaluatedWithCache(task) ELSE EvaluatedInConfig(task)

\* The winner of a variant or config is the outcome of one of its mappings, and
\* none of them is faster there: a config that contains another one's mappings
\* considers them too, and a cap leaves out what it excludes and nothing else
\* (_discover_unique_mappings, _select_best_latency_rows).
WinnersBest ==
  Done({"buffer", "activation"}) =>
    \A g \in DOMAIN Content("best") :
      LET outcomes == {r \in {OutcomeOf(request, TaskFor(request, g, f)) : f \in Eligible(request, g)} :
                         r.status = "ok"}
          best == Content("best")[g]
      IN  /\ \E r \in outcomes : r.cost = best.cost /\ r.state = best.state
          /\ \A r \in outcomes : r.cost.latency >= best.cost.latency

\* Every line of a random-set sweep has a legal point for each variant and is one
\* mapping's; the best line is lowest at the midpoint of all that were sampled,
\* and no complete mapping that was left out changes more than a selected one
\* (_select_top_change_mappings, _select_midpoint_best_latency_mapping).
LinesHold ==
  Done({"random_set"}) =>
    LET lines == Content("plot")
        variants == Variants(request.variants)
        mid == CHOOSE i \in DOMAIN variants : variants[i] = Midpoint(request)
        Of(o, i) == EvaluatedWithCache([o EXCEPT !.group = variants[i].id,
                                                 !.arch = << variants[i].file, request.target >>])
        Curve(o) == [i \in DOMAIN variants |-> Of(o, i)]
        complete == {o \in ToSet(sample) : \A i \in DOMAIN variants : Of(o, i).status = "ok"}
        chosen == {lines[i][1].state : i \in 3 .. Len(lines)}
    IN  /\ \A k \in DOMAIN lines : \A i \in DOMAIN variants :
             /\ lines[k][i].status = "ok" /\ lines[k][i].group = variants[i].id
             /\ lines[k][i].state = lines[k][1].state
        /\ Cardinality(chosen) = request.topk
        /\ \A o \in ToSet(sample) : Of(o, mid).status = "ok" =>
             lines[2][mid].cost.latency <= Of(o, mid).cost.latency
        /\ \A o \in complete : Of(o, 1).state \notin chosen =>
             \A k \in 3 .. Len(lines) : Total(Curve(o)) <= Total(lines[k])

\* A whole summary vouches for its directory, unless a later command has touched
\* it: the other files are whole, all there, and of the same command; a merge
\* alone keeps a baseline (the order of the writes of every run).
Required(kind) ==
  {"evaluations", "manifest"} \cup
    (IF kind \in {"pareto", "geometry"} THEN {"front"} ELSE {"best"})

SummaryVouches ==
  \A d \in DOMAIN outputs :
    LET dir == outputs[d]
        by == dir.files["summary"].by
    IN  Whole(dir, "summary") /\ (\A n \in DOMAIN dir.files : dir.files[n].by <= by) =>
          /\ Required(dir.kind) \subseteq DOMAIN dir.files
          /\ \A n \in DOMAIN dir.files :
               Whole(dir, n) /\ (n # "baseline" => dir.files[n].by = by)
=============================================================================
