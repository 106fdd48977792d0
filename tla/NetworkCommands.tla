-------------------------- MODULE NetworkCommands --------------------------
(***************************************************************************)
(* The end-to-end commands, over the directories they share.               *)
(*                                                                         *)
(* run_end_to_end_workload_space.py takes a network to its combined        *)
(* frontier on some architectures: it searches mappings of every group of  *)
(* layers, evaluates them, and combines the frontiers.  It is re-run into  *)
(* the same directory, recomposes the frontier from evaluations that were  *)
(* saved, and plots again.  The geometry sweep does the same for all       *)
(* networks and geometries in a directory of its own, and chooses          *)
(* geometries; the sweeps that follow it look its newest run up.           *)
(*                                                                         *)
(* A command is a sequence of steps, todo.  It can be killed at every      *)
(* step, and a file that is being written is then left torn.  The search   *)
(* and the evaluation are the subjects of PoolSearch, SearchStore and      *)
(* EvaluationCommands: here a search finds mappings one after the other,   *)
(* and an evaluation writes all its rows into a new directory.             *)
(***************************************************************************)
EXTENDS NetworkPlan, TLC

CONSTANTS
  Scripts,      \* sequences of commands that are issued
  Networks,     \* DEFAULT_MODEL_SPECS, in their order
  Geometries,   \* of the swept architecture, in the order of their files
  Baseline,     \* BASELINE_GEOMETRY_BY_ARCH, one of the geometries
  DefaultRoot   \* DEFAULT_WORKLOAD_ROOT

VARIABLES
  script,    \* the commands still to be issued
  request,   \* the command that runs: << >> or << request >>
  todo,      \* the steps it has left, as records with a field "do"
  made,      \* what it has computed so far
  files,     \* by path, << content >>, or << >> when torn
  searches,  \* by path, the directory of a search without its manifest
  evals,     \* the directories of the evaluations: by place, the rows
  runs,      \* number of directories of the geometry sweep
  ended,     \* the last command, when it has come to its end
  resolved   \* what the last look-up returned

vars == << script, request, todo, made, files, searches, evals, runs, ended, resolved >>

Exists(p) == p \in DOMAIN files
Torn(p) == Exists(p) /\ files[p] = << >>
Whole(p) == Exists(p) /\ files[p] # << >>
Content(p) == files[p][1]
Written(p, x) == (p :> << x >>) @@ files

\* The groups of the network, cut off after n layers.
GroupsOf(model, n) == IF LayersFail(model, n) THEN << >> ELSE Groups(LayersRead(model, n))

Manifest(root, model) == << "manifest", root, model >>
SearchManifest(dir) == << "searched" >> \o dir
FrontFile(dir) == << "front" >> \o dir
Combined(pipe, place) == << "combined", pipe, place >>
Summary(pipe, place) == << "summary", pipe, place >>
Top(pipe) == << "top", pipe >>

Pipe(model) == << "e2e", model >>
SweepDir(k) == << "run", k >>
SweepPipe(k, model) == << "run", k, model >>
Dir(pipe, place, group) == << pipe, place, group.token >>

Init ==
  /\ script \in Scripts /\ request = << >> /\ todo = << >> /\ made = << >>
  /\ files = [p \in {Manifest(DefaultRoot, model) : model \in ToSet(Networks)} |->
                << LayersRead(p[3], Len(LayerTable[p[3]])) >>]
  /\ searches = << >> /\ evals = << >> /\ runs = 0
  /\ ended = << >> /\ resolved = << >>

-----------------------------------------------------------------------------
(* The steps of the commands.                                              *)

Each(S(_), n) == FlattenSeq([i \in 1 .. n |-> S(i)])

\* _run_random_search_with_cleanup_on_incompatible_output.
Searching(dir, config, seed, r) ==
  << [do |-> "open", dir |-> dir, config |-> config],
     [do |-> "find", dir |-> dir, seed |-> seed, traces |-> r.traces, scarce |-> r.scarce],
     [do |-> "derive", dir |-> dir] >>

Combining(pipe, place, groups) ==
  << [do |-> "combine", pipe |-> pipe, place |-> place, groups |-> groups],
     [do |-> "summarise", pipe |-> pipe, place |-> place, groups |-> groups],
     [do |-> "plot", pipe |-> pipe, place |-> place, groups |-> groups] >>

\* run and _run_arch_pipeline.
RunSteps(r) ==
  LET pipe == Pipe(r.model)
      groups == GroupsOf(r.model, r.layers)
      One(place, group) ==
        LET dir == Dir(pipe, place, group)
        IN  Searching(dir, r.root, << r.seed >>, r) \o
            << [do |-> "evaluate", dirs |-> << dir >>], [do |-> "front", dir |-> dir] >>
      At(place) ==
        Each(LAMBDA i : One(place, groups[i]), Len(groups)) \o Combining(pipe, place, groups)
  IN  << [do |-> "manifest", root |-> r.root, model |-> r.model, layers |-> r.layers] >> \o
      Each(LAMBDA i : At(r.arches[i]), Len(r.arches)) \o
      << [do |-> "top", pipe |-> pipe, groups |-> groups, arches |-> r.arches] >>

\* Variant: the groups are those of the manifest of the workloads.
GroupsNow(r) ==
  IF Whole(Manifest(DefaultRoot, r.model)) THEN Groups(Content(Manifest(DefaultRoot, r.model)))
  ELSE << >>

\* _load_saved_generated_workloads: the summary holds the manifest of its run.
GroupsSaved(r) == Content(Top(Pipe(r.model))).groups

\* _run_recompose_only and _run_recompose_arch.
RecomposeSteps(r) ==
  LET pipe == Pipe(r.model)
      top == Content(Top(pipe))
      groups == GroupsSaved(r)
      One(place, group) ==
        << [do |-> "reload", dir |-> Dir(pipe, place, group), saved |-> top.arches],
           [do |-> "front", dir |-> Dir(pipe, place, group)] >>
      At(place) ==
        << [do |-> "load", pipe |-> pipe, place |-> place, saved |-> top.arches] >> \o
        Each(LAMBDA i : One(place, groups[i]), Len(groups)) \o Combining(pipe, place, groups)
  IN  Each(LAMBDA i : At(r.arches[i]), Len(r.arches)) \o
      << [do |-> "rewrite", path |-> Top(pipe), content |-> top] >>

\* _run_plot_only.
PlotSteps(r) ==
  LET pipe == Pipe(r.model)
      groups == IF Whole(Top(pipe)) THEN Content(Top(pipe)).groups ELSE << >>
  IN  [i \in DOMAIN r.arches |->
         [do |-> "plot", pipe |-> pipe, place |-> r.arches[i], groups |-> groups]] \o
      IF Whole(Top(pipe))
      THEN << [do |-> "rewrite", path |-> Top(pipe), content |-> Content(Top(pipe))] >>
      ELSE << >>

\* Variant: the rows of the table are not counted.
AnyRows(model, n) == TRUE

\* _require_csv_layer_rows.
RowsAgree(model, n) == Len(LayerTable[model]) = n

\* _run_model_pipeline, _run_geometry_searches_for_workload and
\* _compose_geometry_model_frontier.  The seed of a search is derived from the
\* network, the geometry and the group.
SweepNetwork(r, k, model, n) ==
  LET pipe == SweepPipe(k, model)
      groups == GroupsOf(model, n)
      Search(place, group) ==
        Searching(Dir(pipe, place, group), DefaultRoot,
                  << r.seed, model, place, group.token >>, r)
      One(group) ==
        Each(LAMBDA i : Search(Geometries[i], group), Len(Geometries)) \o
        << [do |-> "evaluate", dirs |-> [i \in DOMAIN Geometries |->
                                           Dir(pipe, Geometries[i], group)]] >>
      At(place) ==
        << [do |-> "combine", pipe |-> pipe, place |-> place, groups |-> groups],
           [do |-> "point", pipe |-> pipe, place |-> place, groups |-> groups] >>
  IN  << [do |-> "check", model |-> model, layers |-> n],
         [do |-> "manifest", root |-> DefaultRoot, model |-> model, layers |-> n] >> \o
      Each(LAMBDA i : One(groups[i]), Len(groups)) \o
      Each(LAMBDA i : At(Geometries[i]), Len(Geometries))

\* _manifest_layer_count, for every network before the directory is made.
SweepSteps(r, k) ==
  LET Rows(model) == Len(Content(Manifest(DefaultRoot, model)))
  IN  Each(LAMBDA i : SweepNetwork(r, k, Networks[i], Rows(Networks[i])), Len(Networks)) \o
      << [do |-> "choose", run |-> k,
          groups |-> [model \in ToSet(Networks) |-> GroupsOf(model, Rows(model))]] >>

-----------------------------------------------------------------------------
(* A command begins, comes to its end, raises or is killed.  One that is   *)
(* refused when it begins changes nothing: it is left out.                 *)

LeaveOut ==
  /\ request = << >> /\ script # << >>
  /\ script' = Tail(script)
  /\ UNCHANGED << request, todo, made, files, searches, evals, runs, ended, resolved >>

Begin(r, steps) ==
  /\ request = << >> /\ script # << >>
  /\ script' = Tail(script)
  /\ request' = << r >> /\ todo' = steps /\ made' = << >> /\ ended' = << >>
  /\ UNCHANGED << files, searches, evals, resolved >>

StartRun(r) ==
  /\ r.do = "run"
  /\ ~LayersFail(r.model, r.layers)
  /\ Begin(r, RunSteps(r))
  /\ UNCHANGED runs

StartRecompose(r) ==
  /\ r.do = "recompose"
  /\ Whole(Top(Pipe(r.model)))
  /\ Begin(r, RecomposeSteps(r))
  /\ UNCHANGED runs

\* A torn summary of the run raises, a missing one does not.
StartPlot(r) ==
  /\ r.do = "plot"
  /\ \A place \in ToSet(r.arches) :
       Exists(Summary(Pipe(r.model), place)) /\ Exists(Combined(Pipe(r.model), place))
  /\ ~Torn(Top(Pipe(r.model)))
  /\ Begin(r, PlotSteps(r))
  /\ UNCHANGED runs

StartSweep(r) ==
  /\ r.do = "sweep"
  /\ \A model \in ToSet(Networks) : Whole(Manifest(DefaultRoot, model))
  /\ runs' = runs + 1
  /\ Begin(r, SweepSteps(r, runs + 1))

Running(kind) == request # << >> /\ todo # << >> /\ Head(todo).do = kind
Step == todo' = Tail(todo)
Kept == UNCHANGED << script, request, runs, ended, resolved >>

Finish ==
  /\ request # << >> /\ todo = << >>
  /\ ended' = request /\ request' = << >> /\ made' = << >>
  /\ UNCHANGED << script, todo, files, searches, evals, runs, resolved >>

-----------------------------------------------------------------------------
(* The step that is next.                                                  *)

WriteManifest ==
  /\ Running("manifest")
  /\ LET s == Head(todo)
     IN  files' = Written(Manifest(s.root, s.model), LayersRead(s.model, s.layers))
  /\ Step /\ Kept /\ UNCHANGED << made, searches, evals >>

\* The layers are counted before any is read.
CheckRows ==
  /\ Running("check")
  /\ RowsAgree(Head(todo).model, Head(todo).layers)
  /\ ~LayersFail(Head(todo).model, Head(todo).layers)
  /\ Step /\ Kept /\ UNCHANGED << made, files, searches, evals >>

Empty == [seed |-> << >>, found |-> {}, derived |-> {}]
Search(dir) == IF dir \in DOMAIN searches THEN searches[dir] ELSE Empty

\* _validate_existing_output_root: the workload is another file.
Incompatible(s) ==
  Whole(SearchManifest(s.dir)) /\ Content(SearchManifest(s.dir)) # s.config

\* Output without a manifest is of an earlier version, and cleared.
OpenSearch ==
  /\ Running("open")
  /\ LET s == Head(todo)
         manifest == SearchManifest(s.dir)
     IN  /\ ~Torn(manifest) /\ ~Incompatible(s)
         /\ searches' = (s.dir :> IF Exists(manifest) THEN Search(s.dir) ELSE Empty) @@ searches
         /\ files' = Written(manifest, s.config)
  /\ Step /\ Kept /\ UNCHANGED << made, evals >>

\* The directory of another workload is removed, and the search begins again.
RemoveIncompatible ==
  /\ Running("open") /\ Incompatible(Head(todo))
  /\ LET s == Head(todo)
     IN  /\ files' = [p \in DOMAIN files \ {SearchManifest(s.dir)} |-> files[p]]
         /\ searches' = [dir \in DOMAIN searches \ {s.dir} |-> searches[dir]]
  /\ Kept /\ UNCHANGED << todo, made, evals >>

\* state.json names the seed of a search once it has begun.
SeedFits(s) == Search(s.dir).seed \in {<< >>, s.seed}

Numbers(search) == {m[2] : m \in search.found}

Find ==
  /\ Running("find")
  /\ LET s == Head(todo)
         n == CHOOSE n \in 1 .. Cardinality(Search(s.dir).found) + 1 :
                n \notin Numbers(Search(s.dir))
     IN  /\ SeedFits(s)
         /\ Cardinality(Search(s.dir).found) < s.traces
         /\ searches' = [searches EXCEPT ![s.dir].seed = s.seed,
                                         ![s.dir].found = @ \cup {<< s.seed, n >>}]
  /\ Kept /\ UNCHANGED << todo, made, files, evals >>

\* It ends with the mappings asked for, or when its attempts are spent.
EndSearch ==
  /\ Running("find") /\ SeedFits(Head(todo))
  /\ Head(todo).scarce \/ Cardinality(Search(Head(todo).dir).found) >= Head(todo).traces
  /\ searches' = [searches EXCEPT ![Head(todo).dir].seed = Head(todo).seed]
  /\ Step /\ Kept /\ UNCHANGED << made, files, evals >>

\* Variant: a directory that is there is not written again.
DerivedOnce(search) == IF search.derived # {} THEN search.derived ELSE search.found

\* _derive_space_d_from_c, of every mapping at every call.
Derived(search) == search.found

\* _derive_selected_frontier_step.
Derive ==
  /\ Running("derive")
  /\ LET dir == Head(todo).dir
     IN  searches' = [searches EXCEPT ![dir].derived = Derived(searches[dir])]
  /\ Step /\ Kept /\ UNCHANGED << made, files, evals >>

\* By directory, the rows that run_workload_space_pareto_eval.run and its
\* sweep over geometries write.
RowsOfDirs(dirs) ==
  [dir \in ToSet(dirs) |-> Evaluations(dir[2], dir[3], searches[dir].derived)]

FrontOf(rows, dir) == Front3(RowsOf(rows, dir[3]))

\* Every directory has a row that is legal.
AllHaveRows(rows) == \A dir \in DOMAIN rows : \E e \in rows[dir] : e.result.ok

Evaluate ==
  /\ Running("evaluate")
  /\ LET rows == RowsOfDirs(Head(todo).dirs)
     IN  /\ AllHaveRows(rows)
         /\ evals' = Append(evals, rows)
         /\ made' = [dir \in DOMAIN rows |-> [rows |-> FrontOf(rows[dir], dir),
                                              eval |-> Len(evals) + 1]] @@ made
  /\ Step /\ Kept /\ UNCHANGED << files, searches >>

WriteFront ==
  /\ Running("front")
  /\ files' = Written(FrontFile(Head(todo).dir), made[Head(todo).dir].rows)
  /\ Step /\ Kept /\ UNCHANGED << made, searches, evals >>

Network(s) ==
  Compose(s.groups, [token \in Tokens(s.groups) |-> made[<< s.pipe, s.place, token >>].rows])

WriteCombined ==
  /\ Running("combine")
  /\ LET s == Head(todo)
     IN  files' = Written(Combined(s.pipe, s.place), Serialized(Network(s).rows, s.groups))
  /\ Step /\ Kept /\ UNCHANGED << made, searches, evals >>

EvalsOf(pipe, place, groups) ==
  [token \in Tokens(groups) |-> made[<< pipe, place, token >>].eval]

WriteSummary ==
  /\ Running("summarise")
  /\ LET s == Head(todo)
     IN  files' = Written(Summary(s.pipe, s.place),
                          [evals |-> EvalsOf(s.pipe, s.place, s.groups), titles |-> << >>,
                           approximate |-> Network(s).approximate])
  /\ Step /\ Kept /\ UNCHANGED << made, searches, evals >>

\* _load_layer_indices_by_token_from_combined_frontier_csv; of a torn file, the
\* rows before the tear, here none.
LayersIn(path, token) ==
  IF Torn(path) THEN {}
  ELSE {a.layer : a \in {a \in UNION {r.layers : r \in Content(path)} : a.part.token = token}}

TokensPlotted(s) ==
  IF s.groups # << >> THEN Tokens(s.groups) ELSE DOMAIN Content(Summary(s.pipe, s.place)).evals

\* _resolve_plot_workload_metadata.
Titles(s) ==
  [token \in TokensPlotted(s) |->
     IF s.groups # << >>
     THEN ToSet((CHOOSE g \in ToSet(s.groups) : g.token = token).layers)
     ELSE LayersIn(Combined(s.pipe, s.place), token)]

\* _resolve_current_per_workload_frontier_csvs, after the titles.
Plottable(s) ==
  /\ Whole(Summary(s.pipe, s.place))
  /\ \A token \in TokensPlotted(s) :
       Titles(s)[token] # {} /\ Exists(FrontFile(<< s.pipe, s.place, token >>))

\* _render_arch_plot_outputs, and the summary with what it returns.
Plot ==
  /\ Running("plot")
  /\ LET s == Head(todo)
         summary == Summary(s.pipe, s.place)
     IN  /\ Plottable(s)
         /\ files' = Written(summary, [Content(summary) EXCEPT !.titles = Titles(s)])
  /\ Step /\ Kept /\ UNCHANGED << made, searches, evals >>

WriteTop ==
  /\ Running("top")
  /\ LET s == Head(todo)
     IN  files' = Written(Top(s.pipe),
           [groups |-> s.groups,
            arches |-> [place \in ToSet(s.arches) |-> EvalsOf(s.pipe, place, s.groups)]])
  /\ Step /\ Kept /\ UNCHANGED << made, searches, evals >>

\* _load_saved_arch_summary and _load_saved_eval_artifacts: the evaluations that
\* the summary of the run names go before those of the architecture's summary.
Reloadable(s) == s.place \in DOMAIN s.saved /\ ~Torn(Summary(s.pipe, s.place))

LoadSummary ==
  /\ Running("load") /\ Reloadable(Head(todo))
  /\ Step /\ Kept /\ UNCHANGED << made, files, searches, evals >>

\* _resolve_saved_evaluations_csv.
Named(s) == s.dir[3] \in DOMAIN s.saved[s.dir[2]]

ReloadFront ==
  /\ Running("reload") /\ Named(Head(todo))
  /\ LET s == Head(todo)
         eval == s.saved[s.dir[2]][s.dir[3]]
     IN  made' = (s.dir :> [rows |-> FrontOf(evals[eval][s.dir], s.dir), eval |-> eval]) @@ made
  /\ Step /\ Kept /\ UNCHANGED << files, searches, evals >>

\* The summary that was read, with what the command adds to it.
RewriteTop ==
  /\ Running("rewrite")
  /\ files' = Written(Head(todo).path, Head(todo).content)
  /\ Step /\ Kept /\ UNCHANGED << made, searches, evals >>

WritePoint ==
  /\ Running("point")
  /\ LET s == Head(todo)
         network == Network(s)
         point == BestPoint(network.rows, s.place)
     IN  /\ files' = Written(Summary(s.pipe, s.place),
                            [point |-> point, approximate |-> network.approximate])
         /\ made' = (<< s.pipe, s.place >> :> point) @@ made
  /\ Step /\ Kept /\ UNCHANGED << searches, evals >>

\* run, of the geometry sweep, after the last network.
WriteChoice ==
  /\ Running("choose")
  /\ LET s == Head(todo)
         points == [model \in ToSet(Networks) |->
                      [g \in ToSet(Geometries) |-> made[<< SweepPipe(s.run, model), g >>]]]
     IN  files' = Written(Top(SweepDir(s.run)),
           [groups |-> s.groups,
            points |-> points,
            winners |-> [model \in ToSet(Networks) |-> ModelWinner(points[model])],
            mean |-> MeanWinner(points, Networks, ToSet(Geometries))])
  /\ Step /\ Kept /\ UNCHANGED << made, searches, evals >>

-----------------------------------------------------------------------------
(* What ends a command early.                                              *)

Fails(s) ==
  \/ s.do = "open" /\ Torn(SearchManifest(s.dir))
  \/ s.do = "find" /\ ~SeedFits(s)
  \/ s.do = "evaluate" /\ ~AllHaveRows(RowsOfDirs(s.dirs))
  \/ s.do = "check" /\ (~RowsAgree(s.model, s.layers) \/ LayersFail(s.model, s.layers))
  \/ s.do = "load" /\ ~Reloadable(s)
  \/ s.do = "reload" /\ ~Named(s)
  \/ s.do = "plot" /\ ~Plottable(s)

Gone == request' = << >> /\ todo' = << >> /\ made' = << >>

Raise ==
  /\ request # << >> /\ todo # << >> /\ Fails(Head(todo))
  /\ Gone /\ UNCHANGED << script, files, searches, evals, runs, ended, resolved >>

Kill ==
  /\ request # << >>
  /\ Gone /\ UNCHANGED << script, files, searches, evals, runs, ended, resolved >>

\* The file that the step writes in place.
Target(s) ==
  CASE s.do = "manifest" -> Manifest(s.root, s.model)
    [] s.do = "open" -> SearchManifest(s.dir)
    [] s.do = "front" -> FrontFile(s.dir)
    [] s.do = "combine" -> Combined(s.pipe, s.place)
    [] s.do \in {"summarise", "plot", "point"} -> Summary(s.pipe, s.place)
    [] s.do = "top" -> Top(s.pipe)
    [] s.do = "rewrite" -> s.path
    [] s.do = "choose" -> Top(SweepDir(s.run))
    [] OTHER -> << >>

KillWriting ==
  /\ request # << >> /\ todo # << >>
  /\ LET s == Head(todo)
     IN  /\ Target(s) # << >> /\ ~Fails(s) /\ ~(s.do = "open" /\ Incompatible(s))
         /\ files' = (Target(s) :> << >>) @@ files
  /\ Gone /\ UNCHANGED << script, searches, evals, runs, ended, resolved >>

\* rmtree goes through the directory in no order.
KillRemoving ==
  /\ Running("open") /\ Incompatible(Head(todo))
  /\ LET s == Head(todo)
     IN  \E left \in SUBSET Search(s.dir).found, seed \in {<< >>, Search(s.dir).seed},
            derived \in {{}, Search(s.dir).derived}, kept \in BOOLEAN :
           /\ searches' = (s.dir :> [seed |-> seed, found |-> left, derived |-> derived]) @@ searches
           /\ files' = IF kept THEN files
                       ELSE [p \in DOMAIN files \ {SearchManifest(s.dir)} |-> files[p]]
  /\ Gone /\ UNCHANGED << script, evals, runs, ended, resolved >>

KillDeriving ==
  /\ Running("derive")
  /\ LET dir == Head(todo).dir
     IN  \E some \in SUBSET searches[dir].found \ {{}, searches[dir].found} :
           searches' = [searches EXCEPT ![dir].derived = @ \cup some]
  /\ Gone /\ UNCHANGED << script, files, evals, runs, ended, resolved >>

-----------------------------------------------------------------------------
(* The sweeps after a geometry sweep take the mappings of the baseline     *)
(* geometry: resolve_end_to_end_model_input.                               *)

\* _is_valid_end_to_end_run_dir.
IsValidRun(k) == Exists(Top(SweepDir(k)))

ValidRuns == {k \in 1 .. runs : IsValidRun(k)}

\* resolve_end_to_end_run_dir: the newest, unless one is named.
RunsOf(r) == IF r.run # 0 THEN ValidRuns \cap {r.run}
             ELSE {k \in ValidRuns : \A j \in ValidRuns : j <= k}

\* load_generated_workloads.
GroupsOfRun(k, model) == Content(Top(SweepDir(k))).groups[model]

\* discover_token_trace_sources.
Sources(k, model, groups) ==
  [token \in Tokens(groups) |-> Search(<< SweepPipe(k, model), Baseline, token >>).found]

Resolve(r) ==
  /\ r.do = "resolve"
  /\ request = << >> /\ script # << >>
  /\ \E k \in RunsOf(r) :
       LET groups == GroupsOfRun(k, r.model)
           sources == Sources(k, r.model, groups)
       IN  /\ Whole(Top(SweepDir(k)))
           /\ \A token \in DOMAIN sources : sources[token] # {}
           /\ resolved' = << [model |-> r.model, groups |-> groups, sources |-> sources] >>
  /\ script' = Tail(script)
  /\ UNCHANGED << request, todo, made, files, searches, evals, runs, ended >>

Issued == IF script = << >> THEN {} ELSE {Head(script)}

Next ==
  \/ LeaveOut
  \/ \E r \in Issued : \/ StartRun(r) \/ StartRecompose(r) \/ StartPlot(r) \/ StartSweep(r)
                       \/ Resolve(r)
  \/ WriteManifest \/ CheckRows \/ OpenSearch \/ RemoveIncompatible \/ Find \/ EndSearch
  \/ Derive \/ Evaluate \/ WriteFront \/ WriteCombined \/ WriteSummary \/ Plot \/ WriteTop
  \/ LoadSummary \/ ReloadFront \/ RewriteTop \/ WritePoint \/ WriteChoice
  \/ Finish \/ Raise \/ Kill \/ KillWriting \/ KillRemoving \/ KillDeriving

Spec == Init /\ [][Next]_vars

-----------------------------------------------------------------------------
(* Properties.                                                             *)

Completed(kind) == ended # << >> /\ ended[1].do = kind

\* The frontiers that stand where the last command has come to its end: of the
\* network, where its searches lie, at a place, with the layers it has there.
Stands ==
  IF Completed("run")
  THEN {[model |-> ended[1].model, pipe |-> Pipe(ended[1].model), place |-> place,
         layers |-> ended[1].layers] : place \in ToSet(ended[1].arches)}
  ELSE IF Completed("sweep")
  THEN {[model |-> model, pipe |-> SweepPipe(runs, model), place |-> g,
         layers |-> Len(LayerTable[model])] : <<model, g>> \in ToSet(Networks) \X ToSet(Geometries)}
  ELSE {}

Indices(model, n) == {LayerTable[model][i].index : i \in 1 .. n}

\* Every row of a combined frontier gives every layer of the network a mapping,
\* one: after a run of the layers it was asked for, after the geometry sweep of
\* all layers of the table, whatever manifests earlier commands have written.
EveryLayerOnce ==
  \A f \in Stands : \A row \in Content(Combined(f.pipe, f.place)) :
    /\ Cardinality(row.layers) = f.layers
    /\ {a.layer : a \in row.layers} = Indices(f.model, f.layers)

\* The costs of the network for every choice of a mapping its searches have found
\* for each of its layers.
MappingsOf(f, layer) ==
  {m \in searches[<< f.pipe, f.place, Token(layer) >>].found :
     Outcome(f.place, Token(layer), m).ok}

ChoiceCosts(f) ==
  LET Extend(costs, layer) ==
        {[m \in Metrics |-> c[m] + Outcome(f.place, Token(layer), mapping).cost[m]] :
           <<c, mapping>> \in costs \X MappingsOf(f, layer)}
  IN  FoldLeft(Extend, {Identity.cost}, LayersRead(f.model, f.layers))

\* The summary of the frontier reports that it was thinned.
Approximate(f) == Content(Summary(f.pipe, f.place)).approximate

\* After a run, a re-run or a sweep, no choice of found mappings, one for each
\* layer, costs less than the combined frontier in any respect, unless that is
\* reported as approximate: however searches were resumed, extended, cleared or
\* killed before.
NoneBetter ==
  \A f \in {f \in Stands : ~Approximate(f)} : \A c \in ChoiceCosts(f) :
    \E row \in Content(Combined(f.pipe, f.place)) : \A m \in Metrics : row.cost[m] <= c[m]

\* The winner that a geometry sweep names for a network has the least energy *
\* delay * area of all choices of mappings on all geometries whose frontier is not
\* reported as approximate, although the point of a geometry is taken from its
\* frontier of other metrics.
LeastEdap ==
  Completed("sweep") =>
    \A f \in {f \in Stands : ~Approximate(f)} :
      LET top == Content(Top(SweepDir(runs)))
          winner == top.winners[f.model]
      IN  \A c \in ChoiceCosts(f) :
            Edap(top.points[f.model][winner].cost, winner) <= Edap(c, f.place)

\* After a run or a recomposition the summary of the run vouches for the combined
\* frontiers: the groups and the evaluations it names give them.
SummaryReproduces ==
  (Completed("run") \/ Completed("recompose")) =>
    LET pipe == Pipe(ended[1].model)
        top == Content(Top(pipe))
    IN  \A place \in ToSet(ended[1].arches) :
          Content(Combined(pipe, place)) =
            Serialized(Compose(top.groups,
              [token \in DOMAIN top.arches[place] |->
                 LET dir == << pipe, place, token >>
                 IN  FrontOf(evals[top.arches[place][token]][dir], dir)]).rows, top.groups)

\* What a later sweep is given covers the network: every layer of the table is in
\* one of the groups, and every group has a mapping that is legal.
ResolvedWhole ==
  resolved # << >> =>
    LET r == resolved[1]
    IN  /\ UNION {ToSet(g.layers) : g \in ToSet(r.groups)} =
             Indices(r.model, Len(LayerTable[r.model]))
        /\ \A token \in Tokens(r.groups) :
             \E m \in r.sources[token] : Outcome(Baseline, token, m).ok
=============================================================================
