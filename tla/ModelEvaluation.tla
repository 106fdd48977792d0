-------------------------- MODULE ModelEvaluation --------------------------
(***************************************************************************)
(* One AnalyticalModel: evaluate_workload_metrics verifies the constraints *)
(* and asks for latency, footprint and energy of a target, simulating the  *)
(* caches on the way; other targets may be asked for on the same object.   *)
(* The row-change analysis is the other entry point on the same pair of    *)
(* workload and architecture.                                              *)
(*                                                                         *)
(* Of the breakdown, who wrote each entry is kept, not what.               *)
(***************************************************************************)
EXTENDS CacheWalk, RowTrace, Metrics

CONSTANTS
  Jobs,     \* the calls considered: records of call ("verify" or "analyse"),
            \* mapping, arch, clamp and target
  Targets   \* of "default", "upmem", "attacc", "hbm_pim", "simdram"

\* What a workload is once it is loaded: extents are positive, an index adds up
\* dimensions, the groups share no tensor and something is stored.  Elements are
\* a byte wide at least.
CacheGroup == [tensors : Seq(Tensors), weight : Nat \ {0}]

Mappings(top) ==
  [loops : [DimSet -> Nat \ {0}],
   bound : [0 .. top -> [DimSet -> Nat \ {0}]], listed : [0 .. 1 -> SUBSET DimSet],
   index : [Tensors -> Seq(SUBSET DimSet)],
   bits : [Tensors -> Nat \ 0 .. 7],
   streams : (SUBSET Tensors) \ {Tensors}, block : BOOLEAN, pu : BOOLEAN, system : 0 .. top,
   bitParallel : BOOLEAN, interleaved : BOOLEAN,
   cached : BOOLEAN, groups : Seq(CacheGroup),
   features : SUBSET {"activation", "base_die", "channel_level"}]

Disjoint(groups) ==
  \A i, j \in DOMAIN groups :
    \A k \in DOMAIN groups[i].tensors, l \in DOMAIN groups[j].tensors :
      groups[i].tensors[k] = groups[j].tensors[l] => i = j /\ k = l

Cost == [hostPu : Nat, load : Nat, store : Nat, compute : Nat, row : Nat,
         bankToBank : Nat, hostRow : Nat, tree : Nat]

Architectures(levels) ==
  [mode : {"regfile", "wram"}, cacheBytes : Nat, vectorBytes : Nat \ {0},
   rowBits : Nat, rows : Nat, banks : Nat \ {0}, lanes : Nat \ {0},
   organization : [levels -> Nat], channelLevel : Nat, treeWidth : Nat \ {0},
   colBits : Nat \ {0}, cost : [Kinds -> Cost],
   offers : SUBSET {"base_die", "channel_level", "add_tree_width"}]

ASSUME JobsAssumption ==
  \A job \in Jobs :
    /\ job.call \in {"verify", "analyse"} /\ job.clamp \in BOOLEAN /\ job.target \in Targets
    /\ Top(job.mapping) \in Nat \ {0, 1} /\ job.mapping \in Mappings(Top(job.mapping))
    /\ Disjoint(job.mapping.groups)
    /\ \A l \in 0 .. 1 : \A d \in DimSet \ job.mapping.listed[l] : job.mapping.bound[l][d] = 1
    /\ job.arch \in Architectures(DOMAIN job.arch.organization)

\* The computations _input_estimate is about: F and Out are indexed by single
\* dimensions, and of P and R the input has one index, of either or their sum; so
\* has it of Q and S.  Every workload of the repository is one.
Convolves(m) ==
  /\ \A t \in {"F", "Out"} : \A e \in Range(m.index[t]) : \E d \in DimSet : e = {d}
  /\ \A window \in {{"P", "R"}, {"Q", "S"}} : \E w \in SUBSET window :
       \A e \in Range(m.index["In"]) : e \cap window # {} => e = w

ASSUME IndexAssumption == \A job \in Jobs : Convolves(job.mapping)

VARIABLES
  mapping, arch, clamp,
  pc,
  target,     \* that evaluate_workload_metrics asks for
  breakdown,  \* _breakdown: the target that wrote an entry
  saved,      \* _metric_breakdown_lookup
  totals,     \* _latency_lookup and _energy_lookup, by target and kind
  active      \* _active_metric_target

input == << mapping, arch, clamp, target >>
callVars == << breakdown, saved, totals, active >>
vars == << input, pc, callVars, cacheVars, rowVars >>

Init ==
  /\ \E job \in Jobs :
       /\ mapping = job.mapping /\ arch = job.arch
       /\ clamp = job.clamp /\ target = job.target
       /\ pc = job.call
  /\ breakdown = << >> /\ saved = << >> /\ totals = << >> /\ active = "none"
  /\ CacheInit /\ RowInit

-----------------------------------------------------------------------------
(* evaluate_workload_metrics.                                              *)

\* The constructor checks the feature flags.  Counting the rows raises for an
\* unsupported sharing.
VerifyConstraints ==
  /\ pc = "verify"
  /\ pc' = IF \/ ~FlagsValid(mapping, arch)
                \/ /\ LanesFit(mapping, arch) /\ TilesFit(mapping, arch)
                   /\ ~SharingSupported(mapping)
             THEN "failed"
           ELSE IF Legal(mapping, arch, clamp) THEN "latency" ELSE "refused"
  /\ UNCHANGED << input, callVars, cacheVars, rowVars >>

\* The caches are simulated when the first target is evaluated.
CacheKnown == CacheEffective(mapping) => walk = "done"

SimulateCache ==
  /\ pc = "latency" /\ ~CacheKnown /\ walk = "idle"
  /\ StartWalk(mapping, arch)
  /\ pc' = IF walk' = "failed" THEN "failed" ELSE pc
  /\ UNCHANGED << input, callVars, rowVars >>

SimulateAccess ==
  /\ pc = "latency"
  /\ WalkStep(mapping, arch)
  /\ UNCHANGED << input, pc, callVars, rowVars >>

\* The entries of a target's own terms.  The others, such as the number of
\* temporal steps, are memoised: only the first target writes them.
Terms(t) == {"streaming", "compute"} \cup IF Saves(t) THEN {"save"} ELSE {}
Memoised == {"temporal steps"}

Overlay(f, g) == [k \in DOMAIN f \cup DOMAIN g |-> IF k \in DOMAIN g THEN g[k] ELSE f[k]]

\* _clear_active_metric_breakdown.
Cleared ==
  IF active = "none" THEN breakdown
  ELSE Restrict(breakdown, DOMAIN breakdown \ DOMAIN saved[active])

\* latency(t) and energy(t): the first of them evaluates the target, and saves
\* what that changed in the breakdown; later ones put it back.
EvaluateTarget(t) ==
  LET written == Terms(t) \cup IF saved = << >> THEN Memoised ELSE {}
      after == Overlay(Cleared, [k \in written |-> t])
      changed == {k \in DOMAIN after : k \notin DOMAIN Cleared \/ Cleared[k] # after[k]}
  IN  /\ t \notin DOMAIN saved
      /\ breakdown' = after
      /\ saved' = Overlay(saved, [s \in {t} |-> Restrict(after, changed)])
      /\ totals' = Overlay(totals, [s \in {t} |-> [k \in Kinds |->
                     TargetMetric(mapping, arch, k, t, misses, clamp)]])
      /\ active' = t

ActivateTarget(t) ==
  /\ t \in DOMAIN saved
  /\ IF active = t THEN UNCHANGED callVars
     ELSE /\ breakdown' = Overlay(Cleared, saved[t])
          /\ active' = t
          /\ UNCHANGED << saved, totals >>

Latency ==
  /\ pc = "latency" /\ CacheKnown
  /\ EvaluateTarget(target)
  /\ pc' = "energy"
  /\ UNCHANGED << input, cacheVars, rowVars >>

Energy ==
  /\ pc = "energy"
  /\ ActivateTarget(target)
  /\ pc' = "returned"
  /\ UNCHANGED << input, cacheVars, rowVars >>

\* Any further call on the same object.
AskAgain ==
  /\ pc = "returned"
  /\ \E t \in Targets : EvaluateTarget(t) \/ ActivateTarget(t)
  /\ UNCHANGED << input, pc, cacheVars, rowVars >>

-----------------------------------------------------------------------------
(* analyze_row_changes.                                                    *)

\* A tensor too large for a row raises.
Analyse ==
  /\ pc = "analyse"
  /\ IF \E t \in ToSet(Selected(mapping)) : MaxTilesPerRow(mapping, arch, t) = 0
     THEN pc' = "failed" /\ UNCHANGED rowVars
     ELSE pc' = "walking" /\ StartAnalysis(mapping)
  /\ UNCHANGED << input, callVars, cacheVars >>

AnalyseAccess ==
  /\ RecordAccess(mapping, arch, clamp)
  /\ UNCHANGED << input, pc, callVars, cacheVars >>

AnalyseNextTensor ==
  /\ FinishTensor(mapping, arch, clamp)
  /\ UNCHANGED << input, pc, callVars, cacheVars >>

Next ==
  \/ VerifyConstraints
  \/ SimulateCache \/ SimulateAccess
  \/ Latency \/ Energy \/ AskAgain
  \/ Analyse \/ AnalyseAccess \/ AnalyseNextTensor

Spec == Init /\ [][Next]_vars

-----------------------------------------------------------------------------
\* Every variable holds a value of its kind, and no trace grows past its limit.
TypeOK ==
  /\ clamp \in BOOLEAN /\ target \in Targets
  /\ pc \in {"verify", "latency", "energy", "returned", "refused", "failed", "analyse", "walking"}
  /\ active \in Targets \cup {"none"}
  /\ DOMAIN saved \subseteq Targets /\ DOMAIN totals = DOMAIN saved
  /\ Range(breakdown) \subseteq Targets
  /\ CacheTypeOK /\ RowTypeOK

\* The loops with their shared context and the LRU caches implement the reuse
\* of the reference schedule: an access hits exactly if its tensor has room
\* for all that was touched since (cache_sim.py: _run_regfile_fast_path and
\* _run_wram_fast_path against _simulate_grouped_cache_for_workload_oracle).
Walked ==
  LET nest == AccessNest(arch)
  IN  IF walk = "done" THEN Iterations(mapping, nest)
      ELSE SumFunctionOnSet(
             [k \in DOMAIN nest |-> point[nest[k][1]][nest[k][2]] * Period(mapping, nest, k)],
             DOMAIN nest)

Reuse == INSTANCE ReuseCache WITH accesses <- Walked
ImplementsReuse == Reuse!Spec

\* What the caches of all tensors hold never exceeds the cache of the PU,
\* whatever the weights and remainders (_allocate_cache_group_capacities,
\* _expand_group_allocations_to_tensors, the eviction loop).
ResidentFits ==
  walk \in {"on", "done"} =>
    SumFunctionOnSet([t \in Tensors |-> Len(order[t]) * EntryBytes(mapping, arch, t)],
                     CachedTensors(mapping)) <= arch.cacheBytes

\* The ceiling division of estimate_tensor_row_changes against the walk: with
\* tiles shared in a PU it counts the rows of F and Out, and unless it says
\* that a hypertile is split across rows it counts every change of the open
\* row; the input's rows are never underestimated.
EstimateExact ==
  \A t \in DOMAIN report :
    LET estimate == RowChangesPu(mapping, arch, t, clamp)
    IN  mapping.system = 0 =>
          /\ report[t].rows <= estimate
          /\ mapping.pu /\ t # "In" =>
               /\ report[t].rows = estimate
               /\ report[t].changes >= estimate
               /\ ~HypertileSplit(mapping, arch, t, clamp) => report[t].changes = estimate

\* The streams of a trace tell the same story as its counters: until a stream
\* is cut, the runs to a row are the times it was opened, they cover exactly
\* the accesses to its tiles, and no run could have been continued.
RunsOf(runs, at) == {i \in DOMAIN runs : runs[i].at = at}
Counts(runs) == [i \in DOMAIN runs |-> runs[i].count]
Covered(runs, at) == SumFunctionOnSet(Counts(runs), RunsOf(runs, at))
RowOf(placement) == placement \div TilesPerRow(mapping, arch, tensor, clamp)

TraceAgrees ==
  tensor # "none" =>
    /\ \A i \in DOMAIN rowRuns :
         /\ rowRuns[i].count = rowRuns[i].last - rowRuns[i].first + 1
         /\ i > 1 => \/ rowRuns[i].first > rowRuns[i - 1].last + 1
                     \/ rowRuns[i].at # rowRuns[i - 1].at
    /\ \A r \in 0 .. TraceRows - 1 :
         ~rowRunsCut =>
           /\ entries[r] = Cardinality(RunsOf(rowRuns, r))
           /\ Covered(rowRuns, r) =
                SumFunctionOnSet(Counts(tracked), {i \in DOMAIN tracked : RowOf(i - 1) = r})
    /\ ~tileRunsCut =>
         \A i \in DOMAIN tracked : tracked[i].count = Covered(tileRuns, i - 1)

\* A mapping that passes the constraints has room: the rows its tiles are
\* placed in fit the banks of the PU (_scheduling_constraints).
RowsPlaced ==
  SumFunctionOnSet([t \in DOMAIN report |-> report[t].rows * RowsPerChange(mapping, t)],
                   DOMAIN report)

PlacementFits == RowsPlaced <= arch.rows * arch.banks

VerifiedFits ==
  Legal(mapping, arch, clamp) /\ mapping.system = 0 /\ (StoresBoth(mapping) => arch.banks > 1)
    => PlacementFits

\* The simulated cache never makes a target slower or more costly than the
\* same mapping without one (the miss rates in _stream_metric and
\* _compute_metric are parts of the accesses of their own mode).
CacheNeverCosts ==
  \A t \in DOMAIN totals : \A k \in Kinds :
    totals[t][k] <= TargetMetric([mapping EXCEPT !.cached = FALSE], arch, k, t, misses, clamp)

=============================================================================
