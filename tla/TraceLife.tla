----------------------------- MODULE TraceLife -----------------------------
(***************************************************************************)
(* What becomes of a workload description: it is read, edited for a search *)
(* space, handed to the workers as a mapping, copied with drawn factors    *)
(* into candidates, and the accepted candidates are written as traces that *)
(* later commands read, edit and evaluate.  Between any two of these the   *)
(* workload passes through to_dict and from_dict, and only from_dict       *)
(* checks all that a description must satisfy.                             *)
(***************************************************************************)
EXTENDS TraceDrawing

CONSTANTS
  WorkloadChoices, \* workload files
  ArchChoices,     \* architecture files
  LevelChoices,    \* levels a command may ask for: absent or a set
  OutputChoices,   \* levels the output's dimensions may be split at, likewise
  MaxAttempts      \* bound on the attempts of a search

VARIABLES
  pc,
  files,     \* the two files of the command
  arch,      \* the architecture
  base,      \* the workload as it was read
  plan,      \* the space, the levels and the constraint of the search
  prepared,  \* the workload that is searched
  attempts,
  schedule,  \* the factors of the attempt
  sharing,   \* and its pragmas
  trace,     \* the candidate that was accepted, or derived from one
  written    \* its file

vars == << pc, files, arch, base, plan, prepared, attempts, schedule, sharing, trace, written >>

Nothing == << >>

Init ==
  /\ pc = "start"
  /\ files \in [workload : WorkloadChoices, arch : ArchChoices]
  /\ attempts = 0
  /\ arch = Nothing /\ base = Nothing /\ plan = Nothing /\ prepared = Nothing
  /\ schedule = Nothing /\ sharing = Nothing /\ trace = Nothing /\ written = Nothing

-----------------------------------------------------------------------------
(* Up to the search.  "refused" is an error before anything was searched,  *)
(* "raised" one that ends a search or a command that is under way.         *)

Load ==
  /\ pc = "start"
  /\ base' = FromDict(files.workload) /\ arch' = ArchFromDict(files.arch)
  /\ pc' = IF Given(base') /\ Given(arch') THEN "loaded" ELSE "refused"
  /\ UNCHANGED << files, plan, prepared, attempts, schedule, sharing, trace, written >>

\* run_workload_space_random_search.py prepares a workload for every space.
Prepare ==
  /\ pc = "loaded"
  /\ \E s \in DOMAIN Spaces \ {"plain", "plain_searched"}, storeAll \in BOOLEAN :
       LET copy == FromDict(ToDict(base[1]))[1]
       IN  IF PrepareAccepted(copy, arch[1], Spaces[s])
              /\ Valid(Prepared(copy, arch[1], Spaces[s], storeAll))
           THEN /\ prepared' = << Prepared(copy, arch[1], Spaces[s], storeAll) >>
                /\ plan' = << [space |-> Spaces[s]] >> /\ pc' = "prepared"
           ELSE UNCHANGED << prepared, plan >> /\ pc' = "refused"
  /\ UNCHANGED << files, arch, base, attempts, schedule, sharing, trace, written >>

\* run_random_search.py searches a workload as it is.
SkipPrepare ==
  /\ pc = "loaded"
  /\ \E s \in {"plain", "plain_searched"} : plan' = << [space |-> Spaces[s]] >>
  /\ prepared' = base /\ pc' = "prepared"
  /\ UNCHANGED << files, arch, base, attempts, schedule, sharing, trace, written >>

\* _resolve_pragma_search_context: pragmas are only searched where they are.
PragmasRefused(w, space) ==
  /\ space.searchPu \/ space.searchSystem \/ space.searchCache
  /\ ~Given(w.layout) \/ ~Given(w.layout[1].sharing)

\* _prepare_workload_contexts.
Configure ==
  /\ pc = "prepared"
  /\ \E asked \in LevelChoices, constraint \in OutputChoices :
       LET levels == ResolvedLevels(arch[1], asked)
       IN  IF \/ LevelsRefused(levels) \/ PragmasRefused(prepared[1], plan[1].space)
              \/ ConstraintRefused(prepared[1], levels, constraint)
           THEN pc' = "refused" /\ UNCHANGED plan
           ELSE /\ pc' = "configured"
                /\ plan' = << [space |-> plan[1].space, levels |-> levels,
                               constraint |-> constraint] >>
  /\ UNCHANGED << files, arch, base, prepared, attempts, schedule, sharing, trace, written >>

\* _worker_init: the workers read the workload that the search hands them.
StartWorkers ==
  /\ pc = "configured"
  /\ pc' = IF Given(FromDict(ToDict(prepared[1]))) THEN "searching" ELSE "raised"
  /\ UNCHANGED << files, arch, base, plan, prepared, attempts, schedule, sharing, trace, written >>

-----------------------------------------------------------------------------
(* The attempts.                                                           *)

Drawable == Schedules(prepared[1], arch[1], plan[1].levels, plan[1].constraint)

NoPragmas == [pu |-> FALSE, system |-> 0, cache |-> FALSE]

\* _sample_attempt_descriptor: a schedule beyond the architecture raises.
Draw ==
  /\ pc = "searching" /\ attempts < MaxAttempts
  /\ schedule' \in {<< s >> : s \in Drawable}
  /\ sharing' \in
       {<< s >> : s \in IF Given(prepared[1].layout) /\ Given(prepared[1].layout[1].sharing)
                        THEN Sharings(prepared[1], plan[1].levels, plan[1].space)
                        ELSE {NoPragmas}}
  /\ pc' = IF EarlyChecksPass(arch[1], schedule'[1]) THEN "drawn" ELSE "raised"
  /\ attempts' = attempts + 1
  /\ UNCHANGED << files, arch, base, plan, prepared, trace, written >>

\* The sampler finds no schedule: the attempt is counted.
DrawNothing ==
  /\ pc = "searching" /\ attempts < MaxAttempts
  /\ GivesUp(prepared[1], arch[1], plan[1].levels, plan[1].constraint)
  /\ attempts' = attempts + 1
  /\ UNCHANGED << pc, files, arch, base, plan, prepared, schedule, sharing, trace, written >>

\* The loops and the layout as the analytical model takes them.
AsMapping(w) ==
  LET layout == w.layout[1]
      shared == layout.sharing[1]
  IN  [loops |-> w.problem,
       bound |-> [l \in DOMAIN w.bounds |-> [d \in DimSet |->
                    IF d \in DOMAIN w.bounds[l] THEN w.bounds[l][d] ELSE 1]],
       index |-> w.compute.index, bits |-> w.attrs, streams |-> layout.streams,
       block |-> shared.block, pu |-> shared.pu, system |-> shared.system,
       bitParallel |-> layout.bit[1], interleaved |-> layout.interleaving[1]]

\* The model's constructor raises; verify_constraints answers FALSE for every
\* error in it, as for sharing it does not support or a level that is missing.
Evaluable(w, a) == Required(w) /\ (w.layout[1].cache[1] => Given(a.cache))

\* Variant: sharing beyond PUs is not looked at.
VerifiedUnshared(m, a) == m.system <= Top(m) /\ Legal(m, a, FALSE)

Verified(m, a) == m.system <= Top(m) /\ SharingSupported(m) /\ Legal(m, a, FALSE)

\* _validate_attempt_descriptor.
Validate ==
  /\ pc = "drawn"
  /\ IF ~Required(prepared[1]) THEN pc' = "raised" /\ UNCHANGED << trace, written >>
     ELSE LET candidate == Materialized(prepared[1], schedule[1], sharing[1])
          IN  IF ~Valid(candidate) \/ ~Evaluable(candidate, arch[1])
              THEN pc' = "raised" /\ UNCHANGED << trace, written >>
              ELSE IF Verified(AsMapping(candidate), arch[1])
              THEN pc' = "accepted" /\ trace' = << candidate >> /\ written' = << ToDict(candidate) >>
              ELSE pc' = "searching" /\ UNCHANGED << trace, written >>
  /\ UNCHANGED << files, arch, base, plan, prepared, attempts, schedule, sharing >>

\* The search goes on with another attempt, whatever became of the trace.
GoOn ==
  /\ pc \in {"accepted", "read", "evaluated"}
  /\ pc' = "searching" /\ trace' = Nothing /\ written' = Nothing
  /\ UNCHANGED << files, arch, base, plan, prepared, attempts, schedule, sharing >>

-----------------------------------------------------------------------------
(* What later commands do with a trace.                                    *)

\* A resumed search, the staging and every evaluation read it.
Read ==
  /\ pc = "accepted"
  /\ trace' = FromDict(written[1])
  /\ pc' = IF Given(trace') THEN "read" ELSE "raised"
  /\ UNCHANGED << files, arch, base, plan, prepared, attempts, schedule, sharing, written >>

\* _derive_space_d_from_c: the same mapping with a cache, written as a trace.
Derive ==
  /\ pc = "read"
  /\ LET derived == Prepared(trace[1], arch[1], Spaces["d"], FALSE)
     IN  IF Valid(derived) THEN /\ trace' = << derived >> /\ written' = << ToDict(derived) >>
                                /\ pc' = "accepted"
         ELSE pc' = "raised" /\ UNCHANGED << trace, written >>
  /\ UNCHANGED << files, arch, base, plan, prepared, attempts, schedule, sharing >>

\* The overrides an evaluation makes in the workload it read: none, a cache,
\* or a cache and sharing up to some level.
Overridden(w) ==
  LET cached == [w EXCEPT !.layout[1].cache = << TRUE >>]
  IN  {w, cached}
        \cup {[cached EXCEPT !.layout[1].sharing[1].pu = TRUE,
                             !.layout[1].sharing[1].system = l] : l \in DOMAIN w.bounds}

Evaluate ==
  /\ pc = "read"
  /\ \E w \in Overridden(trace[1]) :
       pc' = IF Valid(w) /\ Evaluable(w, arch[1]) THEN "evaluated" ELSE "raised"
  /\ UNCHANGED << files, arch, base, plan, prepared, attempts, schedule, sharing, trace, written >>

Next ==
  \/ Load \/ Prepare \/ SkipPrepare \/ Configure \/ StartWorkers
  \/ Draw \/ DrawNothing \/ Validate \/ GoOn
  \/ Read \/ Derive \/ Evaluate

Spec == Init /\ [][Next]_vars
-----------------------------------------------------------------------------
(* Properties.                                                             *)

\* Every workload that is handed over as a mapping, to the workers or in a
\* trace, is read back as the workload it was: nothing between the edits, the
\* draws and the verification lets one through that from_dict refuses or
\* reads otherwise.  Drawn sharing flags are independent of each other, so
\* that half of what a direct search draws would be refused when read.
ReadBack ==
  /\ pc = "configured" => FromDict(ToDict(prepared[1])) = prepared
  /\ pc = "accepted" => FromDict(written[1]) = trace

\* The schedules a search can draw are exactly those that split every extent
\* over the levels within the lanes, the units of every level the
\* architecture has, and the output's levels.
SplitsOf(w, levels) ==
  LET split == {d \in DOMAIN w.problem : w.problem[d] > 1}
      ways(d) == {f \in [levels -> Divisors(w.problem[d])] : Product(f, levels) = w.problem[d]}
      chosen == {g \in [split -> UNION {ways(d) : d \in split}] : \A d \in split : g[d] \in ways(d)}
  IN  {[l \in levels |-> [d \in DOMAIN w.problem |-> IF d \in split THEN g[d][l] ELSE 1]] :
         g \in chosen}

DrawsEverySchedule ==
  pc = "configured" =>
    LET w == prepared[1]
        fits(s) == /\ LevelTotal(s, 0) <= arch[1].lanes
                   /\ \A l \in DOMAIN s \cap DefinedLevels(arch[1]) :
                        l >= 2 => LevelTotal(s, l) <= arch[1].organization[l]
                   /\ \A l \in DOMAIN s, d \in DOMAIN w.problem :
                        s[l][d] > 1 => AllowedAt(w, plan[1].constraint, d, l)
    IN  Drawable = {s \in SplitsOf(w, plan[1].levels) : fits(s)}

\* The weights the sampler gives its choices are the numbers of ways to go on
\* from each: the factors of a level within its cap, and the splits of an extent
\* over the free levels.
WeightsExact ==
  pc = "configured" =>
    LET w == prepared[1]
        dims == DimsOf(w)
        extents == Range(w.problem)
        ways(cap) == {f \in [ToSet(dims) -> UNION {Divisors(e) : e \in extents}] :
                        /\ \A d \in ToSet(dims) : f[d] \in Divisors(w.problem[d])
                        /\ Product(f, ToSet(dims)) <= cap}
        tails(e, n) == {f \in [1 .. n -> Divisors(e)] : Product(f, 1 .. n) = e}
    IN  /\ \A l \in Capped(arch[1], plan[1].levels) :
             CountLevel(w.problem, dims, 1, Cap(arch[1], l)) = Cardinality(ways(Cap(arch[1], l)))
        /\ \A e \in extents, n \in 1 .. Cardinality(plan[1].levels) :
             CountFactorizations(e, n) = Cardinality(tails(e, n))

\* A search that has begun, and an evaluation of what it found, only end with
\* an error for what is wrong with the files from the start: an architecture
\* with a level left out or without a cache block, or a layout that leaves a
\* directive open.
SearchSurvives ==
  pc = "raised" =>
    \/ (2 .. Max(plan[1].levels)) \ DefinedLevels(arch[1]) # {}
    \/ ~Given(arch[1].cache)
    \/ ~Required(base[1])
=============================================================================
